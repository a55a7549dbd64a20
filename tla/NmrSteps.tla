------------------------------- MODULE NmrSteps -------------------------------
(* Every step of the registrar keeps its inductive invariant NmrIInv.  The     *)
(* facts about the sizes of sets of bindings are the hypothesis NmrCounting,   *)
(* which NmrProofs proves from the library's theorems.                         *)
EXTENDS Nmr, TLAPS

\* What the steps use of the number of bindings that a registration has in a
\* set: it adds up over disjoint sets, drops by one when a binding of the
\* registration leaves, and is zero only when none is left.
CountsAdd ==
  \A S, T \in SUBSET Bindings, r \in Registrations : S \cap T = {} =>
    Cardinality((S \cup T) \cap Of(r)) =
      Cardinality(S \cap Of(r)) + Cardinality(T \cap Of(r))
CountsDrop ==
  \A S \in SUBSET Bindings, r \in Registrations : \A b \in S :
    Cardinality((S \ {b}) \cap Of(r)) =
      IF b \in Of(r) THEN Cardinality(S \cap Of(r)) - 1
                     ELSE Cardinality(S \cap Of(r))
CountsFit ==
  \A S \in SUBSET Bindings, r \in Registrations :
    /\ Cardinality(S \cap Of(r)) \in Nat
    /\ Cardinality(S \cap Of(r)) = 0 <=> S \cap Of(r) = {}
NmrCounting == CountsAdd /\ CountsDrop /\ CountsFit

\* The thread of r alone has binding b in its hands.
HeldOnly(r, b) == \A q \in Registrations : cur[q] = b => q = r

\* The value of cur of a thread that runs no callback is not a binding.
LEMMA NoBindingIsNone == NoBinding \notin Bindings
  BY DEF NoBinding, Bindings

\* A binding is created by the perform_bind of one registration only.
LEMMA MadeByOne ==
  ASSUME NmrConstants, NEW q \in Registrations, NEW r \in Registrations,
         NEW b \in MadeBy(q), b \in MadeBy(r)
  PROVE  q = r
  BY DEF NmrConstants, MadeBy, Of, Bindings, Registrations

\* The bindings of a registration, and those it creates, are bindings.
LEMMA MadeByBindings ==
  ASSUME NEW r \in Registrations
  PROVE  MadeBy(r) \subseteq Bindings /\ Of(r) \subseteq Bindings
  BY DEF MadeBy, Of

\* perform_bind creates bindings of the calling registration, and only with
\* registrations in their collection that are not deregistering.
LEMMA NewBindingsFit ==
  ASSUME NEW r \in Registrations
  PROVE  /\ NewBindings(r) \subseteq MadeBy(r)
         /\ \A t \in Registrations : NewBindings(r) \cap Of(t) # {} =>
              pc[t] \notin {"idle", "removed"} /\ ~deregistering[t]
  BY DEF NewBindings, MadeBy, Of, Bindings, Registrations, InCollection

\* A binding whose attach succeeded and that begin_unbind has not claimed is in
\* the map and in no thread's hands.
LEMMA ReadyIsFree ==
  ASSUME NmrIInv, NEW b \in Bindings, client_binding_status[b] = "Ready"
  PROVE  b \in in_table /\ Unheld(b) /\ returned[b] = {} /\ b \notin completing
  <1>1. b \in in_table /\ returned[b] = {}
    BY DEF NmrIInv, StatusPaired
  <1>2. b \notin completing
    BY DEF NmrIInv, CompletingFits, BothComplete
  <1>3. ASSUME NEW q \in Registrations, cur[q] = b
        PROVE  FALSE
    <2>1. step[q] \in Steps /\ step[q] # "none"
      BY <1>3, NoBindingIsNone DEF NmrIInv, TypeOK, WorkFits
    <2>2. QED
      BY <1>3, <2>1 DEF NmrIInv, HeldStages, Attaching, Detaching, BothComplete, Steps
  <1>4. QED
    BY <1>1, <1>2, <1>3 DEF Unheld

\* A thread that only drops bindings from its list that left the map, or that it
\* took in its hands, keeps what is said of deregistrations.
LEMMA ListKept ==
  ASSUME TypeOK, DeregistrationFits, in_table' \subseteq in_table,
         UNCHANGED <<pc, deregistering, pending>>,
         \A q \in Registrations : pc[q] = "unbinding" =>
           in_table' \cap (todo[q] \cup {cur[q]}) \subseteq todo'[q] \cup {cur'[q]}
  PROVE  DeregistrationFits'
  <1> SUFFICES ASSUME NEW r \in Registrations
               PROVE  /\ pc[r] \in {"deactivated", "unbinding", "waiting", "removed"} =>
                           deregistering[r]
                      /\ pc[r] = "unbinding" /\ ~pending[r] =>
                           in_table' \cap Of(r) \subseteq todo'[r] \cup {cur'[r]}
                      /\ pc[r] = "waiting" /\ ~pending[r] => in_table' \cap Of(r) = {}
                      /\ pc[r] = "removed" => in_table' \cap Of(r) = {}
    BY Zenon DEF DeregistrationFits, Deregistered, Of
  <1>1. QED
    BY DEF DeregistrationFits, Deregistered

\* A binding that a thread holds is in the map, in nobody else's hands, and not
\* ready: begin_unbind claimed it or its attach has not returned.
LEMMA HeldFits ==
  ASSUME NmrIInv, NEW r \in Registrations, cur[r] # NoBinding
  PROVE  /\ cur[r] \in Bindings /\ cur[r] \in in_table /\ cur[r] \notin completing
         /\ HeldOnly(r, cur[r])
         /\ client_binding_status[cur[r]] # "Ready"
  <1>1. cur[r] \in Bindings /\ cur[r] \in in_table /\ HeldOnly(r, cur[r])
    BY DEF NmrIInv, TypeOK, WorkFits, HeldOnly
  <1>2. cur[r] \notin completing
    BY DEF NmrIInv, CompletingFits, Unheld
  <1>3. client_binding_status[cur[r]] # "Ready"
    BY <1>1, ReadyIsFree DEF Unheld
  <1>4. QED
    BY <1>1, <1>2, <1>3, Zenon

\* A binding that has not been attached owes nothing.
LEMMA StartFits ==
  ASSUME NmrIInv, NEW b \in Bindings, client_binding_status[b] = "Start"
  PROVE  /\ provider_binding_status[b] = "Start"
         /\ returned[b] = {} /\ incomplete[b] = {} /\ b \notin completing
  <1>1. provider_binding_status[b] = "Start" /\ returned[b] = {}
    BY DEF NmrIInv, StatusPaired
  <1>2. b \notin completing
    BY DEF NmrIInv, CompletingFits, BothComplete
  <1>3. incomplete[b] = {}
    BY <1>1 DEF NmrIInv, OwedFits
  <1>4. QED
    BY <1>1, <1>2, <1>3, Zenon

\* When a binding leaves the map, what no longer holds of it is said of no
\* thread: unbind_complete keeps the invariant for a binding nobody else holds.
LEMMA UnbindCompleteCounts ==
  ASSUME NmrConstants, NmrCounting, NmrIInv, NEW b \in Bindings, b \in in_table,
         unbind_complete(b)
  PROVE  BindingCountExact'
  <1> SUFFICES ASSUME NEW t \in Registrations
               PROVE  binding_count'[t] = Cardinality(in_table' \cap Of(t))
    BY DEF BindingCountExact
  <1>1. in_table \in SUBSET Bindings
    BY DEF NmrIInv, TypeOK
  <1>2. Cardinality((in_table \ {b}) \cap Of(t)) =
          IF b \in Of(t) THEN Cardinality(in_table \cap Of(t)) - 1
                         ELSE Cardinality(in_table \cap Of(t))
    BY <1>1 DEF NmrCounting, CountsDrop
  <1>3. binding_count[t] = Cardinality(in_table \cap Of(t))
    BY DEF NmrIInv, BindingCountExact
  <1>4. in_table' = in_table \ {b}
    BY DEF unbind_complete
  <1>5. binding_count'[t] =
          IF b \in Of(t) THEN binding_count[t] - 1 ELSE binding_count[t]
    BY DEF unbind_complete
  <1>6. QED
    BY <1>2, <1>3, <1>4, <1>5, Zenon

\* unbind_complete of a binding that its caller holds and nobody else does keeps
\* the counts and every statement about the other bindings.
LEMMA UnbindCompleteFits ==
  ASSUME NmrIInv, NEW b \in Bindings, b \in in_table, unbind_complete(b),
         client_binding_status[b] # "Ready", incomplete[b] = {},
         UNCHANGED <<returned, incomplete, status>>
  PROVE  StatusPaired' /\ OwedFits'
  <1> USE DEF unbind_complete, status
  <1>1. StatusPaired'
    BY DEF NmrIInv, StatusPaired
  <1>2. OwedFits'
    BY DEF NmrIInv, OwedFits
  <1>3. QED
    BY <1>1, <1>2, Zenon

\* A binding whose sides are both complete owes nothing.
LEMMA CompleteOwesNothing ==
  ASSUME NmrIInv, NEW b \in Bindings, BothComplete(b)
  PROVE  incomplete[b] = {} /\ client_binding_status[b] # "Ready"
  BY DEF NmrIInv, TypeOK, OwedFits, BothComplete, Sides

\* A step that leaves the bindings alone keeps what is said of them.
LEMMA BindingsKept ==
  ASSUME NmrIInv, UNCHANGED <<cur, step, table, status, async>>
  PROVE  /\ BindingCountExact' /\ StatusPaired' /\ OwedFits'
         /\ HeldStages' /\ CompletingFits'
  <1>1. BindingCountExact' /\ StatusPaired' /\ OwedFits'
    BY DEF NmrIInv, BindingCountExact, StatusPaired, OwedFits, table, status, async
  <1>2. HeldStages' /\ CompletingFits'
    BY DEF NmrIInv, HeldStages, CompletingFits, Attaching, Detaching, BothComplete, Unheld, table, status, async
  <1>3. QED
    BY <1>1, <1>2, Zenon

\* A thread that holds no binding moves on: only what is said of its list and of
\* its deregistration is to be shown.
LEMMA ThreadMoves ==
  ASSUME NmrIInv, NEW r \in Registrations, NEW to \in PCs, step[r] = "none",
         pc' = [pc EXCEPT ![r] = to],
         to # "binding" /\ to # "idle" /\ (to = "added" => pc[r] = "idle"),
         todo' \in [Registrations -> SUBSET Bindings],
         \A q \in Registrations : q # r => todo'[q] = todo[q],
         deregistering' \in [Registrations -> BOOLEAN],
         UNCHANGED <<cur, pending, table, status, step, async>>,
         DeregistrationFits'
  PROVE  NmrIInv'
  <1>1. TypeOK'
    BY Zenon DEF NmrIInv, TypeOK, table, status, async
  <1>2. BindingCountExact' /\ StatusPaired' /\ OwedFits' /\ HeldStages' /\ CompletingFits'
    BY BindingsKept, Zenon
  <1>3. pc'[r] = to /\ \A q \in Registrations : q # r => pc'[q] = pc[q]
    BY DEF NmrIInv, TypeOK
  <1>4. WorkFits'
    BY <1>3 DEF NmrIInv, WorkFits, table
  <1>5. StartsOwned'
    BY <1>3 DEF NmrIInv, StartsOwned, Unheld, table, status
  <1>6. CreatedFits'
    BY <1>3 DEF NmrIInv, CreatedFits, table
  <1>7. QED
    BY <1>1, <1>2, <1>4, <1>5, <1>6, Zenon DEF NmrIInv

\* The steps of a registration: each of its new bindings is attached once.
LEMMA RegisteringKeepsNmrIInv ==
  ASSUME NmrConstants, NmrCounting, NmrIInv, NEW r \in Registrations
  PROVE  (
           \/ Add(r)
           \/ PerformBind(r)
           \/ \E b \in Bindings : ClientAttachProvider(r, b)
           \/ AttachSucceeded(r)
           \/ AttachFailed(r)
           \/ Registered(r)) => NmrIInv'
  <1>1. CASE Add(r)
    <2> USE <1>1
    <2>1. /\ step[r] = "none" /\ pc[r] = "idle" /\ pc' = [pc EXCEPT ![r] = "added"]
          /\ UNCHANGED <<deregistering, todo, cur, pending, table, status, step, async>>
      BY Zenon DEF Add, Goto, NmrIInv, WorkFits, TypeOK, Steps
    <2>2. DeregistrationFits'
      BY <2>1 DEF NmrIInv, DeregistrationFits, Deregistered, TypeOK, table
    <2>3. QED
      BY <2>1, <2>2, ThreadMoves, Zenon DEF NmrIInv, TypeOK, PCs
  <1>2. CASE PerformBind(r)
    <2> USE <1>2
    <2> DEFINE N == NewBindings(r)
    <2>1. /\ N \subseteq MadeBy(r) /\ N \subseteq Bindings /\ N \cap created = {}
          /\ \A t \in Registrations : N \cap Of(t) # {} =>
               pc[t] \notin {"idle", "removed"} /\ ~deregistering[t]
      BY NewBindingsFit, MadeByBindings DEF PerformBind, Goto, NmrIInv, CreatedFits
    <2>2. /\ pc[r] = "added" /\ pc' = [pc EXCEPT ![r] = "binding"]
          /\ todo' = [todo EXCEPT ![r] = N]
          /\ created' = created \cup N
          /\ in_table' = in_table \cup N
          /\ binding_count' = [t \in Registrations |->
               binding_count[t] + Cardinality(N \cap Of(t))]
          /\ UNCHANGED <<deregistering, cur, pending, status, step, async>>
      BY DEF PerformBind, Goto
    <2> HIDE DEF N
    <2>3. \A t \in Registrations : Cardinality(N \cap Of(t)) \in Nat
      BY <2>1 DEF NmrCounting, CountsFit
    <2>4. TypeOK'
      <3>1. binding_count' \in [Registrations -> Int]
        BY <2>2, <2>3 DEF NmrIInv, TypeOK
      <3>2. /\ pc' \in [Registrations -> PCs]
            /\ todo' \in [Registrations -> SUBSET Bindings]
            /\ created' \subseteq Bindings /\ in_table' \subseteq created'
        BY <2>1, <2>2 DEF NmrIInv, TypeOK, PCs
      <3>3. QED
        BY <2>2, <3>1, <3>2, Zenon DEF NmrIInv, TypeOK, status, async
    <2>5. BindingCountExact'
      <3> SUFFICES ASSUME NEW t \in Registrations
                   PROVE  binding_count'[t] = Cardinality((in_table \cup N) \cap Of(t))
        BY <2>2, Zenon DEF BindingCountExact
      <3>1. in_table \in SUBSET Bindings /\ N \in SUBSET Bindings /\ in_table \cap N = {}
        BY <2>1 DEF NmrIInv, TypeOK
      <3>2. binding_count[t] = Cardinality(in_table \cap Of(t))
        BY DEF NmrIInv, BindingCountExact
      <3>3. binding_count'[t] = binding_count[t] + Cardinality(N \cap Of(t))
        BY <2>2
      <3>4. Cardinality((in_table \cup N) \cap Of(t)) =
              Cardinality(in_table \cap Of(t)) + Cardinality(N \cap Of(t))
        BY <3>1 DEF NmrCounting, CountsAdd
      <3>5. QED
        BY <3>2, <3>3, <3>4, Zenon
    <2>6. WorkFits'
      BY <2>2 DEF NmrIInv, WorkFits, TypeOK
    <2>7. StartsOwned'
      <3>1. \A x \in N : Unheld(x) /\ client_binding_status[x] = "Start"
        BY <2>1, NoBindingIsNone DEF NmrIInv, Unheld, WorkFits, StatusPaired, TypeOK
      <3>2. QED
        BY <2>1, <2>2, <3>1 DEF NmrIInv, StartsOwned, Unheld, TypeOK, status
    <2>8. CreatedFits'
      <3> SUFFICES ASSUME NEW q \in Registrations, pc'[q] \in {"idle", "added"}
                   PROVE  MadeBy(q) \cap created' = {}
        BY DEF CreatedFits
      <3>1. q # r /\ pc[q] \in {"idle", "added"}
        BY <2>2 DEF NmrIInv, TypeOK
      <3>2. MadeBy(q) \cap N = {}
        BY <2>1, <3>1, MadeByOne
      <3>3. QED
        BY <2>2, <3>1, <3>2 DEF NmrIInv, CreatedFits
    <2>9. StatusPaired' /\ OwedFits'
      BY <2>2 DEF NmrIInv, StatusPaired, OwedFits, status, async
    <2>10. HeldStages' /\ CompletingFits'
      BY <2>2 DEF NmrIInv, HeldStages, CompletingFits, Attaching, Detaching, BothComplete, Unheld, status, async
    <2>11. DeregistrationFits'
      <3> SUFFICES ASSUME NEW q \in Registrations
                   PROVE  /\ pc'[q] \in {"deactivated", "unbinding", "waiting", "removed"} =>
                               deregistering'[q]
                          /\ pc'[q] = "unbinding" /\ ~pending'[q] =>
                               in_table' \cap Of(q) \subseteq todo'[q] \cup {cur'[q]}
                          /\ pc'[q] = "waiting" /\ ~pending'[q] => in_table' \cap Of(q) = {}
                          /\ pc'[q] = "removed" => in_table' \cap Of(q) = {}
        BY Zenon DEF DeregistrationFits, Deregistered, Of
      <3>1. CASE q = r
        BY <2>2, <3>1 DEF NmrIInv, TypeOK
      <3>2. CASE q # r
        <4>1. pc'[q] = pc[q] /\ todo'[q] = todo[q]
          BY <2>2, <3>2 DEF NmrIInv, TypeOK
        <4>2. deregistering[q] => in_table' \cap Of(q) = in_table \cap Of(q)
          BY <2>1, <2>2
        <4>3. QED
          BY <2>2, <4>1, <4>2 DEF NmrIInv, DeregistrationFits, Deregistered
      <3>3. QED
        BY <3>1, <3>2
    <2>12. QED
      BY <2>4, <2>5, <2>6, <2>7, <2>8, <2>9, <2>10, <2>11, Zenon DEF NmrIInv
  <1>3. ASSUME NEW b \in Bindings, ClientAttachProvider(r, b)
        PROVE  NmrIInv'
    <2> USE <1>3
    <2>1. /\ b \in in_table /\ Unheld(b) /\ b \notin completing
          /\ b \in MadeBy(r) /\ client_binding_status[b] = "Start"
      BY StartFits DEF ClientAttachProvider, NmrIInv, StartsOwned
    <2>2. /\ pc[r] = "binding" /\ Step(r, "none", "attaching")
          /\ cur' = [cur EXCEPT ![r] = b]
          /\ todo' = [todo EXCEPT ![r] = @ \ {b}]
          /\ UNCHANGED <<pc, deregistering, pending, table, status, async>>
      BY DEF ClientAttachProvider
    <2>3. TypeOK'
      BY <2>2 DEF NmrIInv, TypeOK, Step, Steps, table, status, async
    <2>4. BindingCountExact' /\ CreatedFits' /\ StatusPaired' /\ OwedFits'
      BY <2>2 DEF NmrIInv, BindingCountExact, CreatedFits, StatusPaired, OwedFits, table, status, async
    <2>5. WorkFits'
      BY <2>1, <2>2, NoBindingIsNone DEF NmrIInv, WorkFits, Unheld, TypeOK, Step, table
    <2>6. StartsOwned'
      <3> SUFFICES ASSUME NEW q \in Registrations, pc[q] = "binding", NEW x \in todo'[q]
                   PROVE  /\ x \in MadeBy(q) /\ x \in in_table
                          /\ client_binding_status[x] = "Start"
                          /\ \A p \in Registrations : cur'[p] # x
        BY <2>2 DEF StartsOwned, Unheld, table, status
      <3>1. x \in todo[q]
        BY <2>2 DEF NmrIInv, TypeOK
      <3>2. x \in MadeBy(q) /\ (q = r => x # b)
        BY <2>2, <3>1 DEF NmrIInv, StartsOwned, TypeOK
      <3>3. x # b
        BY <2>1, <3>2, MadeByOne
      <3>4. QED
        BY <2>2, <3>1, <3>3 DEF NmrIInv, StartsOwned, Unheld, TypeOK
    <2>7. HeldStages'
      BY <2>1, <2>2 DEF NmrIInv, HeldStages, Attaching, Detaching, BothComplete, TypeOK, Step, status, async
    <2>8. CompletingFits'
      BY <2>1, <2>2 DEF NmrIInv, CompletingFits, BothComplete, Unheld, TypeOK, table, status, async
    <2>9. DeregistrationFits'
      BY <2>2, ListKept DEF NmrIInv, TypeOK, table
    <2>10. QED
      BY <2>3, <2>4, <2>5, <2>6, <2>7, <2>8, <2>9, Zenon DEF NmrIInv
  <1>4. CASE AttachSucceeded(r)
    <2> USE <1>4
    <2> DEFINE b == cur[r]
    <2>1. /\ b \in Bindings /\ b \in in_table /\ b \notin completing
          /\ HeldOnly(r, b) /\ returned[b] = {} /\ incomplete[b] = {}
      BY HeldFits, StartFits DEF AttachSucceeded, Step, NmrIInv, HeldStages, Attaching
    <2>2. /\ pc[r] = "binding" /\ cur[r] = b /\ Step(r, "attaching", "none")
          /\ client_binding_status' = [client_binding_status EXCEPT ![b] = "Ready"]
          /\ provider_binding_status' = [provider_binding_status EXCEPT ![b] = "Ready"]
          /\ cur' = [cur EXCEPT ![r] = NoBinding]
          /\ UNCHANGED <<pc, deregistering, todo, pending, table, async>>
      BY DEF AttachSucceeded
    <2> HIDE DEF b
    <2>3. TypeOK'
      BY <2>2, Zenon DEF NmrIInv, TypeOK, Step, Steps, Statuses, table, async
    <2>4. BindingCountExact' /\ CreatedFits'
      BY <2>2 DEF NmrIInv, BindingCountExact, CreatedFits, table
    <2>5. WorkFits'
      BY <2>2 DEF NmrIInv, WorkFits, TypeOK, Step, table
    <2>6. StartsOwned'
      BY <2>2, NoBindingIsNone DEF NmrIInv, StartsOwned, Unheld, TypeOK, table
    <2>7. StatusPaired'
      BY <2>1, <2>2 DEF NmrIInv, StatusPaired, TypeOK, table, async
    <2>8. OwedFits'
      BY <2>1, <2>2 DEF NmrIInv, OwedFits, TypeOK, table, async
    <2>9. HeldStages'
      <3> SUFFICES ASSUME NEW q \in Registrations, q # r, step[q] # "none"
                   PROVE  cur[q] # b /\ cur[q] \in Bindings
        BY <2>2 DEF NmrIInv, HeldStages, Attaching, Detaching, BothComplete, TypeOK, Step, async
      <3>1. QED
        BY <2>1 DEF NmrIInv, WorkFits, TypeOK, HeldOnly
    <2>10. CompletingFits'
      BY <2>1, <2>2, NoBindingIsNone DEF NmrIInv, CompletingFits, BothComplete, Unheld, TypeOK, table, async
    <2>11. DeregistrationFits'
      BY <2>2, ListKept DEF NmrIInv, TypeOK, table
    <2>12. QED
      BY <2>3, <2>4, <2>5, <2>6, <2>7, <2>8, <2>9, <2>10, <2>11, Zenon DEF NmrIInv
  <1>5. CASE AttachFailed(r)
    <2> USE <1>5
    <2> DEFINE b == cur[r]
    <2>1. /\ b \in Bindings /\ b \in in_table /\ b \notin completing
          /\ HeldOnly(r, b)
          /\ client_binding_status[b] = "Start" /\ incomplete[b] = {}
      BY HeldFits, StartFits DEF AttachFailed, Step, NmrIInv, HeldStages, Attaching
    <2>2. /\ pc[r] = "binding" /\ unbind_complete(b) /\ Step(r, "attaching", "none")
          /\ cur' = [cur EXCEPT ![r] = NoBinding]
          /\ UNCHANGED <<pc, deregistering, todo, pending, status, async>>
      BY DEF AttachFailed
    <2>3. /\ cur[r] = b
          /\ in_table' = in_table \ {b}
          /\ created' = created
      BY <2>2 DEF unbind_complete
    <2> HIDE DEF b
    <2>4. TypeOK'
      BY <2>2, SMTT(30) DEF NmrIInv, TypeOK, Step, Steps, unbind_complete, status, async
    <2>5. BindingCountExact'
      BY <2>1, <2>2, UnbindCompleteCounts
    <2>6. StatusPaired' /\ OwedFits'
      BY <2>1, <2>2, UnbindCompleteFits DEF async
    <2>7. WorkFits'
      BY <2>1, <2>2, <2>3 DEF NmrIInv, WorkFits, HeldOnly, TypeOK, Step
    <2>8. StartsOwned'
      BY <2>2, <2>3, NoBindingIsNone DEF NmrIInv, StartsOwned, Unheld, TypeOK, status
    <2>9. CreatedFits'
      BY <2>2, <2>3 DEF NmrIInv, CreatedFits
    <2>10. HeldStages'
      BY <2>2 DEF NmrIInv, HeldStages, Attaching, Detaching, BothComplete, TypeOK, Step, status, async
    <2>11. CompletingFits'
      BY <2>1, <2>2, <2>3, NoBindingIsNone DEF NmrIInv, CompletingFits, BothComplete, Unheld, TypeOK, status, async
    <2>12. DeregistrationFits'
      BY <2>2, <2>3, ListKept DEF NmrIInv, TypeOK
    <2>13. QED
      BY <2>4, <2>5, <2>6, <2>7, <2>8, <2>9, <2>10, <2>11, <2>12, Zenon DEF NmrIInv
  <1>6. CASE Registered(r)
    <2> USE <1>6
    <2>1. /\ step[r] = "none" /\ pc[r] = "binding" /\ pc' = [pc EXCEPT ![r] = "registered"]
          /\ UNCHANGED <<deregistering, todo, cur, pending, table, status, step, async>>
      BY Zenon DEF Registered, Goto, NmrIInv, WorkFits, TypeOK, Steps
    <2>2. DeregistrationFits'
      BY <2>1 DEF NmrIInv, DeregistrationFits, Deregistered, TypeOK, table
    <2>3. QED
      BY <2>1, <2>2, ThreadMoves, Zenon DEF NmrIInv, TypeOK, PCs
  <1>7. QED
    BY <1>1, <1>2, <1>3, <1>4, <1>5, <1>6, Zenon

\* The steps of a deregistration outside begin_unbind's callbacks.
LEMMA DeregisteringKeepsNmrIInv ==
  ASSUME NmrConstants, NmrCounting, NmrIInv, NEW r \in Registrations
  PROVE  (
           \/ Deactivate(r)
           \/ PerformUnbind(r)
           \/ \E b \in Bindings : UnbindAlreadyStarted(r, b)
           \/ \E b \in Bindings : BeginUnbind(r, b)
           \/ Unbound(r)
           \/ Remove(r)) => NmrIInv'
  <1>1. CASE Deactivate(r)
    <2> USE <1>1
    <2>1. /\ step[r] = "none" /\ pc[r] = "registered" /\ pc' = [pc EXCEPT ![r] = "deactivated"]
          /\ UNCHANGED <<todo, cur, pending, table, status, step, async>>
      BY Zenon DEF Deactivate, Goto, NmrIInv, WorkFits, TypeOK, Steps
    <2>2. /\ deregistering' = [deregistering EXCEPT ![r] = TRUE]
          /\ deregistering' \in [Registrations -> BOOLEAN]
      BY Zenon DEF Deactivate, NmrIInv, TypeOK
    <2>3. DeregistrationFits'
      BY <2>1, <2>2 DEF NmrIInv, DeregistrationFits, Deregistered, TypeOK, table
    <2>4. QED
      BY <2>1, <2>2, <2>3, ThreadMoves, Zenon DEF NmrIInv, TypeOK, PCs
  <1>2. CASE PerformUnbind(r)
    <2> USE <1>2
    <2>1. /\ step[r] = "none" /\ pc[r] = "deactivated" /\ pc' = [pc EXCEPT ![r] = "unbinding"]
          /\ UNCHANGED <<deregistering, cur, pending, table, status, step, async>>
      BY Zenon DEF PerformUnbind, Goto, NmrIInv, WorkFits, TypeOK, Steps
    <2>2. /\ todo' = [todo EXCEPT ![r] = in_table \cap Of(r)]
          /\ todo' \in [Registrations -> SUBSET Bindings]
          /\ \A q \in Registrations : q # r => todo'[q] = todo[q]
      BY MadeByBindings DEF PerformUnbind, NmrIInv, TypeOK
    <2>3. DeregistrationFits'
      BY <2>1, <2>2 DEF NmrIInv, DeregistrationFits, Deregistered, TypeOK, table
    <2>4. QED
      BY <2>1, <2>2, <2>3, ThreadMoves, Zenon DEF NmrIInv, TypeOK, PCs
  <1>3. ASSUME NEW b \in Bindings, UnbindAlreadyStarted(r, b)
        PROVE  NmrIInv'
    <2> USE <1>3
    <2> USE DEF NmrIInv, UnbindAlreadyStarted
    <2>1. TypeOK'
      BY DEF TypeOK, table, status, async
    <2>2. BindingCountExact' /\ StatusPaired' /\ OwedFits' /\ HeldStages' /\ CompletingFits'
      BY BindingsKept
    <2>3. WorkFits' /\ CreatedFits'
      BY DEF WorkFits, CreatedFits, table
    <2>4. StartsOwned'
      BY DEF StartsOwned, Unheld, TypeOK, table, status
    <2>5. DeregistrationFits'
      BY DEF DeregistrationFits, Deregistered, TypeOK, table
    <2>6. QED
      BY <2>1, <2>2, <2>3, <2>4, <2>5, Zenon
  <1>4. ASSUME NEW b \in Bindings, BeginUnbind(r, b)
        PROVE  NmrIInv'
    <2> USE <1>4
    <2> USE DEF NmrIInv
    <2>1. TypeOK'
      BY DEF TypeOK, BeginUnbind, Step, Statuses, Steps, table, async
    <2>2. BindingCountExact'
      BY DEF BindingCountExact, BeginUnbind, table
    <2>3. b \in in_table /\ Unheld(b) /\ returned[b] = {} /\ b \notin completing
      BY ReadyIsFree DEF BeginUnbind, BothReady
    <2>4. WorkFits'
      BY <2>3 DEF WorkFits, BeginUnbind, Step, Unheld, TypeOK, table
    <2>5. StartsOwned'
      BY <2>3 DEF StartsOwned, BeginUnbind, BothReady, Unheld, TypeOK, table
    <2>6. CreatedFits'
      BY DEF CreatedFits, BeginUnbind, table
    <2>7. StatusPaired'
      BY <2>3 DEF StatusPaired, BeginUnbind, TypeOK, table, async
    <2>8. OwedFits'
      BY <2>3 DEF OwedFits, BeginUnbind, TypeOK, table, async
    <2>9. HeldStages'
      BY <2>3 DEF HeldStages, Attaching, Detaching, BothComplete, BeginUnbind, Step, Unheld, TypeOK, async
    <2>10. CompletingFits'
      BY <2>3 DEF CompletingFits, BothComplete, BeginUnbind, Unheld, TypeOK, table, async
    <2>11. DeregistrationFits'
      <3>1. \A q \in Registrations : pc[q] = "unbinding" =>
              in_table \cap (todo[q] \cup {cur[q]}) \subseteq todo'[q] \cup {cur'[q]}
        BY NoBindingIsNone DEF BeginUnbind, TypeOK
      <3>2. QED
        BY <3>1, ListKept DEF BeginUnbind, table
    <2>12. QED
      BY <2>1, <2>2, <2>4, <2>5, <2>6, <2>7, <2>8, <2>9, <2>10, <2>11, Zenon
  <1>5. CASE Unbound(r)
    <2> USE <1>5
    <2>1. /\ step[r] = "none" /\ pc[r] = "unbinding" /\ pc' = [pc EXCEPT ![r] = "waiting"]
          /\ UNCHANGED <<deregistering, todo, cur, pending, table, status, step, async>>
      BY Zenon DEF Unbound, Goto, NmrIInv, WorkFits, TypeOK, Steps
    <2>2. ~pending[r] => Deregistered(r)
      <3>1. ~pending[r] => in_table \cap Of(r) \subseteq {NoBinding}
        BY DEF Unbound, Goto, NmrIInv, DeregistrationFits
      <3>2. QED
        BY <3>1, MadeByBindings, NoBindingIsNone DEF Deregistered
    <2>3. DeregistrationFits'
      BY <2>1, <2>2 DEF NmrIInv, DeregistrationFits, Deregistered, TypeOK, table
    <2>4. QED
      BY <2>1, <2>2, <2>3, ThreadMoves, Zenon DEF NmrIInv, TypeOK, PCs
  \* remove runs when the binding count is zero, so no binding is in the map.
  <1>6. CASE Remove(r)
    <2> USE <1>6
    <2>1. /\ step[r] = "none" /\ pc[r] = "waiting" /\ pc' = [pc EXCEPT ![r] = "removed"]
          /\ UNCHANGED <<deregistering, todo, cur, pending, table, status, step, async>>
      BY Zenon DEF Remove, Goto, NmrIInv, WorkFits, TypeOK, Steps
    <2>2. Deregistered(r)
      <3>1. in_table \in SUBSET Bindings
        BY DEF NmrIInv, TypeOK
      <3>2. Cardinality(in_table \cap Of(r)) <= 0
        BY DEF Remove, NmrIInv, BindingCountExact
      <3>3. QED
        BY <3>1, <3>2 DEF NmrCounting, CountsFit, Deregistered
    <2>3. DeregistrationFits'
      BY <2>1, <2>2 DEF NmrIInv, DeregistrationFits, Deregistered, TypeOK, table
    <2>4. QED
      BY <2>1, <2>2, <2>3, ThreadMoves, Zenon DEF NmrIInv, TypeOK, PCs
  <1>7. QED
    BY <1>1, <1>2, <1>3, <1>4, <1>5, <1>6, Zenon

\* A detach callback of begin_unbind: the side it calls has not returned
\* STATUS_PENDING before, and the status that records its outcome is open.
LEMMA CallbackKeepsNmrIInv ==
  ASSUME NmrConstants, NmrIInv, NEW r \in Registrations,
         NEW side \in Sides, NEW from \in Steps, NEW to \in Steps,
         \/ side = "client" /\ from = "client_detach" /\ to = "provider_detach"
         \/ side = "provider" /\ from = "provider_detach" /\ to = "relock",
         DetachCallback(r, side, from, to)
  PROVE  NmrIInv'
  <1> DEFINE b == cur[r]
  <1>1. /\ b \in Bindings /\ b \in in_table /\ HeldOnly(r, b)
        /\ pc[r] = "unbinding" /\ step[r] = from /\ cur[r] = b
        /\ step' = [step EXCEPT ![r] = to]
    BY HeldFits DEF DetachCallback, Step
  <1>2. /\ Detaching(b) /\ side \notin returned[b]
        /\ to = "provider_detach" => returned[b] = {} /\ side # "provider"
        /\ client_binding_status[b] \notin {"Start", "Ready"}
    BY <1>1 DEF NmrIInv, HeldStages, Detaching
  <1>3. UNCHANGED <<pc, deregistering, todo, cur, pending, table, status, completing>>
    BY Zenon DEF DetachCallback
  <1>4. \/ UNCHANGED <<returned, incomplete>>
        \/ /\ returned' = [returned EXCEPT ![b] = @ \cup {side}]
           /\ incomplete' = [incomplete EXCEPT ![b] = @ \cup {side}]
           /\ returned[b] \cup {side} # Sides
    BY Zenon DEF DetachCallback, NmrConstants
  <1> HIDE DEF b
  <1>5. /\ step' \in [Registrations -> Steps] /\ step'[r] = to
        /\ \A q \in Registrations : q # r => step'[q] = step[q]
    BY <1>1 DEF NmrIInv, TypeOK
  <1>6. /\ returned' \in [Bindings -> SUBSET Sides]
        /\ incomplete' \in [Bindings -> SUBSET Sides]
    BY <1>4 DEF NmrIInv, TypeOK
  <1>7. /\ \A x \in Bindings : x # b =>
             returned'[x] = returned[x] /\ incomplete'[x] = incomplete[x]
        /\ \/ returned'[b] = returned[b] /\ incomplete'[b] = incomplete[b]
           \/ /\ returned'[b] = returned[b] \cup {side}
              /\ incomplete'[b] = incomplete[b] \cup {side}
              /\ returned'[b] # Sides
    BY <1>1, <1>4 DEF NmrIInv, TypeOK
  <1>8. TypeOK'
    BY <1>3, <1>5, <1>6, Zenon DEF NmrIInv, TypeOK, table, status
  <1>9. BindingCountExact' /\ CreatedFits' /\ StartsOwned'
    <2>1. BindingCountExact' /\ CreatedFits'
      BY <1>3, Zenon DEF NmrIInv, BindingCountExact, CreatedFits, table
    <2>2. StartsOwned'
      BY <1>3, Zenon DEF NmrIInv, StartsOwned, Unheld, table, status
    <2>3. QED
      BY <2>1, <2>2
  <1>10. CompletingFits' /\ DeregistrationFits'
    <2>1. CompletingFits'
      BY <1>3, Zenon DEF NmrIInv, CompletingFits, BothComplete, Unheld, table, status
    <2>2. DeregistrationFits'
      BY <1>3, ZenonT(30) DEF NmrIInv, DeregistrationFits, Deregistered, table
    <2>3. QED
      BY <2>1, <2>2
  <1>11. WorkFits'
    BY <1>1, <1>3, <1>5, Zenon DEF NmrIInv, WorkFits, table
  <1>12. StatusPaired'
    BY <1>2, <1>3, <1>7 DEF NmrIInv, StatusPaired, table, status
  <1>13. OwedFits'
    <2>1. /\ side = "client" => provider_binding_status[b] # "UnbindComplete"
          /\ side = "provider" => client_binding_status[b] # "UnbindComplete"
      BY <1>2 DEF Detaching
    <2>2. QED
      BY <1>1, <1>3, <1>7, <2>1 DEF NmrIInv, OwedFits, table, status, Sides
  <1>14. HeldStages'
    <2> SUFFICES ASSUME NEW q \in Registrations
                 PROVE  /\ step'[q] = "attaching" => Attaching(cur[q])
                        /\ step'[q] \in {"client_detach", "provider_detach", "relock"} =>
                             /\ client_binding_status[cur[q]] \in {"BeginUnbind", "UnbindComplete"}
                             /\ provider_binding_status[cur[q]] \in {"BeginUnbind", "UnbindComplete"}
                             /\ client_binding_status[cur[q]] = "UnbindComplete" =>
                                  "provider" \in returned'[cur[q]]
                             /\ provider_binding_status[cur[q]] = "UnbindComplete" =>
                                  "client" \in returned'[cur[q]]
                        /\ step'[q] = "client_detach" => returned'[cur[q]] = {}
                        /\ step'[q] = "provider_detach" => "provider" \notin returned'[cur[q]]
                        /\ step'[q] = "finish" => BothComplete(cur[q])
      BY <1>3, ZenonT(30) DEF HeldStages, Attaching, Detaching, BothComplete, status
    <2>1. CASE q = r
      BY <1>1, <1>2, <1>5, <1>7, <2>1, SMTT(30) DEF Detaching
    <2>2. CASE q # r /\ step[q] # "none"
      <3>1. returned'[cur[q]] = returned[cur[q]] /\ step'[q] = step[q]
        BY <1>1, <1>5, <1>7, <2>2, SMTT(30) DEF NmrIInv, WorkFits, TypeOK, HeldOnly
      <3>2. QED
        BY <2>2, <3>1, Zenon DEF NmrIInv, HeldStages, Detaching
    <2>3. CASE q # r /\ step[q] = "none"
      BY <1>5, <2>3
    <2>4. QED
      BY <2>1, <2>2, <2>3, Zenon
  <1>15. QED
    BY <1>8, <1>9, <1>10, <1>11, <1>12, <1>13, <1>14, Zenon DEF NmrIInv
===============================================================================
