-------------------------- MODULE EbpfObjectSteps --------------------------
(***************************************************************************)
(* What the steps of EbpfObject that change counts, pinning entries and    *)
(* local pointers do to the inductive invariant ObjectIInv: lookups,       *)
(* handles, references and the pinning table.  EbpfObjectLife has the      *)
(* steps that change an object's phase or its id.                          *)
(*                                                                         *)
(* Two facts about finite sets are used throughout; they are the operator  *)
(* Counting, which EbpfObjectProofs proves from the library's theorems.    *)
(***************************************************************************)
EXTENDS EbpfObject, TLAPS

-----------------------------------------------------------------------------
(* Counting.                                                               *)

\* The cardinalities of two finite sets that agree beside x, and of the empty
\* set.
Counting ==
    /\ \A S, A, B, x :
          /\ IsFiniteSet(S) /\ A \in SUBSET S /\ B \in SUBSET S
          /\ A \ {x} = B \ {x}
          => /\ Cardinality(A) \in Nat /\ Cardinality(B) \in Nat
             /\ x \in A => Cardinality(A) >= 1
             /\ Cardinality(B) + (IF x \in A THEN 1 ELSE 0)
                  = Cardinality(A) + (IF x \in B THEN 1 ELSE 0)
    /\ Cardinality({}) = 0

\* The first half of Counting, as a rule to cite.
LEMMA CountStep ==
  ASSUME Counting, NEW S, IsFiniteSet(S), NEW A \in SUBSET S, NEW B \in SUBSET S,
         NEW x, A \ {x} = B \ {x}
  PROVE  /\ Cardinality(A) \in Nat /\ Cardinality(B) \in Nat
         /\ x \in A => Cardinality(A) >= 1
         /\ Cardinality(B) + (IF x \in A THEN 1 ELSE 0)
              = Cardinality(A) + (IF x \in B THEN 1 ELSE 0)
  BY Zenon DEF Counting

\* The second half.
LEMMA EmptyCount ==
  ASSUME Counting
  PROVE  Cardinality({}) = 0
  BY DEF Counting

\* What thread t contributes to the counts of o.
Share(t, o) ==
    (IF t \in Holders(o) THEN 1 ELSE 0) + (IF t \in Pinners(o) THEN 1 ELSE 0)
        + (IF t \in Updaters(o) THEN 1 ELSE 0)

\* No thread but t moves.
OnlyThread(t) ==
    \A q \in Threads : q # t => /\ obj'[q] = obj[q] /\ pc'[q] = pc[q]
                                /\ map'[q] = map[q]

\* A step of t alone changes the references threads hold on o by what it changes
\* in the share of t.
LEMMA ShareStep ==
  ASSUME Counting, ObjectConstants, NEW t \in Threads, OnlyThread(t), NEW o
  PROVE  /\ ThreadReferences(o) \in Nat /\ ThreadReferences(o)' \in Nat
         /\ Share(t, o) \in Nat /\ Share(t, o)' \in Nat
         /\ Share(t, o) =< ThreadReferences(o)
         /\ ThreadReferences(o)' + Share(t, o)
               = ThreadReferences(o) + Share(t, o)'
  <1>0. IsFiniteSet(Threads)
    BY DEF ObjectConstants
  <1> DEFINE Change(A, B) ==
               /\ Cardinality(A) \in Nat /\ Cardinality(B) \in Nat
               /\ t \in A => Cardinality(A) >= 1
               /\ Cardinality(B) + (IF t \in A THEN 1 ELSE 0)
                     = Cardinality(A) + (IF t \in B THEN 1 ELSE 0)
  <1>1. Change(Holders(o), Holders(o)')
    <2>1. /\ Holders(o) \in SUBSET Threads /\ Holders(o)' \in SUBSET Threads
          /\ Holders(o) \ {t} = Holders(o)' \ {t}
      BY DEF Holders, OnlyThread
    <2> QED
      BY <1>0, <2>1, CountStep
  <1>2. Change(Pinners(o), Pinners(o)')
    <2>1. /\ Pinners(o) \in SUBSET Threads /\ Pinners(o)' \in SUBSET Threads
          /\ Pinners(o) \ {t} = Pinners(o)' \ {t}
      BY DEF Pinners, OnlyThread
    <2> QED
      BY <1>0, <2>1, CountStep
  <1>3. Change(Updaters(o), Updaters(o)')
    <2>1. /\ Updaters(o) \in SUBSET Threads /\ Updaters(o)' \in SUBSET Threads
          /\ Updaters(o) \ {t} = Updaters(o)' \ {t}
      BY DEF Updaters, OnlyThread
    <2> QED
      BY <1>0, <2>1, CountStep
  <1> QED
    BY <1>1, <1>2, <1>3 DEF ThreadReferences, Share

\* A thread's part of a count, on its own.
LEMMA ShareOf ==
  ASSUME Counting, ObjectConstants, NEW t \in Threads, NEW o
  PROVE  /\ ThreadReferences(o) \in Nat /\ Share(t, o) \in Nat
         /\ Share(t, o) =< ThreadReferences(o)
  <1>0. IsFiniteSet(Threads)
    BY DEF ObjectConstants
  <1>1. /\ Cardinality(Holders(o)) \in Nat
        /\ t \in Holders(o) => Cardinality(Holders(o)) >= 1
    BY <1>0, CountStep DEF Holders
  <1>2. /\ Cardinality(Pinners(o)) \in Nat
        /\ t \in Pinners(o) => Cardinality(Pinners(o)) >= 1
    BY <1>0, CountStep DEF Pinners
  <1>3. /\ Cardinality(Updaters(o)) \in Nat
        /\ t \in Updaters(o) => Cardinality(Updaters(o)) >= 1
    BY <1>0, CountStep DEF Updaters
  <1> QED
    BY <1>1, <1>2, <1>3 DEF ThreadReferences, Share

\* The paths of o; at most one path p changes.
LEMMA PinsStep ==
  ASSUME Counting, ObjectConstants, NEW p \in Paths, NEW o,
         \A q \in Paths : q # p => pinned'[q] = pinned[q]
  PROVE  /\ Cardinality(PinsOf(o)) \in Nat /\ Cardinality(PinsOf(o)') \in Nat
         /\ pinned[p] = o => Cardinality(PinsOf(o)) >= 1
         /\ Cardinality(PinsOf(o)') + (IF pinned[p] = o THEN 1 ELSE 0)
              = Cardinality(PinsOf(o)) + (IF pinned'[p] = o THEN 1 ELSE 0)
  <1>1. /\ PinsOf(o) \in SUBSET Paths /\ PinsOf(o)' \in SUBSET Paths
        /\ PinsOf(o) \ {p} = PinsOf(o)' \ {p}
        /\ p \in PinsOf(o) <=> pinned[p] = o
        /\ p \in PinsOf(o)' <=> pinned'[p] = o
    BY DEF PinsOf
  <1> QED
    BY <1>1, CountStep DEF ObjectConstants

\* The paths an object is pinned under are finitely many.
LEMMA PinsOfType ==
  ASSUME Counting, ObjectConstants, NEW o
  PROVE  /\ Cardinality(PinsOf(o)) \in Nat
         /\ \A p \in Paths : pinned[p] = o => Cardinality(PinsOf(o)) >= 1
  <1>1. PinsOf(o) \in SUBSET Paths
    BY DEF PinsOf
  <1>2. ASSUME NEW p PROVE /\ Cardinality(PinsOf(o)) \in Nat
                           /\ p \in PinsOf(o) => Cardinality(PinsOf(o)) >= 1
    BY <1>1, CountStep DEF ObjectConstants
  <1> QED
    BY <1>2 DEF PinsOf

\* A step of t alone adds or removes at most t among the threads that unpin o.
LEMMA UnpinnersStep ==
  ASSUME Counting, ObjectConstants, NEW t \in Threads, OnlyThread(t), NEW o
  PROVE  /\ Cardinality(Unpinners(o)) \in Nat
         /\ Cardinality(Unpinners(o)') \in Nat
         /\ t \in Unpinners(o) => Cardinality(Unpinners(o)) >= 1
         /\ Cardinality(Unpinners(o)') + (IF t \in Unpinners(o) THEN 1 ELSE 0)
              = Cardinality(Unpinners(o)) + (IF t \in Unpinners(o)' THEN 1 ELSE 0)
  <1>1. /\ Unpinners(o) \in SUBSET Threads /\ Unpinners(o)' \in SUBSET Threads
        /\ Unpinners(o) \ {t} = Unpinners(o)' \ {t}
    BY DEF Unpinners, OnlyThread
  <1> QED
    BY <1>1, CountStep DEF ObjectConstants

\* The same of the paths after a step.
LEMMA PinsOfPrimed ==
  ASSUME Counting, ObjectConstants, NEW o
  PROVE  Cardinality(PinsOf(o)') \in Nat
  <1>1. PinsOf(o)' \in SUBSET Paths
    BY DEF PinsOf
  <1> QED
    BY <1>1, CountStep DEF ObjectConstants

-----------------------------------------------------------------------------
(* What ObjectIInv says about a state.                                     *)

\* The types that ObjectIInv gives, in groups.
LEMMA CountTypes ==
  ASSUME ObjectIInv
  PROVE  /\ phase \in [Objects -> {"none", "live", "zero", "scheduled", "freed"}]
         /\ reference_count \in [Objects -> Nat]
         /\ handles \in [Objects -> 0 .. MaxHandles]
         /\ pinned_path_count \in [Objects -> Nat]
  BY Zenon DEF ObjectIInv, TypeOK

\* Ids, the id table, pinning entries and slots.
LEMMA TableTypes ==
  ASSUME ObjectIInv
  PROVE  /\ next_id \in Ids /\ id \in [Objects -> Ids]
         /\ entry_references \in [Objects -> Nat]
         /\ entry_object \in [Objects -> BOOLEAN]
         /\ in_table \in [Objects -> BOOLEAN]
         /\ pinned \in [Paths -> Objects \cup {None}]
         /\ slot \in [Maps -> Ids]
         /\ stored \in [Maps -> Objects \cup {None}]
         /\ locked \in [Maps -> Threads \cup {None}]
  BY Zenon DEF ObjectIInv, TypeOK

\* Program counters, local pointers and the epoch waiters.
LEMMA ThreadTypes ==
  ASSUME ObjectIInv
  PROVE  /\ pc \in [Threads -> PCs]
         /\ obj \in [Threads -> Objects \cup {None}]
         /\ map \in [Threads -> Maps \cup {None}]
         /\ waiters \in [Objects -> SUBSET Threads]
  BY Zenon DEF ObjectIInv, TypeOK

\* No step makes an object live again.
LEMMA NoRevival ==
  ASSUME ObjectIInv, [Next]_vars, NEW o \in Objects, phase'[o] = "live"
  PROVE  phase[o] \in {"none", "live"}
  <1>1. \/ UNCHANGED phase
        \/ \E t \in Threads, x \in Objects : Create(t, x)
        \/ \E t \in Threads : ReleaseReference(t) \/ Schedule(t)
        \/ \E x \in Objects : Free(x)
    <2>1. ASSUME NEW t \in Threads, ThreadStep(t)
          PROVE  UNCHANGED phase \/ ReleaseReference(t) \/ Schedule(t)
      BY <2>1, Zenon DEF ThreadStep, ReferenceByIdRead, TryAcquire, PinningTableDeleted,
         PinningTableInserted, StoreNew, DeleteClear, PointerById, ProgramEnds,
         ListRemove, ListRemoveId
    <2>2. ASSUME NEW t \in Threads,
                 \/ HandleCreate(t) \/ PinningTableInsert(t) \/ Abandon(t)
                 \/ StoreReleaseOld(t) \/ StoreRejected(t) \/ DeleteReleaseOld(t)
                 \/ \E p \in Paths : PinningTableFind(t, p) \/ PinningTableDelete(t, p)
                 \/ \E m \in Maps :
                        UpdateWithHandle(t, m) \/ DeleteEntry(t, m) \/ GetObject(t, m)
          PROVE  UNCHANGED phase
      BY <2>2, Zenon DEF HandleCreate, PinningTableInsert, Abandon, StoreReleaseOld,
         StoreRejected, DeleteReleaseOld, PinningTableFind, PinningTableDelete,
         UpdateWithHandle, DeleteEntry, GetObject
    <2>3. ASSUME NEW t \in Threads, NEW x \in Objects,
                 \/ CreateFails(t, x) \/ ReferenceByHandle(t, x)
                 \/ ReferenceById(t, x) \/ HandleClose(t, x)
          PROVE  UNCHANGED phase
      BY <2>3, Zenon DEF CreateFails, ReferenceByHandle, ReferenceById, HandleClose
    <2>4. TrackingTerminate \/ UNCHANGED vars => UNCHANGED phase
      BY Zenon DEF TrackingTerminate, vars
    <2> QED
      BY <2>1, <2>2, <2>3, <2>4, Zenon DEF Next
  <1>2. CASE UNCHANGED phase
    BY <1>2
  <1>3. CASE \E t \in Threads, x \in Objects : Create(t, x)
    <2>1. PICK x \in Objects : phase[x] = "none" /\ phase' = [phase EXCEPT ![x] = "live"]
      BY <1>3, Zenon DEF Create
    <2> QED
      BY <2>1, CountTypes
  <1>4. CASE \E t \in Threads : ReleaseReference(t) \/ Schedule(t)
    <2>1. \/ phase' = phase
          \/ \E x : \E s \in {"zero", "scheduled"} : phase' = [phase EXCEPT ![x] = s]
      BY <1>4, Zenon DEF ReleaseReference, Schedule
    <2> QED
      BY <2>1, CountTypes
  <1>5. CASE \E x \in Objects : Free(x)
    <2>1. PICK x \in Objects : phase' = [phase EXCEPT ![x] = "freed"]
      BY <1>5, Zenon DEF Free
    <2> QED
      BY <2>1, CountTypes
  <1> QED
    BY <1>1, <1>2, <1>3, <1>4, <1>5, Zenon

\* A handle, a pinned path or a thread's reference keeps the object alive.
LEMMA HeldIsLive ==
  ASSUME Counting, ObjectConstants, ObjectIInv, NEW o \in Objects
  PROVE  /\ handles[o] > 0 => phase[o] = "live"
         /\ \A p \in Paths : pinned[p] = o => phase[o] = "live"
         /\ \A t \in Threads : Share(t, o) > 0 => phase[o] = "live"
         /\ \A t \in Threads : Share(t, o) =< reference_count[o]
         /\ phase[o] = "live" <=> reference_count[o] > 0
         /\ reference_count[o] \in Nat /\ handles[o] \in Nat
  <1>1. /\ reference_count[o] =
              handles[o] + ThreadReferences(o) + Cardinality(PinsOf(o))
        /\ reference_count[o] \in Nat /\ handles[o] \in Nat
        /\ phase[o] = "live" <=> reference_count[o] > 0
    BY DEF ObjectConstants, ObjectIInv, TypeOK, ReferencesCounted, PhasesFit
  <1>2. /\ Cardinality(PinsOf(o)) \in Nat
        /\ \A p \in Paths : pinned[p] = o => Cardinality(PinsOf(o)) >= 1
    BY PinsOfType
  <1>3. \A t \in Threads :
           /\ ThreadReferences(o) \in Nat /\ Share(t, o) \in Nat
           /\ Share(t, o) =< ThreadReferences(o)
    BY ShareOf
  <1>4. ThreadReferences(o) \in Nat
    <2>1. /\ IsFiniteSet(Threads) /\ Holders(o) \in SUBSET Threads
          /\ Pinners(o) \in SUBSET Threads /\ Updaters(o) \in SUBSET Threads
      BY DEF ObjectConstants, Holders, Pinners, Updaters
    <2>2. /\ Cardinality(Holders(o)) \in Nat /\ Cardinality(Pinners(o)) \in Nat
          /\ Cardinality(Updaters(o)) \in Nat
      BY <2>1, CountStep
    <2> QED
      BY <2>2 DEF ThreadReferences
  <1> QED
    BY <1>1, <1>2, <1>3, <1>4

\* The placement of a thread, with the types of its pointers.
LEMMA PlacedType ==
  ASSUME Counting, ObjectConstants, ObjectIInv, NEW t \in Threads
  PROVE  /\ PlacedAt(t) /\ BorrowedAt(t)
         /\ obj[t] # None => obj[t] \in Objects
         /\ map[t] # None => map[t] \in Maps /\ map[t] \in Objects
         /\ pc[t] \in PCs
  BY Zenon DEF ObjectConstants, ObjectIInv, TypeOK, PointersPlaced, BorrowedReachable

\* A slot that is not in transition keeps the entry of its id in the table.
LEMMA KeeperInTable ==
  ASSUME Counting, ObjectConstants, ObjectIInv, NEW m \in Maps, slot[m] # NoId,
         ~InTransition(m)
  PROVE  /\ stored[m] \in Objects /\ slot[m] = id[stored[m]]
         /\ m \in Keepers(stored[m])
         /\ in_table[stored[m]] /\ Owner(slot[m]) = {stored[m]}
  <1>1. /\ stored[m] \in Objects /\ slot[m] = id[stored[m]]
        /\ phase[m] # "freed"
    BY DEF ObjectConstants, ObjectIInv, SlotsFit, TypeOK
  <1>2. m \in Keepers(stored[m])
    BY <1>1 DEF Keepers
  <1>3. Cardinality(Keepers(stored[m])) >= 1
    <2>1. Keepers(stored[m]) \in SUBSET Maps
      BY DEF Keepers
    <2> QED
      BY <1>2, <2>1, CountStep DEF ObjectConstants
  <1>4. Cardinality(Keepers(stored[m])) \in Nat
    <2>1. Keepers(stored[m]) \in SUBSET Maps
      BY DEF Keepers
    <2> QED
      BY <2>1, CountStep DEF ObjectConstants
  <1>5. in_table[stored[m]]
    BY <1>1, <1>3, <1>4 DEF ObjectIInv, IdReferencesCounted
  <1> QED
    BY <1>1, <1>2, <1>5, Zenon DEF ObjectIInv, IdsValid

\* The inductive invariant implies the checked one.
LEMMA InvImpliesObjectInv ==
  ASSUME Counting, ObjectConstants, ObjectIInv
  PROVE  ObjectInv
  <1>1. SlotIdReserved
    BY KeeperInTable DEF SlotIdReserved
  <1>2. NoPointerToFreed
    <2> SUFFICES ASSUME NEW t \in Threads
                 PROVE  /\ obj[t] # None /\ pc[t] \notin {"found", "peek"} =>
                              phase[obj[t]] # "freed"
                        /\ map[t] # None => phase[map[t]] # "freed"
      BY DEF NoPointerToFreed
    <2>1. ASSUME obj[t] # None, pc[t] \notin {"found", "peek"}
          PROVE  phase[obj[t]] # "freed"
      <3>1. obj[t] \in Objects /\ pc[t] \in PCs /\ PlacedAt(t) /\ BorrowedAt(t)
        BY <2>1, PlacedType
      <3>2. CASE pc[t] \in {"read", "using"}
        BY <3>1, <3>2 DEF BorrowedAt, Reachable
      <3>3. CASE pc[t] \in {"remove", "remove_id", "zero"}
        BY <3>1, <3>3, Zenon DEF ObjectIInv, PhasesFit, TornDownBy
      <3>4. CASE pc[t] \in {"opened", "referenced", "pinning", "unpinned",
                            "store", "acquire", "release"}
        <4>1. Share(t, obj[t]) > 0
          BY <3>4 DEF Share, Holders
        <4> QED
          BY <3>1, <4>1, HeldIsLive
      <3> QED
        BY <2>1, <3>1, <3>2, <3>3, <3>4, Zenon DEF PCs, PlacedAt
    <2>2. ASSUME map[t] # None
          PROVE  phase[map[t]] # "freed"
      <3>1. map[t] \in Objects /\ BorrowedAt(t)
        BY <2>2, PlacedType
      <3>2. CASE pc[t] \in {"peek", "using"}
        BY <3>1, <3>2 DEF BorrowedAt, Reachable
      <3>3. CASE pc[t] \notin {"peek", "using"}
        <4>1. Share(t, map[t]) > 0
          BY <3>3 DEF Share, Updaters
        <4> QED
          BY <3>1, <4>1, HeldIsLive
      <3> QED
        BY <3>2, <3>3
    <2> QED
      BY <2>1, <2>2
  <1> QED
    BY <1>1, <1>2 DEF ObjectIInv, ObjectInv

-----------------------------------------------------------------------------
(* Sufficient conditions for a step of thread t.                           *)

\* The count of every object changes with what is counted.
CountsFit(t) ==
    \A o \in Objects :
        reference_count'[o] + handles[o] + Share(t, o) + Cardinality(PinsOf(o))
          = reference_count[o] + handles'[o] + Share(t, o)'
              + Cardinality(PinsOf(o)')

\* A step whose counts follow the share of t keeps the reference counts exact.
LEMMA CountsKept ==
  ASSUME Counting, ObjectConstants, ObjectIInv, TypeOK', NEW t \in Threads,
         OnlyThread(t), CountsFit(t)
  PROVE  ReferencesCounted'
  <1> SUFFICES ASSUME NEW o \in Objects
               PROVE  reference_count'[o] = handles'[o] + ThreadReferences(o)'
                        + Cardinality(PinsOf(o)')
    BY DEF ReferencesCounted
  <1>1. /\ reference_count[o] \in Nat /\ reference_count'[o] \in Nat
        /\ handles[o] \in Nat /\ handles'[o] \in Nat
        /\ reference_count[o] =
              handles[o] + ThreadReferences(o) + Cardinality(PinsOf(o))
    BY DEF ObjectIInv, TypeOK, ReferencesCounted, ObjectConstants
  <1>2. Cardinality(PinsOf(o)) \in Nat /\ Cardinality(PinsOf(o)') \in Nat
    BY PinsOfType, PinsOfPrimed
  <1>3. reference_count'[o] + handles[o] + Share(t, o) + Cardinality(PinsOf(o))
          = reference_count[o] + handles'[o] + Share(t, o)'
              + Cardinality(PinsOf(o)')
    BY DEF CountsFit
  <1>4. /\ ThreadReferences(o) \in Nat /\ ThreadReferences(o)' \in Nat
        /\ Share(t, o) \in Nat /\ Share(t, o)' \in Nat
        /\ ThreadReferences(o)' + Share(t, o)
               = ThreadReferences(o) + Share(t, o)'
    BY ShareStep
  <1> QED
    BY <1>1, <1>2, <1>3, <1>4, Z3

\* What the step does to pinned_path_count matches the entries and the unpinning
\* threads.
PathsFit(t) ==
    \A o \in Objects :
        pinned_path_count'[o] + Cardinality(PinsOf(o))
            + (IF t \in Unpinners(o) THEN 1 ELSE 0)
          = pinned_path_count[o] + Cardinality(PinsOf(o)')
              + (IF t \in Unpinners(o)' THEN 1 ELSE 0)

\* The same for pinned_path_count.
LEMMA PathsKept ==
  ASSUME Counting, ObjectConstants, ObjectIInv, TypeOK', NEW t \in Threads,
         OnlyThread(t), PathsFit(t)
  PROVE  PinnedPathsCounted'
  <1> SUFFICES ASSUME NEW o \in Objects
               PROVE  pinned_path_count'[o] =
                        Cardinality(PinsOf(o)') + Cardinality(Unpinners(o)')
    BY DEF PinnedPathsCounted
  <1>1. /\ pinned_path_count[o] \in Nat /\ pinned_path_count'[o] \in Nat
        /\ pinned_path_count[o] =
              Cardinality(PinsOf(o)) + Cardinality(Unpinners(o))
    BY Zenon DEF ObjectIInv, TypeOK, PinnedPathsCounted
  <1>2. Cardinality(PinsOf(o)) \in Nat /\ Cardinality(PinsOf(o)') \in Nat
    BY PinsOfType, PinsOfPrimed
  <1> QED
    BY <1>1, <1>2, UnpinnersStep DEF PathsFit

\* Neither before nor after the step does t take an object apart or change a slot.
Tearing == {"remove", "remove_id", "zero"}
\* t is neither taking an object apart nor between an id reference and its slot.
Aside(t) == pc[t] \notin Tearing \cup {"acquire", "clear"}

\* A step away from the id table and the slots keeps the table exact.
LEMMA IdsKept ==
  ASSUME Counting, ObjectConstants, ObjectIInv, NEW t \in Threads, OnlyThread(t),
         UNCHANGED <<phase, id, entry_references, entry_object, in_table, slot,
                     stored>>,
         Aside(t), Aside(t)'
  PROVE  /\ IdReferencesCounted' /\ IdsValid' /\ SlotsFit'
         /\ \A o \in Objects : TornDownBy(o)' = TornDownBy(o)
  <1>1. \A m \in Maps : InTransition(m)' <=> InTransition(m)
    BY DEF InTransition, OnlyThread, Aside
  <1>2. \A o \in Objects : HoldsOwnId(o)' <=> HoldsOwnId(o)
    BY DEF HoldsOwnId, OnlyThread, Aside, Tearing
  <1>3. \A o \in Objects : Keepers(o)' = Keepers(o)
    BY <1>1 DEF Keepers
  <1>4. IdReferencesCounted'
    BY <1>2, <1>3, Zenon DEF ObjectIInv, IdReferencesCounted
  <1>5. IdsValid' /\ SlotsFit'
    BY Zenon DEF ObjectIInv, IdsValid, SlotsFit, Owner
  <1>6. \A o \in Objects : TornDownBy(o)' = TornDownBy(o)
    BY DEF TornDownBy, OnlyThread, Aside, Tearing
  <1> QED
    BY <1>4, <1>5, <1>6

\* The pointers of the other threads stay where they are.
LEMMA PlacedKept ==
  ASSUME Counting, ObjectConstants, ObjectIInv, NEW t \in Threads, OnlyThread(t),
         PlacedAt(t)',
         \A m \in Maps : \A q \in Threads : q # t =>
             (locked'[m] = q <=> locked[m] = q)
  PROVE  PointersPlaced'
  <1>1. ASSUME NEW q \in Threads, q # t
        PROVE  PlacedAt(q)'
    <2>1. PlacedAt(q) /\ obj'[q] = obj[q] /\ pc'[q] = pc[q] /\ map'[q] = map[q]
      BY <1>1, PlacedType DEF OnlyThread
    <2> QED
      BY <1>1, <2>1 DEF PlacedAt
  <1> QED
    BY <1>1 DEF PointersPlaced

\* No object becomes unreachable for a thread that is still in its epoch.
StaysReachable(t) ==
    \A o \in Objects : \A q \in Threads :
        q # t /\ pc[q] # "idle" /\ Reachable(q, o) => Reachable(q, o)'

\* A step that leaves to the other threads what they can reach keeps every
\* borrowed pointer reachable.
LEMMA BorrowedKept ==
  ASSUME Counting, ObjectConstants, ObjectIInv, NEW t \in Threads, OnlyThread(t),
         BorrowedAt(t)', StaysReachable(t)
  PROVE  BorrowedReachable'
  <1>1. ASSUME NEW q \in Threads, q # t
        PROVE  BorrowedAt(q)'
    <2>1. /\ PlacedAt(q) /\ BorrowedAt(q)
          /\ obj'[q] = obj[q] /\ pc'[q] = pc[q] /\ map'[q] = map[q]
          /\ obj[q] # None => obj[q] \in Objects
          /\ map[q] # None => map[q] \in Objects
      BY <1>1, PlacedType DEF OnlyThread
    <2>2. ASSUME pc[q] \in {"read", "using"}
          PROVE  Reachable(q, obj[q])'
      <3>1. obj[q] \in Objects /\ Reachable(q, obj[q])
        BY <2>1, <2>2, Zenon DEF PlacedAt, BorrowedAt
      <3>2. \A o \in Objects : Reachable(q, o) => Reachable(q, o)'
        BY <1>1, <2>2 DEF StaysReachable
      <3> QED
        BY <2>1, <3>1, <3>2, Zenon DEF Reachable
    <2>3. ASSUME pc[q] \in {"peek", "using"}
          PROVE  Reachable(q, map[q])'
      <3>1. map[q] \in Objects /\ Reachable(q, map[q])
        BY <2>1, <2>3, Zenon DEF PlacedAt, BorrowedAt
      <3>2. \A o \in Objects : Reachable(q, o) => Reachable(q, o)'
        BY <1>1, <2>3 DEF StaysReachable
      <3> QED
        BY <2>1, <3>1, <3>2, Zenon DEF Reachable
    <2> QED
      BY <2>1, <2>2, <2>3, Zenon DEF BorrowedAt
  <1> QED
    BY <1>1 DEF BorrowedReachable

\* A step of t that only moves its pointers and changes counts.
LEMMA LocalStep ==
  ASSUME Counting, ObjectConstants, ObjectIInv, TypeOK', NEW t \in Threads, OnlyThread(t),
         UNCHANGED <<phase, id, entry_references, entry_object, in_table, slot,
                     stored>>,
         next_id' \notin {NoId, IdMax}, Aside(t), Aside(t)',
         CountsFit(t), PathsFit(t), PlacedAt(t)', BorrowedAt(t)',
         \A o \in Objects : reference_count'[o] > 0 <=> reference_count[o] > 0,
         \A o \in Objects : waiters[o] \subseteq waiters'[o] \cup {t},
         \A m \in Maps : \A q \in Threads : q # t =>
             (locked'[m] = q <=> locked[m] = q)
  PROVE  ObjectIInv'
  <1>1. /\ IdReferencesCounted' /\ IdsValid' /\ SlotsFit'
        /\ \A o \in Objects : TornDownBy(o)' = TornDownBy(o)
    BY IdsKept, Zenon
  <1>2. ReferencesCounted' /\ PinnedPathsCounted'
    BY CountsKept, PathsKept, Zenon
  <1>3. PointersPlaced'
    BY PlacedKept
  <1>4. BorrowedReachable'
    <2>1. StaysReachable(t)
      BY DEF StaysReachable, Reachable
    <2> QED
      BY <2>1, BorrowedKept, Zenon
  <1>5. PhasesFit'
    <2> SUFFICES ASSUME NEW o \in Objects
                 PROVE  /\ phase[o] = "live" <=> reference_count'[o] > 0
                        /\ phase[o] = "zero" <=> TornDownBy(o)' # {}
                        /\ \A q, s \in TornDownBy(o)' : q = s
                        /\ entry_object[o] =>
                              \/ phase[o] = "live"
                              \/ \E s \in TornDownBy(o)' : pc'[s] = "remove"
                        /\ phase[o] = "none" => \A m \in Maps : stored[m] # o
      BY Zenon DEF PhasesFit
    <2>1. /\ phase[o] = "live" <=> reference_count[o] > 0
          /\ phase[o] = "zero" <=> TornDownBy(o) # {}
          /\ \A q, s \in TornDownBy(o) : q = s
          /\ entry_object[o] => \/ phase[o] = "live"
                                \/ \E s \in TornDownBy(o) : pc[s] = "remove"
          /\ phase[o] = "none" => \A m \in Maps : stored[m] # o
      BY Zenon DEF ObjectIInv, PhasesFit
    <2>2. \A s \in TornDownBy(o) : pc'[s] = pc[s]
      BY DEF TornDownBy, OnlyThread, Aside, Tearing
    <2> QED
      BY <1>1, <2>1, <2>2
  <1> QED
    BY <1>1, <1>2, <1>3, <1>4, <1>5, Zenon DEF ObjectIInv

-----------------------------------------------------------------------------
(* One lemma per action or group of actions.                               *)

\* With the pinning table left alone.
LEMMA SamePins ==
  ASSUME Counting, ObjectConstants, ObjectIInv, TypeOK', NEW t \in Threads,
         UNCHANGED pins, pc[t] # "unpinned", pc'[t] # "unpinned",
         \A o \in Objects : reference_count'[o] + handles[o] + Share(t, o)
                              = reference_count[o] + handles'[o] + Share(t, o)'
  PROVE  CountsFit(t) /\ PathsFit(t)
  <1>1. \A o \in Objects : PinsOf(o)' = PinsOf(o)
    BY DEF PinsOf, pins
  <1>2. CountsFit(t)
    <2> SUFFICES ASSUME NEW o \in Objects
                 PROVE  reference_count'[o] + handles[o] + Share(t, o)
                            + Cardinality(PinsOf(o))
                          = reference_count[o] + handles'[o] + Share(t, o)'
                              + Cardinality(PinsOf(o))
      BY <1>1 DEF CountsFit
    <2> QED
      OBVIOUS
  <1>3. PathsFit(t)
    BY <1>1 DEF PathsFit, pins, Unpinners
  <1> QED
    BY <1>2, <1>3

\* The share of a thread that is idle, and of one with a reference on o only.
LEMMA IdleShare ==
  ASSUME Counting, ObjectConstants, ObjectIInv, NEW t \in Threads, pc[t] = "idle"
  PROVE  /\ obj[t] = None /\ map[t] = None /\ Aside(t)
         /\ \A o \in Objects : Share(t, o) = 0
         /\ \A m \in Maps : locked[m] # t
  <1>1. PlacedAt(t)
    BY PlacedType
  <1>2. obj[t] = None /\ map[t] = None /\ \A m \in Maps : locked[m] # t
    BY <1>1 DEF PlacedAt, ObjectConstants
  <1> QED
    BY <1>2 DEF Share, Holders, Pinners, Updaters, ObjectConstants, Aside,
       Tearing

\* A step that changes only counts, handles and the pointers of t.
LEMMA UnlockedStep ==
  ASSUME Counting, ObjectConstants, ObjectIInv, TypeOK', NEW t \in Threads, OnlyThread(t),
         UNCHANGED <<phase, entries, pins, slots>>, Aside(t), Aside(t)',
         pc[t] # "unpinned", pc'[t] # "unpinned", PlacedAt(t)', BorrowedAt(t)',
         \A o \in Objects : reference_count'[o] + handles[o] + Share(t, o)
                              = reference_count[o] + handles'[o] + Share(t, o)',
         \A o \in Objects : reference_count'[o] > 0 <=> reference_count[o] > 0,
         \A o \in Objects : waiters[o] \subseteq waiters'[o] \cup {t}
  PROVE  ObjectIInv'
  <1>1. /\ CountsFit(t) /\ PathsFit(t)
        /\ UNCHANGED <<id, entry_references, entry_object, in_table, slot, stored>>
        /\ next_id' \notin {NoId, IdMax} /\ locked' = locked
    BY SamePins, Zenon DEF entries, slots, ObjectIInv
  <1> QED
    BY <1>1, LocalStep, Zenon

-----------------------------------------------------------------------------
(* The pinning table.                                                      *)

\* A step of t that may change path p and moves no other pointer.
LEMMA PinningStep ==
  ASSUME Counting, ObjectConstants, ObjectIInv, TypeOK', NEW t \in Threads, OnlyThread(t),
         UNCHANGED <<phase, handles, entries, slots, waiters>>,
         Aside(t), Aside(t)', PlacedAt(t)', BorrowedAt(t)',
         CountsFit(t), PathsFit(t),
         \A o \in Objects : reference_count'[o] > 0 <=> reference_count[o] > 0
  PROVE  ObjectIInv'
  <1>1. /\ UNCHANGED <<id, entry_references, entry_object, in_table, slot, stored>>
        /\ next_id' \notin {NoId, IdMax} /\ locked' = locked
    BY Zenon DEF entries, slots, ObjectIInv
  <1> QED
    BY <1>1, LocalStep, Zenon

\* The entry is inserted, or the path is taken and the reference for it dropped
\* (ebpf_pinning_table_insert).
LEMMA PinningTableInsertedInv ==
  ASSUME Counting, ObjectConstants, ObjectIInv, NEW t \in Threads, NEW p \in Paths,
         PinningTableInserted(t, p)
  PROVE  ObjectIInv'
  <1>1. PICK o \in Objects : o = obj[t]
    BY PlacedType, Zenon DEF PinningTableInserted, PlacedAt
  <1>2. /\ pc[t] = "pinning" /\ pc' = [pc EXCEPT ![t] = "release"]
        /\ UNCHANGED <<phase, handles, entries, slots, obj, map, waiters>>
        /\ map[t] = None /\ PlacedAt(t)
    BY PlacedType, Zenon DEF PinningTableInserted, Goto, PlacedAt
  <1>3. /\ \A x \in Objects : x # o => Share(t, x) = 0 /\ Share(t, x)' = 0
        /\ Share(t, o) = 2 /\ Share(t, o)' = 1
        /\ pc'[t] = "release" /\ pc' \in [Threads -> PCs] /\ OnlyThread(t)
    <2>1. pc'[t] = "release" /\ pc' \in [Threads -> PCs] /\ OnlyThread(t)
      BY <1>2, Zenon DEF ObjectIInv, TypeOK, PCs, OnlyThread
    <2> QED
      BY <1>1, <1>2, <2>1
      DEF Share, Holders, Pinners, Updaters, ObjectConstants
  <1>4. /\ reference_count \in [Objects -> Nat] /\ reference_count[o] \in Nat
        /\ reference_count[o] >= 2 /\ \A x \in Objects : handles[x] \in Nat
        /\ pinned_path_count \in [Objects -> Nat] /\ pinned_path_count[o] \in Nat
        /\ pinned \in [Paths -> Objects \cup {None}] /\ o # None
    BY <1>3, HeldIsLive, TableTypes, CountTypes DEF ObjectConstants
  <1>5. /\ PlacedAt(t)' /\ BorrowedAt(t)' /\ Aside(t) /\ Aside(t)'
        /\ \A x \in Objects : t \notin Unpinners(x) /\ t \notin Unpinners(x)'
    BY <1>1, <1>2, <1>3, Zenon DEF PlacedAt, BorrowedAt, Aside, Tearing, slots, Unpinners
  <1>6. CASE pinned[p] = None
    <2>1. /\ pinned' = [pinned EXCEPT ![p] = o]
          /\ pinned_path_count' = [pinned_path_count EXCEPT ![o] = @ + 1]
          /\ reference_count' = reference_count
      BY <1>1, <1>6, Zenon DEF PinningTableInserted
    <2>2. /\ pinned' \in [Paths -> Objects \cup {None}] /\ pinned'[p] = o
          /\ \A q \in Paths : q # p => pinned'[q] = pinned[q]
          /\ pinned_path_count' \in [Objects -> Nat]
          /\ pinned_path_count'[o] = pinned_path_count[o] + 1
          /\ \A x \in Objects : x # o => pinned_path_count'[x] = pinned_path_count[x]
      BY <1>4, <2>1
    <2>3. TypeOK'
      BY <1>2, <1>3, <2>1, <2>2, Zenon DEF ObjectIInv, TypeOK, entries, slots
    <2>4. \A x \in Objects :
              /\ Cardinality(PinsOf(x)) \in Nat /\ Cardinality(PinsOf(x)') \in Nat
              /\ x # o => Cardinality(PinsOf(x)') = Cardinality(PinsOf(x))
              /\ x = o => Cardinality(PinsOf(x)') = Cardinality(PinsOf(x)) + 1
      BY <1>4, <1>6, <2>2, PinsStep DEF ObjectConstants
    <2>5. CountsFit(t)
      BY <1>2, <1>3, <1>4, <2>1, <2>4, Z3 DEF CountsFit
    <2>6. PathsFit(t)
      BY <1>4, <1>5, <2>2, <2>4, Z3 DEF PathsFit
    <2> QED
      BY <1>2, <1>3, <1>5, <2>1, <2>3, <2>5, <2>6, PinningStep, Zenon
  <1>7. CASE pinned[p] # None
    <2>1. /\ reference_count' = [reference_count EXCEPT ![o] = @ - 1]
          /\ UNCHANGED pins
      BY <1>1, <1>7, Zenon DEF PinningTableInserted
    <2>2. /\ reference_count' \in [Objects -> Nat]
          /\ reference_count'[o] = reference_count[o] - 1
          /\ \A x \in Objects : x # o => reference_count'[x] = reference_count[x]
      BY <1>4, <2>1
    <2>3. TypeOK'
      BY <1>2, <1>3, <2>1, <2>2, Zenon DEF ObjectIInv, TypeOK, entries, slots, pins
    <2>4. \A x \in Objects : reference_count'[x] + handles[x] + Share(t, x)
                               = reference_count[x] + handles'[x] + Share(t, x)'
      BY <1>2, <1>3, <1>4, <2>2, Z3
    <2>5. CountsFit(t) /\ PathsFit(t)
      BY <1>2, <1>3, <2>1, <2>3, <2>4, SamePins, Zenon
    <2>6. \A x \in Objects : reference_count'[x] > 0 <=> reference_count[x] > 0
      BY <1>4, <2>2
    <2> QED
      BY <1>2, <1>3, <1>5, <2>3, <2>5, <2>6, PinningStep, Zenon
  <1> QED
    BY <1>6, <1>7

\* The entry leaves the table (ebpf_pinning_table_delete).
LEMMA PinningTableDeleteInv ==
  ASSUME Counting, ObjectConstants, ObjectIInv, NEW t \in Threads, NEW p \in Paths,
         PinningTableDelete(t, p)
  PROVE  ObjectIInv'
  <1>1. PICK o \in Objects : o = pinned[p]
    BY Zenon DEF PinningTableDelete, ObjectIInv, TypeOK
  <1>2. /\ pc[t] = "idle" /\ pc' = [pc EXCEPT ![t] = "unpinned"]
        /\ obj' = [obj EXCEPT ![t] = o] /\ pinned' = [pinned EXCEPT ![p] = None]
        /\ UNCHANGED <<phase, counts, entries, pinned_path_count, slots, map, waiters>>
    BY <1>1 DEF PinningTableDelete, Goto
  <1>3. /\ pc' \in [Threads -> PCs] /\ obj' \in [Threads -> Objects \cup {None}]
        /\ pinned' \in [Paths -> Objects \cup {None}] /\ OnlyThread(t)
        /\ pc'[t] = "unpinned" /\ obj'[t] = o /\ pinned'[p] = None /\ o # None
        /\ \A q \in Paths : q # p => pinned'[q] = pinned[q]
    BY <1>2, Zenon DEF ObjectIInv, TypeOK, PCs, OnlyThread, ObjectConstants
  <1>4. TypeOK'
    BY <1>2, <1>3, Zenon DEF ObjectIInv, TypeOK, counts, entries, slots
  <1>5. /\ \A x \in Objects : Share(t, x) = 0 /\ map[t] = None
        /\ \A m \in Maps : locked[m] # t
    BY <1>2, IdleShare, Zenon
  <1>6. /\ \A x \in Objects : x # o => Share(t, x)' = 0
        /\ Share(t, o)' = 1
        /\ \A x \in Objects : t \notin Unpinners(x)
        /\ \A x \in Objects : t \in Unpinners(x)' <=> x = o
        /\ PlacedAt(t)' /\ BorrowedAt(t)' /\ Aside(t) /\ Aside(t)'
    <2>1. map'[t] = None
      BY <1>2, <1>5, Zenon
    <2>2. Share(t, o)' = 1 /\ \A x \in Objects : x # o => Share(t, x)' = 0
      BY <1>3, <2>1 DEF Share, Holders, Pinners, Updaters, ObjectConstants
    <2>3. /\ \A x \in Objects : t \notin Unpinners(x)
          /\ \A x \in Objects : t \in Unpinners(x)' <=> x = o
      BY <1>2, <1>3, Zenon DEF Unpinners
    <2>4. PlacedAt(t)' /\ BorrowedAt(t)' /\ Aside(t) /\ Aside(t)'
      BY <1>2, <1>3, <1>5 DEF PlacedAt, BorrowedAt, Aside, Tearing, slots, ObjectConstants
    <2> QED
      BY <2>2, <2>3, <2>4, Zenon
  <1>7. \A x \in Objects :
            /\ Cardinality(PinsOf(x)) \in Nat /\ Cardinality(PinsOf(x)') \in Nat
            /\ x # o => Cardinality(PinsOf(x)') = Cardinality(PinsOf(x))
            /\ x = o => Cardinality(PinsOf(x)') + 1 = Cardinality(PinsOf(x))
    BY <1>1, <1>3, PinsStep DEF ObjectConstants
  <1>8. \A x \in Objects : /\ reference_count[x] \in Nat /\ handles[x] \in Nat
                           /\ pinned_path_count[x] \in Nat
    BY HeldIsLive, Zenon DEF ObjectIInv, TypeOK
  <1>9. CountsFit(t) /\ PathsFit(t)
    <2>1. CountsFit(t)
      BY <1>2, <1>5, <1>6, <1>7, <1>8, Z3 DEF CountsFit, counts
    <2>2. PathsFit(t)
      BY <1>2, <1>6, <1>7, <1>8, Z3 DEF PathsFit
    <2> QED
      BY <2>1, <2>2, Zenon
  <1> QED
    BY <1>2, <1>3, <1>4, <1>6, <1>9, PinningStep, Zenon DEF counts

\* Afterwards, outside the table's lock, the pinned path is counted down.
LEMMA PinningTableDeletedInv ==
  ASSUME Counting, ObjectConstants, ObjectIInv, NEW t \in Threads, PinningTableDeleted(t)
  PROVE  ObjectIInv'
  <1>1. PICK o \in Objects : o = obj[t]
    BY PlacedType, Zenon DEF PinningTableDeleted, PlacedAt
  <1>2. /\ pc[t] = "unpinned" /\ pc' = [pc EXCEPT ![t] = "release"]
        /\ pinned_path_count' = [pinned_path_count EXCEPT ![o] = @ - 1]
        /\ UNCHANGED <<phase, counts, entries, pinned, slots, obj, map, waiters>>
        /\ map[t] = None /\ PlacedAt(t)
    BY <1>1, PlacedType, Zenon DEF PinningTableDeleted, Goto, PlacedAt
  <1>3. pc'[t] = "release" /\ pc' \in [Threads -> PCs] /\ OnlyThread(t)
    BY <1>2, ThreadTypes, Zenon DEF PCs, OnlyThread
  <1>4. /\ \A x \in Objects : Share(t, x)' = Share(t, x) /\ Share(t, x) \in Nat
        /\ \A x \in Objects : t \in Unpinners(x) <=> x = o
        /\ \A x \in Objects : t \notin Unpinners(x)'
        /\ PlacedAt(t)' /\ BorrowedAt(t)' /\ Aside(t) /\ Aside(t)'
    <2>1. /\ pc[t] = "unpinned" /\ pc'[t] = "release"
          /\ obj'[t] = obj[t] /\ map[t] = None /\ map'[t] = None
      BY <1>2, <1>3, Zenon
    <2>2. \A x \in Objects : Share(t, x)' = Share(t, x) /\ Share(t, x) \in Nat
      BY <2>1 DEF Share, Holders, Pinners, Updaters, ObjectConstants
    <2>3. /\ \A x \in Objects : t \in Unpinners(x) <=> x = o
          /\ \A x \in Objects : t \notin Unpinners(x)'
      BY <1>1, <1>2, <1>3, Zenon DEF Unpinners
    <2>4. PlacedAt(t)' /\ BorrowedAt(t)' /\ Aside(t) /\ Aside(t)'
      BY <1>1, <1>2, <1>3, Zenon DEF PlacedAt, BorrowedAt, Aside, Tearing, slots
    <2> QED
      BY <2>2, <2>3, <2>4, Zenon
  <1>5. \A x \in Objects : PinsOf(x)' = PinsOf(x) /\ Cardinality(PinsOf(x)) \in Nat
    BY <1>2, PinsOfType, Zenon DEF PinsOf
  <1>6. /\ pinned_path_count' \in [Objects -> Nat]
        /\ pinned_path_count'[o] = pinned_path_count[o] - 1
        /\ \A x \in Objects : x # o => pinned_path_count'[x] = pinned_path_count[x]
        /\ \A x \in Objects : pinned_path_count[x] \in Nat
    <2>1. /\ Cardinality(Unpinners(o)) \in Nat /\ Cardinality(Unpinners(o)) >= 1
          /\ Cardinality(PinsOf(o)) \in Nat
      BY <1>3, <1>4, <1>5, UnpinnersStep, Zenon
    <2>2. /\ pinned_path_count[o] = Cardinality(PinsOf(o)) + Cardinality(Unpinners(o))
          /\ pinned_path_count \in [Objects -> Nat]
      BY Zenon DEF ObjectIInv, PinnedPathsCounted, TypeOK
    <2>3. pinned_path_count[o] >= 1 /\ pinned_path_count[o] \in Nat
      BY <2>1, <2>2, Z3
    <2> QED
      BY <1>2, <2>2, <2>3
  <1>7. TypeOK'
    BY <1>2, <1>3, <1>6, Zenon DEF ObjectIInv, TypeOK, counts, entries, slots
  <1>8. CountsFit(t)
    BY <1>2, <1>4, <1>5, Zenon DEF CountsFit, counts
  <1>9. PathsFit(t)
    BY <1>4, <1>5, <1>6, Z3 DEF PathsFit
  <1> QED
    BY <1>2, <1>3, <1>4, <1>7, <1>8, <1>9, PinningStep, Zenon DEF counts

-----------------------------------------------------------------------------
(* Lookups, handles and references.                                        *)

\* A step from idle that takes no reference, or one on o alone.
LEMMA StartInv ==
  ASSUME Counting, ObjectConstants, ObjectIInv, NEW t \in Threads, NEW o \in Objects,
         \/ ReferenceByHandle(t, o) \/ ReferenceById(t, o) \/ HandleClose(t, o)
         \/ \E p \in Paths : PinningTableFind(t, p) /\ o = pinned[p]
  PROVE  ObjectIInv'
  <1> DEFINE to == pc'[t]
             counted == IF to = "found" THEN 0 ELSE 1
  <1>0. pc[t] = "idle" /\ phase' = phase /\ map' = map /\ waiters' = waiters
        /\ UNCHANGED <<entries, pins, slots>> /\ obj' = [obj EXCEPT ![t] = o]
    BY Zenon DEF ReferenceByHandle, ReferenceById, HandleClose, PinningTableFind
  <1>1. /\ pc' \in [Threads -> PCs] /\ \A q \in Threads : q # t => pc'[q] = pc[q]
        /\ to \in {"referenced", "found", "release", "opened"}
    BY ThreadTypes DEF ReferenceByHandle, ReferenceById, HandleClose,
       PinningTableFind, Goto, PCs
  <1>2. /\ reference_count' \in [Objects -> Nat]
        /\ handles' \in [Objects -> 0 .. MaxHandles]
        /\ \A x \in Objects : x # o => reference_count'[x] = reference_count[x]
                                      /\ handles'[x] = handles[x]
        /\ reference_count'[o] + handles[o] = reference_count[o] + handles'[o] + counted
        /\ \/ reference_count'[o] = reference_count[o]
           \/ reference_count'[o] = reference_count[o] + 1 /\ phase[o] = "live"
    <2>0. /\ reference_count[o] \in Nat /\ handles[o] \in 0 .. MaxHandles
          /\ reference_count \in [Objects -> Nat]
          /\ handles \in [Objects -> 0 .. MaxHandles] /\ MaxHandles \in Nat
          /\ pc \in [Threads -> PCs]
      BY Zenon DEF ObjectIInv, TypeOK, ObjectConstants
    <2>1. CASE ReferenceByHandle(t, o)
      <3>1. /\ reference_count' = [reference_count EXCEPT ![o] = @ + 1]
            /\ handles' = handles /\ to = "referenced" /\ handles[o] > 0
        BY <2>0, <2>1, Zenon DEF ReferenceByHandle, Acquire, Goto
      <3> QED
        BY <2>0, <3>1, HeldIsLive, Z3
    <2>2. CASE ReferenceById(t, o)
      <3>1. reference_count' = reference_count /\ handles' = handles /\ to = "found"
        BY <2>0, <2>2, Zenon DEF ReferenceById, Goto, counts
      <3> QED
        BY <2>0, <3>1, Z3
    <2>3. CASE HandleClose(t, o)
      <3>1. /\ handles' = [handles EXCEPT ![o] = @ - 1] /\ handles[o] > 0
            /\ reference_count' = reference_count /\ to = "release"
        BY <2>0, <2>3, Zenon DEF HandleClose, Goto
      <3> QED
        BY <2>0, <3>1, Z3
    <2>4. CASE \E p \in Paths : PinningTableFind(t, p) /\ o = pinned[p]
      <3>1. /\ reference_count' = [reference_count EXCEPT ![o] = @ + 1]
            /\ handles' = handles /\ to = "opened" /\ \E p \in Paths : pinned[p] = o
        BY <2>0, <2>4, Zenon DEF PinningTableFind, Acquire, Goto
      <3> QED
        BY <2>0, <3>1, HeldIsLive, Z3
    <2> QED
      BY <2>1, <2>2, <2>3, <2>4, Zenon
  <1>3. TypeOK'
    BY <1>0, <1>1, <1>2, Zenon DEF ObjectIInv, TypeOK, entries, pins, slots
  <1>4. /\ OnlyThread(t) /\ obj'[t] = o /\ map'[t] = None
        /\ \A x \in Objects : Share(t, x) = 0
        /\ \A m \in Maps : locked[m] # t
    BY <1>0, <1>1, IdleShare, ThreadTypes, Zenon DEF OnlyThread
  <1>5. \A x \in Objects : Share(t, x)' = IF x = o THEN counted ELSE 0
    BY <1>1, <1>4 DEF Share, Holders, Pinners, Updaters, ObjectConstants
  <1> HIDE DEF counted
  <1>6. PlacedAt(t)' /\ BorrowedAt(t)' /\ Aside(t) /\ Aside(t)'
    BY <1>0, <1>1, <1>4, Zenon
    DEF PlacedAt, BorrowedAt, Aside, Tearing, slots, ObjectConstants
  <1>7. \A x \in Objects : reference_count'[x] > 0 <=> reference_count[x] > 0
    BY <1>2, HeldIsLive
  <1>8. \A x \in Objects : reference_count'[x] + handles[x] + Share(t, x)
                             = reference_count[x] + handles'[x] + Share(t, x)'
    BY <1>2, <1>3, <1>4, <1>5, CountTypes, Z3
  <1> QED
    BY <1>0, <1>1, <1>3, <1>4, <1>6, <1>7, <1>8, UnlockedStep, Zenon

\* A thread without references leaves its epoch.
LEMMA LeaveInv ==
  ASSUME Counting, ObjectConstants, ObjectIInv, NEW t \in Threads,
         pc[t] \in {"found", "read", "peek", "using"}, Leave(t),
         UNCHANGED <<phase, counts, entries, pins, slots>>
  PROVE  ObjectIInv'
  <1>1. /\ pc' \in [Threads -> PCs] /\ obj' \in [Threads -> Objects \cup {None}]
        /\ map' \in [Threads -> Maps \cup {None}]
        /\ waiters' \in [Objects -> SUBSET Threads]
        /\ pc'[t] = "idle" /\ obj'[t] = None /\ map'[t] = None /\ OnlyThread(t)
        /\ \A o \in Objects : waiters[o] \subseteq waiters'[o] \cup {t}
    BY Zenon DEF Leave, Goto, ObjectIInv, TypeOK, PCs, OnlyThread
  <1>2. TypeOK'
    BY <1>1, Zenon DEF ObjectIInv, TypeOK, counts, entries, pins, slots
  <1>3. \A o \in Objects : Share(t, o) = 0 /\ Share(t, o)' = 0
    <2>1. map[t] = None \/ pc[t] \in {"peek", "using"}
      BY PlacedType, Zenon DEF PlacedAt
    <2> QED
      BY <1>1, <2>1 DEF Share, Holders, Pinners, Updaters, ObjectConstants
  <1>4. \A m \in Maps : locked[m] # t
    BY PlacedType DEF PlacedAt, ObjectConstants
  <1>5. PlacedAt(t)' /\ BorrowedAt(t)' /\ Aside(t) /\ Aside(t)'
    BY <1>1, <1>4
    DEF PlacedAt, BorrowedAt, Aside, Tearing, slots, ObjectConstants
  <1>6. \A o \in Objects : reference_count'[o] + handles[o] + Share(t, o)
                             = reference_count[o] + handles'[o] + Share(t, o)'
    BY <1>3 DEF counts
  <1> QED
    BY <1>1, <1>2, <1>5, <1>6, UnlockedStep, Zenon DEF counts

\* The references a thread without a map holds on its object.
Weight(p) ==
    IF p = "pinning" THEN 2
    ELSE IF p \in {"opened", "referenced", "release"} THEN 1 ELSE 0

\* A thread goes on with the object it has found, read or referenced.
LEMMA MoveInv ==
  ASSUME Counting, ObjectConstants, ObjectIInv, NEW t \in Threads,
         UNCHANGED <<phase, entries, pins, slots, obj, map, waiters>>,
         \/ ReferenceByIdRead(t) \/ TryAcquire(t) \/ PointerById(t)
         \/ HandleCreate(t) \/ Abandon(t) \/ PinningTableInsert(t)
  PROVE  ObjectIInv'
  <1>0. PICK o : o = obj[t]
    OBVIOUS
  <1>1. /\ pc[t] \in {"found", "read", "peek", "opened", "referenced"}
        /\ o \in Objects /\ PlacedAt(t) /\ BorrowedAt(t)
    <2>1. pc[t] \in {"found", "read", "peek", "opened", "referenced"}
      BY Zenon DEF ReferenceByIdRead, TryAcquire, PointerById, HandleCreate, Abandon,
         PinningTableInsert
    <2> QED
      BY <1>0, <2>1, PlacedType, Zenon DEF PlacedAt
  <1>2. /\ \/ pc[t] = "found" /\ pc'[t] = "read" /\ entry_object[o]
           \/ pc[t] = "peek" /\ pc'[t] = "using" /\ entry_object[o]
           \/ pc[t] = "read" /\ pc'[t] = "opened"
           \/ pc[t] \in {"opened", "referenced"} /\ pc'[t] \in {"release", "pinning"}
        /\ pc' = [pc EXCEPT ![t] = pc'[t]]
    <2>1. pc \in [Threads -> PCs] /\ obj' = obj /\ obj[t] # None
      BY <1>0, <1>1, Zenon DEF ObjectIInv, TypeOK, ObjectConstants
    <2>2. ~Leave(t)
      BY <2>1, ThreadTypes DEF Leave
    <2> QED
      BY <1>0, <2>1, <2>2, Zenon DEF ReferenceByIdRead, TryAcquire, PointerById, HandleCreate,
         Abandon, PinningTableInsert, Goto
  <1>3. /\ reference_count' \in [Objects -> Nat]
        /\ handles' \in [Objects -> 0 .. MaxHandles]
        /\ \A x \in Objects : x # o => reference_count'[x] = reference_count[x]
                                      /\ handles'[x] = handles[x]
        /\ reference_count'[o] + handles[o] + Weight(pc[t])
              = reference_count[o] + handles'[o] + Weight(pc'[t])
        /\ \/ reference_count'[o] = reference_count[o]
           \/ reference_count'[o] = reference_count[o] + 1 /\ reference_count[o] > 0
    <2>0. /\ reference_count \in [Objects -> Nat] /\ reference_count[o] \in Nat
          /\ handles \in [Objects -> 0 .. MaxHandles] /\ MaxHandles \in Nat
          /\ handles[o] \in 0 .. MaxHandles /\ pc \in [Threads -> PCs]
          /\ pc[t] \in {"opened", "referenced"} => reference_count[o] > 0
      <3>1. pc[t] \in {"opened", "referenced"} => Share(t, o) > 0
        BY <1>0 DEF Share, Holders
      <3> QED
        BY <1>1, <3>1, HeldIsLive, Zenon DEF ObjectIInv, TypeOK, ObjectConstants
    <2>1. CASE ReferenceByIdRead(t) \/ PointerById(t) \/ Abandon(t)
      <3>1. reference_count' = reference_count /\ handles' = handles
        BY <2>1, Zenon DEF ReferenceByIdRead, PointerById, Abandon, counts
      <3>2. Weight(pc[t]) = Weight(pc'[t])
        BY <2>0, <2>1, <1>2, Zenon DEF Weight, ReferenceByIdRead, PointerById, Abandon, Goto
      <3> QED
        BY <2>0, <3>1, <3>2, Zenon
    <2>2. CASE TryAcquire(t)
      <3>1. /\ reference_count' = [reference_count EXCEPT ![o] = @ + 1]
            /\ handles' = handles /\ reference_count[o] > 0
            /\ Weight(pc[t]) = 0 /\ Weight(pc'[t]) = 1
        BY <1>0, <2>0, <2>2, <1>2 DEF TryAcquire, Acquire, Weight, Leave, Goto
      <3>2. /\ reference_count' \in [Objects -> Nat]
            /\ handles' \in [Objects -> 0 .. MaxHandles]
            /\ \A x \in Objects : x # o => reference_count'[x] = reference_count[x]
                                          /\ handles'[x] = handles[x]
            /\ reference_count'[o] = reference_count[o] + 1 /\ handles'[o] = handles[o]
        BY <1>1, <2>0, <3>1
      <3> QED
        BY <2>0, <3>1, <3>2, Z3
    <2>3. CASE PinningTableInsert(t)
      <3>1. /\ reference_count' = [reference_count EXCEPT ![o] = @ + 1]
            /\ handles' = handles /\ reference_count[o] > 0
            /\ Weight(pc[t]) = 1 /\ Weight(pc'[t]) = 2
        BY <1>0, <2>0, <2>3, <1>2, Zenon DEF PinningTableInsert, Acquire, Weight, Goto
      <3>2. /\ reference_count' \in [Objects -> Nat]
            /\ handles' \in [Objects -> 0 .. MaxHandles]
            /\ \A x \in Objects : x # o => reference_count'[x] = reference_count[x]
                                          /\ handles'[x] = handles[x]
            /\ reference_count'[o] = reference_count[o] + 1 /\ handles'[o] = handles[o]
        BY <1>1, <2>0, <3>1
      <3> QED
        BY <2>0, <3>1, <3>2, Z3
    <2>4. CASE HandleCreate(t)
      <3>1. /\ reference_count' = [reference_count EXCEPT ![o] = @ + 1]
            /\ handles' = [handles EXCEPT ![o] = @ + 1] /\ handles[o] < MaxHandles
            /\ reference_count[o] > 0 /\ Weight(pc[t]) = 1 /\ Weight(pc'[t]) = 1
        BY <1>0, <2>0, <2>4, <1>2, Zenon DEF HandleCreate, Acquire, Weight, Goto
      <3>2. /\ reference_count' \in [Objects -> Nat]
            /\ handles' \in [Objects -> 0 .. MaxHandles]
            /\ \A x \in Objects : x # o => reference_count'[x] = reference_count[x]
                                          /\ handles'[x] = handles[x]
            /\ reference_count'[o] = reference_count[o] + 1 /\ handles'[o] = handles[o] + 1
        BY <1>1, <2>0, <3>1
      <3> QED
        BY <2>0, <3>1, <3>2, Z3
    <2> QED
      BY <2>1, <2>2, <2>3, <2>4, Zenon
  <1>4. TypeOK' /\ OnlyThread(t)
    <2>1. pc' \in [Threads -> PCs] /\ OnlyThread(t)
      BY <1>2, ThreadTypes, Zenon DEF PCs, OnlyThread
    <2> QED
      BY <2>1, <1>3, Zenon DEF ObjectIInv, TypeOK, entries, pins, slots
  <1>5. /\ \A x \in Objects : Share(t, x) = IF x = o THEN Weight(pc[t]) ELSE 0
        /\ \A x \in Objects : Share(t, x)' = IF x = o THEN Weight(pc'[t]) ELSE 0
    BY <1>0, <1>1, <1>2
    DEF Share, Holders, Pinners, Updaters, Weight, PlacedAt, ObjectConstants
  <1>6. \A x \in Objects : reference_count'[x] + handles[x] + Share(t, x)
                             = reference_count[x] + handles'[x] + Share(t, x)'
    <2>1. Weight(pc[t]) \in Nat /\ Weight(pc'[t]) \in Nat
      BY DEF Weight
    <2> QED
      BY <1>3, <1>4, <1>5, <2>1, ThreadTypes, Zenon
  <1>7. PlacedAt(t)' /\ Aside(t) /\ Aside(t)'
    BY <1>0, <1>1, <1>2, Zenon
    DEF PlacedAt, Aside, Tearing, slots, ObjectConstants
  <1>8. BorrowedAt(t)'
    <2>1. entry_object[o] => Reachable(t, o)
      BY <1>1, Zenon DEF ObjectIInv, PhasesFit, Reachable
    <2> QED
      BY <1>0, <1>1, <1>2, <2>1, Zenon DEF BorrowedAt, Reachable
  <1>9. \A x \in Objects : reference_count'[x] > 0 <=> reference_count[x] > 0
    BY <1>3, CountTypes
  <1> QED
    BY <1>1, <1>2, <1>4, <1>6, <1>7, <1>8, <1>9, UnlockedStep, Zenon

\* A thread takes a reference on a map, to update or erase its entry.
LEMMA MapInv ==
  ASSUME Counting, ObjectConstants, ObjectIInv, NEW t \in Threads, NEW m \in Maps,
         UpdateWithHandle(t, m) \/ DeleteEntry(t, m)
  PROVE  ObjectIInv'
  <1>1. /\ m \in Objects /\ m # None
        /\ \/ pc[t] = "referenced" /\ obj[t] \notin Maps /\ pc'[t] = "store"
           \/ pc[t] = "idle" /\ pc'[t] = "erase"
        /\ map[t] = None /\ PlacedAt(t)
    BY PlacedType, ThreadTypes DEF UpdateWithHandle, DeleteEntry, Goto,
       ObjectConstants, PlacedAt
  <1>2. /\ reference_count' = [reference_count EXCEPT ![m] = @ + 1]
        /\ handles' = handles /\ UNCHANGED <<phase, entries, pins, slots, obj, waiters>>
        /\ map' = [map EXCEPT ![t] = m] /\ pc' = [pc EXCEPT ![t] = pc'[t]]
        /\ handles[m] > 0 /\ reference_count \in [Objects -> Nat]
        /\ handles \in [Objects -> 0 .. MaxHandles] /\ MaxHandles \in Nat
    BY <1>1, Zenon DEF UpdateWithHandle, DeleteEntry, Goto, Acquire, ObjectIInv, TypeOK,
       ObjectConstants
  <1>3. TypeOK' /\ OnlyThread(t) /\ map'[t] = m
    <2>1. /\ pc' \in [Threads -> PCs] /\ map' \in [Threads -> Maps \cup {None}]
          /\ OnlyThread(t) /\ map'[t] = m
      BY <1>1, <1>2, ThreadTypes, Zenon DEF PCs, OnlyThread
    <2>2. reference_count' \in [Objects -> Nat]
      BY <1>1, <1>2
    <2> QED
      BY <2>1, <2>2, <1>2, Zenon DEF ObjectIInv, TypeOK, entries, pins, slots
  <1>4. \A x \in Objects : /\ Share(t, x) \in Nat
                           /\ x # m => Share(t, x)' = Share(t, x)
                           /\ x = m => Share(t, x)' = Share(t, x) + 1
    BY <1>1, <1>2, <1>3
    DEF Share, Holders, Pinners, Updaters, PlacedAt, ObjectConstants
  <1>5. /\ \A x \in Objects : x # m => reference_count'[x] = reference_count[x]
        /\ reference_count'[m] = reference_count[m] + 1
        /\ reference_count[m] > 0 /\ \A x \in Objects : reference_count[x] \in Nat
        /\ \A x \in Objects : handles[x] \in Nat
    BY <1>1, <1>2, HeldIsLive, Zenon
  <1>6. \A x \in Objects : reference_count'[x] + handles[x] + Share(t, x)
                             = reference_count[x] + handles'[x] + Share(t, x)'
    BY <1>1, <1>2, <1>4, <1>5, Z3
  <1>7. PlacedAt(t)' /\ BorrowedAt(t)' /\ Aside(t) /\ Aside(t)'
    BY <1>1, <1>2, <1>3, Zenon
    DEF PlacedAt, BorrowedAt, Aside, Tearing, slots, ObjectConstants
  <1>8. \A x \in Objects : reference_count'[x] > 0 <=> reference_count[x] > 0
    BY <1>5
  <1> QED
    BY <1>1, <1>2, <1>3, <1>6, <1>7, <1>8, UnlockedStep, Zenon

\* A program looks the object of a slot up.
LEMMA GetObjectInv ==
  ASSUME Counting, ObjectConstants, ObjectIInv, NEW t \in Threads, NEW m \in Maps,
         GetObject(t, m)
  PROVE  ObjectIInv'
  <1>1. PICK o \in Objects : obj' = [obj EXCEPT ![t] = o]
    BY Zenon DEF GetObject, Owner
  <1>2. /\ pc[t] = "idle" /\ phase[m] = "live" /\ pc' = [pc EXCEPT ![t] = "peek"]
        /\ map' = [map EXCEPT ![t] = m]
        /\ UNCHANGED <<phase, counts, entries, pins, slots, waiters>>
    BY DEF GetObject, Goto
  <1>3. /\ pc' \in [Threads -> PCs] /\ obj' \in [Threads -> Objects \cup {None}]
        /\ map' \in [Threads -> Maps \cup {None}]
        /\ pc'[t] = "peek" /\ obj'[t] = o /\ map'[t] = m /\ OnlyThread(t)
    BY <1>1, <1>2, Zenon DEF ObjectIInv, TypeOK, PCs, OnlyThread
  <1>4. TypeOK'
    BY <1>2, <1>3, Zenon DEF ObjectIInv, TypeOK, counts, entries, pins, slots
  <1>5. /\ \A x \in Objects : Share(t, x) = 0 /\ Share(t, x)' = 0
        /\ \A n \in Maps : locked[n] # t
    <2>1. \A x \in Objects : /\ t \notin Holders(x)' /\ t \notin Pinners(x)'
                              /\ t \notin Updaters(x)'
      BY <1>3, Zenon DEF Holders, Pinners, Updaters
    <2>2. \A x \in Objects : Share(t, x)' = 0
      BY <2>1 DEF Share
    <2> QED
      BY <1>2, <2>2, IdleShare, Zenon
  <1>6. PlacedAt(t)' /\ BorrowedAt(t)' /\ Aside(t) /\ Aside(t)'
    BY <1>2, <1>3, <1>5, Zenon
    DEF PlacedAt, BorrowedAt, Reachable, Aside, Tearing, slots, ObjectConstants
  <1>7. \A x \in Objects : reference_count'[x] + handles[x] + Share(t, x)
                             = reference_count[x] + handles'[x] + Share(t, x)'
    BY <1>2, <1>5, Zenon DEF counts
  <1> QED
    BY <1>2, <1>3, <1>4, <1>6, <1>7, UnlockedStep, Zenon DEF counts

\* The id counter never yields a reserved id.
LEMMA NextIdValid ==
  ASSUME Counting, ObjectConstants, ObjectIInv
  PROVE  NextId \in Ids /\ NextId \notin {NoId, IdMax}
  <1>1. IdMax \in Nat \ {0, 1} /\ next_id \in 0 .. IdMax
    BY Zenon DEF ObjectConstants, ObjectIInv, TypeOK, Ids
  <1>2. (next_id + 1) % (IdMax + 1) \in 0 .. IdMax
    BY <1>1
  <1> DEFINE i == (next_id + 1) % (IdMax + 1)
  <1> HIDE DEF i
  <1>3. NextId = IF i = IdMax \/ i = NoId THEN 1 ELSE i
    BY DEF NextId, i
  <1>4. i \in 0 .. IdMax
    BY <1>2 DEF i
  <1> QED
    BY <1>1, <1>3, <1>4 DEF Ids, NoId

\* A creation that fails has moved the id counter.
LEMMA CreateFailsInv ==
  ASSUME Counting, ObjectConstants, ObjectIInv, NEW t \in Threads, NEW o \in Objects,
         CreateFails(t, o)
  PROVE  ObjectIInv'
  <1>1. /\ pc[t] = "idle" /\ next_id' \in Ids /\ next_id' \notin {NoId, IdMax}
        /\ UNCHANGED <<phase, counts, id, entry_references, entry_object, in_table,
                       pins, slots, threads, waiters>>
    BY NextIdValid DEF CreateFails
  <1>2. TypeOK' /\ OnlyThread(t)
    BY <1>1, Zenon DEF ObjectIInv, TypeOK, counts, pins, slots, threads, OnlyThread
  <1>3. /\ \A x \in Objects : Share(t, x)' = Share(t, x) /\ Share(t, x) = 0
        /\ PlacedAt(t)' /\ BorrowedAt(t)' /\ Aside(t) /\ Aside(t)'
    <2>1. PlacedAt(t) /\ BorrowedAt(t) /\ \A x \in Objects : Share(t, x) = 0
      BY <1>1, PlacedType, IdleShare, Zenon
    <2> QED
      BY <1>1, <2>1, Zenon DEF threads, slots, PlacedAt, BorrowedAt, Aside, Tearing, Share,
         Holders, Pinners, Updaters
  <1>4. CountsFit(t) /\ PathsFit(t)
    BY <1>1, <1>2, <1>3, SamePins, Zenon DEF counts, threads
  <1> QED
    BY <1>1, <1>2, <1>3, <1>4, LocalStep, Zenon DEF counts, slots

\* The value object is rejected under the map's lock.
LEMMA StoreRejectedInv ==
  ASSUME Counting, ObjectConstants, ObjectIInv, NEW t \in Threads, StoreRejected(t)
  PROVE  ObjectIInv'
  <1>1. /\ pc[t] = "store" /\ pc' = [pc EXCEPT ![t] = "release"]
        /\ map[t] \in Maps /\ obj[t] \in Objects /\ locked[map[t]] = None
        /\ locked' = [locked EXCEPT ![map[t]] = t] /\ PlacedAt(t)
        /\ UNCHANGED <<phase, counts, entries, pins, slot, stored, obj, map, waiters>>
    BY PlacedType, Zenon DEF StoreRejected, Goto, PlacedAt
  <1>2. /\ pc' \in [Threads -> PCs] /\ locked' \in [Maps -> Threads \cup {None}]
        /\ pc'[t] = "release" /\ OnlyThread(t)
        /\ locked'[map[t]] = t /\ \A n \in Maps : n # map[t] => locked'[n] = locked[n]
    BY <1>1, Zenon DEF ObjectIInv, TypeOK, PCs, OnlyThread
  <1>3. TypeOK'
    BY <1>1, <1>2, Zenon DEF ObjectIInv, TypeOK, counts, entries, pins
  <1>4. /\ \A x \in Objects : Share(t, x)' = Share(t, x)
        /\ PlacedAt(t)' /\ BorrowedAt(t)' /\ Aside(t) /\ Aside(t)'
    BY <1>1, <1>2, Zenon DEF PlacedAt, BorrowedAt, Aside, Tearing, Share,
       Holders, Pinners, Updaters, ObjectConstants
  <1>5. CountsFit(t) /\ PathsFit(t)
    BY <1>1, <1>2, <1>3, <1>4, SamePins, Zenon DEF counts
  <1>6. \A n \in Maps : \A q \in Threads : q # t =>
             (locked'[n] = q <=> locked[n] = q)
    BY <1>1, <1>2, Zenon DEF ObjectConstants
  <1> QED
    BY <1>1, <1>2, <1>3, <1>4, <1>5, <1>6, LocalStep, Zenon DEF counts, entries, ObjectIInv
=============================================================================
