-------------------------- MODULE EbpfObjectProofs --------------------------
(***************************************************************************)
(* Theorems about EbpfObject: the bookkeeping of references, ids, slots and *)
(* pinned paths is exact for any number of objects, maps, paths, threads,  *)
(* handles and ids, no thread reaches a freed object, and a count that has *)
(* reached zero stays there.                                               *)
(***************************************************************************)
EXTENDS EbpfObjectLife, FiniteSetTheorems

-----------------------------------------------------------------------------
(* The beginning and the end of an object.                                 *)

\* A creation takes the next free id and the first reference
\* (ebpf_object_initialize).
LEMMA CreateInv ==
  ASSUME Counting, ObjectConstants, ObjectIInv, NEW t \in Threads, NEW o \in Objects,
         Create(t, o)
  PROVE  ObjectIInv'
  <1>1. /\ NextId \in Ids /\ NextId \notin {NoId, IdMax} /\ Owner(NextId) = {}
        /\ phase[o] = "none" /\ reference_count[o] = 0 /\ TornDownBy(o) = {}
        /\ \A m \in Maps : stored[m] # o
    BY NextIdValid, AtObject DEF PhaseAt, Create
  <1>2. /\ pc[t] = "idle" /\ pc' = [pc EXCEPT ![t] = "opened"]
        /\ next_id' = NextId /\ phase' = [phase EXCEPT ![o] = "live"]
        /\ id' = [id EXCEPT ![o] = NextId]
        /\ entry_references' = [entry_references EXCEPT ![o] = 1]
        /\ entry_object' = [entry_object EXCEPT ![o] = TRUE]
        /\ in_table' = [in_table EXCEPT ![o] = TRUE]
        /\ reference_count' = [reference_count EXCEPT ![o] = @ + 1]
        /\ obj' = [obj EXCEPT ![t] = o]
        /\ UNCHANGED <<handles, pins, slots, map, waiters>>
    BY Zenon DEF Create, Goto, Acquire
  <1>3. /\ pc' \in [Threads -> PCs] /\ obj' \in [Threads -> Objects \cup {None}]
        /\ pc'[t] = "opened" /\ obj'[t] = o /\ OnlyThread(t)
        /\ phase' \in [Objects -> {"none", "live", "zero", "scheduled", "freed"}]
        /\ phase'[o] = "live" /\ \A x \in Objects : x # o => phase'[x] = phase[x]
    BY <1>2, ThreadTypes, TableTypes, CountTypes, Zenon DEF PCs, OnlyThread
  <1>4. /\ id' \in [Objects -> Ids] /\ id'[o] = NextId
        /\ \A x \in Objects : x # o => id'[x] = id[x]
        /\ entry_references' \in [Objects -> Nat] /\ entry_references'[o] = 1
        /\ \A x \in Objects : x # o => entry_references'[x] = entry_references[x]
        /\ reference_count' \in [Objects -> Nat] /\ reference_count'[o] = 1
        /\ \A x \in Objects : x # o => reference_count'[x] = reference_count[x]
    BY <1>1, <1>2, ThreadTypes, TableTypes, CountTypes
  <1>5. /\ entry_object' \in [Objects -> BOOLEAN] /\ entry_object'[o] = TRUE
        /\ \A x \in Objects : x # o => entry_object'[x] = entry_object[x]
        /\ in_table' \in [Objects -> BOOLEAN] /\ in_table'[o] = TRUE
        /\ \A x \in Objects : x # o => in_table'[x] = in_table[x]
    BY <1>2, TableTypes, Zenon
  <1>6. TypeOK'
    BY <1>1, <1>2, <1>3, <1>4, <1>5, Zenon DEF ObjectIInv, TypeOK, pins, slots
  <1>7. /\ \A x \in Objects : Share(t, x) = 0 /\ map[t] = None
        /\ \A m \in Maps : locked[m] # t
    BY <1>2, IdleShare, Zenon
  <1>8. /\ Share(t, o)' = 1 /\ \A x \in Objects : x # o => Share(t, x)' = 0
        /\ PlacedAt(t)' /\ BorrowedAt(t)'
    BY <1>2, <1>3, <1>7 DEF Share, Holders, Pinners, Updaters, ObjectConstants,
       PlacedAt, BorrowedAt, slots
  <1>9. StaysReachable(t)
    BY <1>2, <1>3, Zenon DEF StaysReachable, Reachable
  <1>10. \A x \in Objects : reference_count'[x] + handles[x] + Share(t, x)
                              = reference_count[x] + handles'[x] + Share(t, x)'
    <2>1. \A x \in Objects : reference_count[x] \in Nat /\ handles[x] \in Nat
      BY HeldIsLive, Zenon
    <2> QED
      BY <1>1, <1>2, <1>4, <1>7, <1>8, <2>1, Z3
  <1>11. /\ \A x \in Objects : TornDownBy(x)' = TornDownBy(x)
         /\ \A x \in Objects : \A q \in TornDownBy(x) : pc'[q] = pc[q]
         /\ \A x \in Objects : x # o => (HoldsOwnId(x)' <=> HoldsOwnId(x))
         /\ HoldsOwnId(o)'
         /\ \A n \in Maps : InTransition(n)' <=> InTransition(n)
    BY <1>2, <1>3 DEF TornDownBy, HoldsOwnId, InTransition, OnlyThread
  <1>12. \A x \in Objects : Keepers(x)' = Keepers(x)
    BY <1>1, <1>2, <1>3, <1>11, Zenon DEF Keepers, slots, ObjectConstants
  <1>13. \A x \in Objects : PhaseAt(x)' /\ IdAt(x)'
    <2>1. Keepers(o)' = {} /\ Cardinality(Keepers(o)') = 0
      BY <1>1, <1>12, EmptyCount, Zenon DEF Keepers
    <2>2. PhaseAt(o)' /\ IdAt(o)'
      BY <1>1, <1>3, <1>4, <1>5, <1>11, <2>1 DEF PhaseAt, IdAt
    <2>3. ASSUME NEW x \in Objects, x # o
          PROVE  PhaseAt(x)' /\ IdAt(x)'
      <3>1. PhaseAt(x)'
        BY <1>2, <1>3, <1>4, <1>5, <1>11, <2>3, PhaseKept, Zenon DEF slots
      <3>2. IdAt(x)'
        BY <1>4, <1>5, <1>11, <1>12, <2>3, IdKept, Zenon
      <3> QED
        BY <3>1, <3>2
    <2> QED
      BY <2>2, <2>3
  <1>14. IdsValid' /\ SlotsFit'
    <2>1. \A x \in Objects : in_table[x] => id[x] # NextId
      BY <1>1 DEF Owner
    <2>2. IdsValid'
      <3> SUFFICES ASSUME NEW x \in Objects, in_table'[x]
                   PROVE  /\ id'[x] \notin {NoId, IdMax}
                          /\ \A y \in Objects : in_table'[y] /\ id'[y] = id'[x] => y = x
        BY DEF IdsValid, Owner
      <3>1. \A y \in Objects : in_table[y] => /\ id[y] \notin {NoId, IdMax}
                                              /\ \A z \in Objects :
                                                   in_table[z] /\ id[z] = id[y] => z = y
        BY DEF ObjectIInv, IdsValid, Owner
      <3> QED
        BY <1>1, <1>4, <1>5, <2>1, <3>1
    <2>3. SlotsFit'
      BY <1>1, <1>2, <1>3, <1>4, CountTypes DEF ObjectIInv, SlotsFit, slots,
         ObjectConstants
    <2> QED
      BY <2>2, <2>3
  <1>15. next_id' \notin {NoId, IdMax} /\ UNCHANGED <<pins, locked>>
         /\ pc[t] # "unpinned" /\ pc'[t] # "unpinned"
    BY <1>1, <1>2, <1>3, Zenon DEF slots
  <1> QED
    BY <1>3, <1>6, <1>8, <1>9, <1>10, <1>13, <1>14, <1>15, ThreadInv, Zenon

\* With threads and pinning table left alone.
LEMMA CountsUnchanged ==
  ASSUME ObjectIInv, UNCHANGED <<pc, obj, map, reference_count, handles, pinned>>,
         pinned_path_count' = pinned_path_count
  PROVE  ReferencesCounted' /\ PinnedPathsCounted'
  <1>1. \A o \in Objects : /\ Holders(o)' = Holders(o) /\ Pinners(o)' = Pinners(o)
                           /\ Updaters(o)' = Updaters(o) /\ PinsOf(o)' = PinsOf(o)
                           /\ Unpinners(o)' = Unpinners(o)
    BY DEF Holders, Pinners, Updaters, PinsOf, Unpinners
  <1>2. \A o \in Objects : ThreadReferences(o)' = ThreadReferences(o)
    BY <1>1, Zenon DEF ThreadReferences
  <1> QED
    BY <1>1, <1>2, Zenon DEF ObjectIInv, ReferencesCounted, PinnedPathsCounted

\* The epoch frees a scheduled object once no thread that may see it is left.
LEMMA FreeInv ==
  ASSUME Counting, ObjectConstants, ObjectIInv, NEW o \in Objects, Free(o)
  PROVE  ObjectIInv'
  <1>1. /\ phase[o] = "scheduled" /\ waiters[o] = {}
        /\ phase' = [phase EXCEPT ![o] = "freed"]
        /\ UNCHANGED <<counts, id, next_id, entry_object, pins, locked, threads, waiters>>
        /\ UNCHANGED <<pc, obj, map, reference_count, handles>>
    BY Zenon DEF Free, threads, counts
  <1>2. /\ phase' \in [Objects -> {"none", "live", "zero", "scheduled", "freed"}]
        /\ phase'[o] = "freed" /\ \A x \in Objects : x # o => phase'[x] = phase[x]
    BY <1>1, CountTypes, Zenon
  <1>3. /\ \A x \in Objects : TornDownBy(x)' = TornDownBy(x)
        /\ \A n : InTransition(n)' <=> InTransition(n)
        /\ \A x \in Objects : HoldsOwnId(x)' <=> HoldsOwnId(x)
    BY <1>1, <1>2, Zenon DEF TornDownBy, InTransition, HoldsOwnId
  <1>4. /\ entry_references' \in [Objects -> Nat] /\ in_table' \in [Objects -> BOOLEAN]
        /\ slot' \in [Maps -> Ids] /\ stored' \in [Maps -> Objects \cup {None}]
        /\ \A x \in Objects : IdAt(x)' /\ (in_table'[x] => in_table[x])
        /\ SlotsFit' /\ \A m \in Maps : stored'[m] \in {stored[m], None}
    <2>1. CASE o \in Maps /\ slot[o] # NoId
      <3>1. ~InTransition(o)
        BY <1>1, <2>1, OneUpdate DEF InTransition
      <3>2. PICK v \in Objects : /\ v = stored[o] /\ Owner(slot[o]) = {v}
                                 /\ o \in Keepers(v) /\ in_table[v]
        BY <2>1, <3>1, KeeperInTable, Zenon
      <3>3. /\ ReleaseId(v) /\ slot' = [slot EXCEPT ![o] = NoId]
            /\ stored' = [stored EXCEPT ![o] = None]
        BY <2>1, <3>2, Zenon DEF Free
      <3>4. /\ slot' \in [Maps -> Ids] /\ stored' \in [Maps -> Objects \cup {None}]
            /\ slot'[o] = NoId /\ stored'[o] = None
            /\ \A n \in Maps : n # o => slot'[n] = slot[n] /\ stored'[n] = stored[n]
        BY <2>1, <3>3, TableTypes DEF ObjectConstants, Ids, NoId
      <3>5. /\ IdAt(v) /\ entry_references[v] \in Nat /\ entry_references[v] > 0
            /\ entry_references \in [Objects -> Nat]
            /\ in_table \in [Objects -> BOOLEAN]
        BY <3>2, AtObject, TableTypes, Zenon DEF IdAt
      <3>6. /\ entry_references' \in [Objects -> Nat]
            /\ in_table' \in [Objects -> BOOLEAN]
            /\ entry_references'[v] = entry_references[v] - 1
            /\ in_table'[v] <=> entry_references[v] # 1
            /\ \A x \in Objects : x # v => /\ entry_references'[x] = entry_references[x]
                                           /\ in_table'[x] = in_table[x]
        BY <3>2, <3>3, <3>5, ReleaseIdEffect, Zenon
      <3>7. /\ \A x \in Objects : \A n \in Maps : n # o =>
                   (n \in Keepers(x)' <=> n \in Keepers(x))
            /\ \A x \in Objects : o \notin Keepers(x)'
        BY <1>2, <1>3, <3>4, Zenon DEF Keepers, ObjectConstants
      <3>8. IdAt(v)'
        <4>1. /\ Cardinality(Keepers(v)) \in Nat /\ Cardinality(Keepers(v)') \in Nat
              /\ Cardinality(Keepers(v)') + 1 = Cardinality(Keepers(v))
          BY <2>1, <3>2, <3>7, KeepersStep
        <4> QED
          BY <1>3, <3>5, <3>6, <4>1 DEF IdAt
      <3>9. ASSUME NEW x \in Objects, x # v
            PROVE  IdAt(x)'
        <4>1. Keepers(x)' = Keepers(x)
          BY <3>2, <3>7, <3>9 DEF Keepers
        <4> QED
          BY <1>3, <3>6, <3>9, <4>1, IdKept, Zenon
      <3>10. SlotsFit'
        BY <1>1, <1>2, <3>4 DEF ObjectIInv, SlotsFit, ObjectConstants
      <3> QED
        BY <3>2, <3>4, <3>6, <3>8, <3>9, <3>10, Zenon
    <2>2. CASE ~(o \in Maps /\ slot[o] # NoId)
      <3>1. UNCHANGED <<entry_references, in_table, slot, stored>>
        BY <2>2, Zenon DEF Free
      <3>2. o \in Maps => stored[o] = None
        BY <2>2 DEF ObjectIInv, SlotsFit
      <3>3. \A x \in Objects : Keepers(x)' = Keepers(x)
        BY <1>2, <1>3, <3>1, <3>2 DEF Keepers, ObjectConstants
      <3>4. \A x \in Objects : IdAt(x)'
        BY <1>3, <3>1, <3>3, IdKept, Zenon
      <3>5. SlotsFit'
        BY <1>1, <1>2, <3>1, <3>2, Zenon DEF ObjectIInv, SlotsFit, ObjectConstants
      <3> QED
        BY <3>1, <3>4, <3>5, TableTypes, Zenon
    <2> QED
      BY <2>1, <2>2, Zenon
  <1>5. TypeOK'
    BY <1>1, <1>2, <1>4, Zenon DEF ObjectIInv, TypeOK, counts, pins, threads
  <1>6. ReferencesCounted' /\ PinnedPathsCounted'
    BY <1>1, CountsUnchanged, Zenon DEF pins
  <1>7. IdReferencesCounted' /\ IdsValid'
    BY <1>1, <1>4, IdsShrink, Zenon DEF IdReferencesCounted, IdAt
  <1>8. PointersPlaced'
    BY <1>1 DEF ObjectIInv, PointersPlaced, PlacedAt, threads
  <1>9. PhasesFit'
    <2>1. PhaseAt(o)'
      <3>1. PhaseAt(o)
        BY AtObject
      <3> QED
        BY <1>1, <1>2, <1>3, <3>1, Zenon DEF PhaseAt
    <2>2. ASSUME NEW x \in Objects, x # o
          PROVE  PhaseAt(x)'
      <3>1. \A m \in Maps : stored'[m] = x => stored[m] = x
        BY <1>4, Zenon DEF ObjectConstants
      <3> QED
        BY <1>1, <1>2, <1>3, <2>2, <3>1, PhaseKept, Zenon
    <2> QED
      BY <2>1, <2>2, Zenon DEF PhasesFit, PhaseAt
  <1>10. BorrowedReachable'
    <2>1. \A t \in Threads : \A x \in Objects : Reachable(t, x) => Reachable(t, x)'
      BY <1>1, <1>2, Zenon DEF Reachable
    <2>2. ASSUME NEW t \in Threads
          PROVE  BorrowedAt(t)'
      <3>1. /\ PlacedAt(t) /\ BorrowedAt(t)
            /\ obj[t] # None => obj[t] \in Objects
            /\ map[t] # None => map[t] \in Objects
        BY PlacedType, Zenon
      <3>2. pc[t] \in {"read", "using"} => Reachable(t, obj[t])'
        BY <1>1, <2>1, <3>1, Zenon DEF PlacedAt, BorrowedAt, Reachable
      <3>3. pc[t] \in {"peek", "using"} => Reachable(t, map[t])'
        BY <1>1, <2>1, <3>1, Zenon DEF PlacedAt, BorrowedAt, Reachable
      <3> QED
        BY <1>1, <3>2, <3>3, Zenon DEF BorrowedAt
    <2> QED
      BY <2>2 DEF BorrowedReachable
  <1>11. next_id' \notin {NoId, IdMax}
    BY <1>1, Zenon DEF ObjectIInv
  <1> QED
    BY <1>4, <1>5, <1>6, <1>7, <1>8, <1>9, <1>10, <1>11, Zenon DEF ObjectIInv

-----------------------------------------------------------------------------
(* Every step.                                                              *)

\* A step that changes nothing.
LEMMA StutterInv ==
  ASSUME Counting, ObjectConstants, ObjectIInv, UNCHANGED vars
  PROVE  ObjectIInv'
  <1>1. /\ UNCHANGED <<phase, reference_count, handles, id, next_id, entry_references>>
        /\ UNCHANGED <<entry_object, in_table, pinned, pinned_path_count, slot, stored>>
        /\ UNCHANGED <<locked, pc, obj, map, waiters>>
    BY DEF vars, counts, entries, pins, slots, threads
  <1>2. TypeOK'
    BY <1>1, Zenon DEF ObjectIInv, TypeOK
  <1>3. ReferencesCounted' /\ PinnedPathsCounted'
    BY <1>1, CountsUnchanged
  <1>4. IdReferencesCounted' /\ IdsValid'
    <2>1. \A o \in Objects : /\ Keepers(o)' = Keepers(o)
                             /\ HoldsOwnId(o)' <=> HoldsOwnId(o)
      BY <1>1, Zenon DEF Keepers, HoldsOwnId, InTransition
    <2>2. \A o \in Objects : IdAt(o)'
      BY <1>1, <2>1, IdKept, Zenon
    <2> QED
      BY <1>1, <2>2, IdsShrink, Zenon DEF IdReferencesCounted, IdAt
  <1>5. PointersPlaced' /\ BorrowedReachable'
    BY <1>1 DEF ObjectIInv, PointersPlaced, PlacedAt, BorrowedReachable, BorrowedAt,
       Reachable
  <1>6. PhasesFit' /\ SlotsFit'
    BY <1>1 DEF ObjectIInv, PhasesFit, TornDownBy, SlotsFit
  <1> QED
    BY <1>1, <1>2, <1>3, <1>4, <1>5, <1>6, Zenon DEF ObjectIInv

\* Every step keeps the inductive invariant: one case per action of Next.
LEMMA NextKeepsObjectIInv ==
  ASSUME Counting, ObjectConstants, ObjectIInv, [Next]_vars
  PROVE  ObjectIInv'
  <1>1. ASSUME NEW t \in Threads, NEW o \in Objects,
               \/ Create(t, o) \/ CreateFails(t, o) \/ ReferenceByHandle(t, o)
               \/ ReferenceById(t, o) \/ HandleClose(t, o)
        PROVE  ObjectIInv'
    BY <1>1, CreateInv, CreateFailsInv, StartInv, Zenon
  <1>2. ASSUME NEW t \in Threads, NEW p \in Paths,
               PinningTableFind(t, p) \/ PinningTableDelete(t, p)
        PROVE  ObjectIInv'
    <2>1. pinned[p] \in Objects
      BY <1>2, Zenon DEF PinningTableFind, PinningTableDelete, ObjectIInv, TypeOK
    <2> QED
      BY <1>2, <2>1, StartInv, PinningTableDeleteInv
  <1>3. ASSUME NEW t \in Threads, NEW m \in Maps,
               UpdateWithHandle(t, m) \/ DeleteEntry(t, m) \/ GetObject(t, m)
        PROVE  ObjectIInv'
    BY <1>3, MapInv, GetObjectInv
  <1>4. ASSUME NEW t \in Threads,
               \/ HandleCreate(t) \/ PinningTableInsert(t) \/ Abandon(t)
               \/ StoreReleaseOld(t) \/ StoreRejected(t) \/ DeleteReleaseOld(t)
        PROVE  ObjectIInv'
    <2>1. CASE HandleCreate(t) \/ PinningTableInsert(t) \/ Abandon(t)
      <3>1. UNCHANGED <<phase, entries, pins, slots, obj, map, waiters>>
        BY <2>1, Zenon DEF HandleCreate, PinningTableInsert, Abandon
      <3> QED
        BY <2>1, <3>1, MoveInv
    <2>2. CASE StoreReleaseOld(t) \/ StoreRejected(t) \/ DeleteReleaseOld(t)
      BY <2>2, ReleaseOldInv, StoreRejectedInv
    <2> QED
      BY <1>4, <2>1, <2>2
  <1>5. ASSUME NEW t \in Threads, ThreadStep(t)
        PROVE  ObjectIInv'
    <2>1. CASE ReferenceByIdRead(t) \/ TryAcquire(t) \/ PointerById(t)
      <3>1. \/ /\ pc[t] \in {"found", "read", "peek", "using"} /\ Leave(t)
               /\ UNCHANGED <<phase, counts, entries, pins, slots>>
            \/ UNCHANGED <<phase, entries, pins, slots, obj, map, waiters>>
        BY <2>1, Zenon DEF ReferenceByIdRead, TryAcquire, PointerById, counts
      <3> QED
        BY <2>1, <3>1, LeaveInv, MoveInv, Zenon
    <2>2. CASE PinningTableDeleted(t) \/ \E p \in Paths : PinningTableInserted(t, p)
      BY <2>2, PinningTableDeletedInv, PinningTableInsertedInv
    <2>3. CASE StoreNew(t) \/ DeleteClear(t)
      BY <2>3, StoreNewInv, DeleteClearInv
    <2>4. CASE ProgramEnds(t)
      BY <2>4, LeaveInv DEF ProgramEnds
    <2>5. CASE ReleaseReference(t)
      BY <2>5, ReleaseLastInv, ReleaseNotLastInv
    <2>6. CASE ListRemove(t) \/ ListRemoveId(t) \/ Schedule(t)
      BY <2>6, ListRemoveInv, ListRemoveIdInv, ScheduleInv
    <2> QED
      BY <1>5, <2>1, <2>2, <2>3, <2>4, <2>5, <2>6, Zenon DEF ThreadStep
  <1>6. ASSUME NEW o \in Objects, Free(o)
        PROVE  ObjectIInv'
    BY <1>6, FreeInv
  <1>7. ASSUME TrackingTerminate \/ UNCHANGED vars
        PROVE  ObjectIInv'
    BY <1>7, StutterInv DEF TrackingTerminate
  <1> QED
    BY <1>1, <1>2, <1>3, <1>4, <1>5, <1>6, <1>7, Zenon DEF Next

-----------------------------------------------------------------------------
(* The theorems.                                                           *)

\* Two sets that agree beside x.
LEMMA FiniteCountStep ==
  ASSUME NEW S, IsFiniteSet(S), NEW A \in SUBSET S, NEW B \in SUBSET S, NEW x,
         A \ {x} = B \ {x}
  PROVE  /\ Cardinality(A) \in Nat /\ Cardinality(B) \in Nat
         /\ x \in A => Cardinality(A) >= 1
         /\ Cardinality(B) + (IF x \in A THEN 1 ELSE 0)
              = Cardinality(A) + (IF x \in B THEN 1 ELSE 0)
  <1>1. /\ IsFiniteSet(A) /\ IsFiniteSet(B)
        /\ IsFiniteSet(A \ {x}) /\ IsFiniteSet(B \ {x})
    BY FS_Subset, FS_RemoveElement
  <1>2. /\ Cardinality(A) \in Nat /\ Cardinality(B) \in Nat
        /\ Cardinality(A \ {x}) \in Nat
    BY <1>1, FS_CardinalityType
  <1>3. /\ Cardinality(A \ {x}) =
              IF x \in A THEN Cardinality(A) - 1 ELSE Cardinality(A)
        /\ Cardinality(B \ {x}) =
              IF x \in B THEN Cardinality(B) - 1 ELSE Cardinality(B)
    BY <1>1, FS_RemoveElement
  <1> QED
    BY <1>2, <1>3

\* The library's theorems about finite sets give Counting.
LEMMA CountingHolds == Counting
  BY FiniteCountStep, FS_EmptySet DEF Counting

\* Before the first object is created, every count is zero and every set empty.
LEMMA InitEstablishesObjectIInv ==
  ASSUME ObjectConstants, Init
  PROVE  ObjectIInv
  <1>1. TypeOK
    BY DEF Init, TypeOK, ObjectConstants, Ids, NoId, PCs
  <1>2. /\ \A t \in Threads : pc[t] = "idle" /\ obj[t] = None /\ map[t] = None
        /\ \A o \in Objects : o # None
    BY Zenon DEF Init, ObjectConstants
  <1>3. \A o \in Objects : /\ Holders(o) = {} /\ Pinners(o) = {} /\ Updaters(o) = {}
                           /\ PinsOf(o) = {} /\ Unpinners(o) = {} /\ Keepers(o) = {}
                           /\ TornDownBy(o) = {} /\ ~HoldsOwnId(o)
    BY <1>2, Zenon DEF Init, Holders, Pinners, Updaters, PinsOf, Unpinners, Keepers,
       TornDownBy, HoldsOwnId
  <1>4. ReferencesCounted /\ PinnedPathsCounted
    <2>1. \A o \in Objects : /\ Cardinality(PinsOf(o)) = 0
                             /\ Cardinality(Unpinners(o)) = 0
                             /\ ThreadReferences(o) = 0
      BY <1>3, FS_EmptySet DEF ThreadReferences
    <2>2. \A o \in Objects : /\ reference_count[o] = 0 /\ handles[o] = 0
                             /\ pinned_path_count[o] = 0
      BY Zenon DEF Init
    <2> QED
      BY <2>1, <2>2 DEF ReferencesCounted, PinnedPathsCounted
  <1>5. IdReferencesCounted /\ IdsValid
    <2>1. \A o \in Objects : Cardinality(Keepers(o)) = 0 /\ ~HoldsOwnId(o)
      BY <1>3, FS_EmptySet
    <2>2. \A o \in Objects : entry_references[o] = 0 /\ in_table[o] = FALSE
      BY Zenon DEF Init
    <2> QED
      BY <2>1, <2>2 DEF IdReferencesCounted, IdsValid
  <1>6. next_id \notin {NoId, IdMax}
    BY DEF Init, NoId, ObjectConstants
  <1>7. PointersPlaced /\ BorrowedReachable
    BY <1>2, Zenon DEF Init, PointersPlaced, PlacedAt, BorrowedReachable, BorrowedAt,
       ObjectConstants
  <1>8. PhasesFit /\ SlotsFit
    BY <1>2, <1>3 DEF Init, PhasesFit, SlotsFit, ObjectConstants
  <1> QED
    BY <1>1, <1>4, <1>5, <1>6, <1>7, <1>8 DEF ObjectIInv

\* The inductive invariant holds for any number of objects, maps, paths,
\* threads, handles and ids.
THEOREM ObjectInvariant ==
  ASSUME ObjectConstants
  PROVE  Spec => []ObjectIInv
  <1>1. Init => ObjectIInv
    BY InitEstablishesObjectIInv
  <1>2. ObjectIInv /\ [Next]_vars => ObjectIInv'
    BY CountingHolds, NextKeepsObjectIInv
  <1> QED
    BY <1>1, <1>2, PTL DEF Spec

\* The reference counts of objects and of ids, the pinned path counts and the
\* slots of maps are exact in every interleaving of lookups, pinning, updates
\* and releases, and no thread holds a pointer to a freed object
\* (ebpf_object.c, ebpf_pinning_table.c, ebpf_maps.c).
THEOREM ObjectsAreAccounted ==
  ASSUME ObjectConstants
  PROVE  Spec => []ObjectInv
  <1>1. ObjectIInv => ObjectInv
    BY CountingHolds, InvImpliesObjectInv
  <1> QED
    BY <1>1, ObjectInvariant, PTL

\* A reference count that has reached zero stays there, whichever lookups by id
\* race with the release (_ebpf_object_try_acquire_reference).
THEOREM CountsStayZero ==
  ASSUME ObjectConstants
  PROVE  Spec => NoResurrection
  <1> DEFINE Stays == \A o \in Objects :
                         phase[o] \notin {"none", "live"} => reference_count'[o] = 0
  <1>1. ObjectIInv /\ ObjectIInv' /\ [Next]_vars => [Stays]_vars
    <2> SUFFICES ASSUME ObjectIInv, ObjectIInv', [Next]_vars,
                        NEW o \in Objects, phase[o] \notin {"none", "live"}
                 PROVE  reference_count'[o] = 0
      OBVIOUS
    <2>1. phase'[o] # "live"
      BY NoRevival
    <2> QED
      BY <2>1 DEF ObjectIInv, PhasesFit, TypeOK
  <1>2. [][Stays]_vars <=> NoResurrection
    BY DEF NoResurrection
  <1> HIDE DEF Stays
  <1>3. Spec => [][Stays]_vars
    BY <1>1, ObjectInvariant, PTL DEF Spec
  <1> QED
    BY <1>2, <1>3
=============================================================================
