-------------------------- MODULE EbpfObjectLife ----------------------------
(***************************************************************************)
(* What the steps of EbpfObject that change an object's phase, an entry of *)
(* the id table or a slot of a map do to the inductive invariant: storing  *)
(* and deleting map entries, the last release, the removal of the object   *)
(* from its lists, and its teardown.                                       *)
(***************************************************************************)
EXTENDS EbpfObjectSteps

\* PhasesFit for one object.
PhaseAt(o) ==
    /\ phase[o] = "live" <=> reference_count[o] > 0
    /\ phase[o] = "zero" <=> TornDownBy(o) # {}
    /\ \A s, t \in TornDownBy(o) : s = t
    /\ entry_object[o] => \/ phase[o] = "live"
                          \/ \E t \in TornDownBy(o) : pc[t] = "remove"
    /\ phase[o] = "none" => \A m \in Maps : stored[m] # o

\* IdReferencesCounted for one object.
IdAt(o) ==
    /\ entry_references[o] =
          Cardinality(Keepers(o)) + (IF HoldsOwnId(o) THEN 1 ELSE 0)
    /\ in_table[o] <=> entry_references[o] > 0

\* The inductive invariant, object by object.
LEMMA AtObject ==
  ASSUME ObjectIInv, NEW o \in Objects
  PROVE  /\ PhaseAt(o) /\ IdAt(o) /\ reference_count[o] \in Nat
         /\ entry_references[o] \in Nat
  BY DEF ObjectIInv, PhasesFit, IdReferencesCounted, PhaseAt, IdAt, TypeOK

\* What a step of t has to show when it changes phases, ids or slots.
LEMMA ThreadInv ==
  ASSUME Counting, ObjectConstants, ObjectIInv, TypeOK', NEW t \in Threads, OnlyThread(t),
         next_id' \notin {NoId, IdMax}, UNCHANGED pins,
         pc[t] # "unpinned", pc'[t] # "unpinned",
         \A o \in Objects : reference_count'[o] + handles[o] + Share(t, o)
                              = reference_count[o] + handles'[o] + Share(t, o)',
         PlacedAt(t)', BorrowedAt(t)', StaysReachable(t),
         \A m \in Maps : \A q \in Threads : q # t =>
             (locked'[m] = q <=> locked[m] = q),
         \A o \in Objects : PhaseAt(o)' /\ IdAt(o)', IdsValid', SlotsFit'
  PROVE  ObjectIInv'
  <1>1. ReferencesCounted' /\ PinnedPathsCounted'
    BY SamePins, CountsKept, PathsKept, Zenon
  <1>2. PointersPlaced' /\ BorrowedReachable'
    BY PlacedKept, BorrowedKept, Zenon
  <1>3. PhasesFit'
    BY Zenon DEF PhasesFit, PhaseAt
  <1>4. IdReferencesCounted'
    BY Zenon DEF IdReferencesCounted, IdAt
  <1> QED
    BY <1>1, <1>2, <1>3, <1>4, Zenon DEF ObjectIInv

\* An object whose phase and pointers do not change.
LEMMA PhaseKept ==
  ASSUME Counting, ObjectConstants, ObjectIInv, NEW o \in Objects,
         phase'[o] = phase[o], entry_object'[o] = entry_object[o],
         reference_count'[o] > 0 <=> reference_count[o] > 0,
         TornDownBy(o)' = TornDownBy(o),
         \A q \in TornDownBy(o) : pc'[q] = pc[q],
         \A m \in Maps : stored'[m] = o => stored[m] = o \/ phase[o] # "none"
  PROVE  PhaseAt(o)'
  <1>1. PhaseAt(o)
    BY AtObject
  <1> QED
    BY <1>1, Zenon DEF PhaseAt

\* The slots that keep the id of o; at most that of m changes.
LEMMA KeepersStep ==
  ASSUME Counting, ObjectConstants, NEW m \in Maps, NEW o,
         \A n \in Maps : n # m => (n \in Keepers(o)' <=> n \in Keepers(o))
  PROVE  /\ Cardinality(Keepers(o)) \in Nat /\ Cardinality(Keepers(o)') \in Nat
         /\ m \in Keepers(o) => Cardinality(Keepers(o)) >= 1
         /\ Cardinality(Keepers(o)') + (IF m \in Keepers(o) THEN 1 ELSE 0)
              = Cardinality(Keepers(o)) + (IF m \in Keepers(o)' THEN 1 ELSE 0)
  <1>1. Keepers(o) \in SUBSET Maps /\ Keepers(o)' \in SUBSET Maps
    BY DEF Keepers
  <1>2. Keepers(o) \ {m} = Keepers(o)' \ {m}
    BY <1>1
  <1> QED
    BY <1>1, <1>2, CountStep DEF ObjectConstants

\* The slots that keep an id are finitely many.
LEMMA KeepersType ==
  ASSUME Counting, ObjectConstants, NEW o
  PROVE  Cardinality(Keepers(o)) \in Nat
  <1>1. Keepers(o) \in SUBSET Maps
    BY DEF Keepers
  <1> QED
    BY <1>1, CountStep DEF ObjectConstants

\* An entry whose users do not change.
LEMMA IdKept ==
  ASSUME Counting, ObjectConstants, ObjectIInv, NEW o \in Objects,
         entry_references'[o] = entry_references[o], in_table'[o] <=> in_table[o],
         Keepers(o)' = Keepers(o), HoldsOwnId(o)' <=> HoldsOwnId(o)
  PROVE  IdAt(o)'
  <1>1. IdAt(o)
    BY AtObject
  <1> QED
    BY <1>1 DEF IdAt

\* Ids stay valid when entries only leave the table.
LEMMA IdsShrink ==
  ASSUME Counting, ObjectConstants, ObjectIInv, id' = id,
         \A o \in Objects : in_table'[o] => in_table[o]
  PROVE  IdsValid'
  BY DEF ObjectIInv, IdsValid, Owner

\* One update of a map is under way at a time.
LEMMA OneUpdate ==
  ASSUME Counting, ObjectConstants, ObjectIInv, NEW m \in Maps, NEW t \in Threads,
         map[t] = m, pc[t] \in {"acquire", "clear"}
  PROVE  /\ locked[m] = t /\ InTransition(m) /\ phase[m] = "live"
         /\ \A q \in Threads : map[q] = m /\ pc[q] \in {"acquire", "clear"} => q = t
  <1>1. \A q \in Threads : map[q] = m /\ pc[q] \in {"acquire", "clear"} =>
            locked[m] = q
    BY PlacedType DEF PlacedAt
  <1>2. Share(t, m) > 0 /\ m \in Objects
    BY DEF Share, Updaters, ObjectConstants
  <1> QED
    BY <1>1, <1>2, HeldIsLive, Zenon DEF InTransition

\* What ebpf_object_release_id_reference does to the entry of o.
LEMMA ReleaseIdEffect ==
  ASSUME NEW o \in Objects, entry_references \in [Objects -> Nat],
         in_table \in [Objects -> BOOLEAN], entry_references[o] > 0, in_table[o],
         ReleaseId(o)
  PROVE  /\ entry_references' \in [Objects -> Nat]
         /\ in_table' \in [Objects -> BOOLEAN]
         /\ entry_references'[o] = entry_references[o] - 1
         /\ in_table'[o] <=> entry_references[o] # 1
         /\ \A x \in Objects : x # o => /\ entry_references'[x] = entry_references[x]
                                        /\ in_table'[x] = in_table[x]
  <1>1. /\ entry_references' = [entry_references EXCEPT ![o] = @ - 1]
        /\ in_table' = [in_table EXCEPT ![o] = @ /\ entry_references[o] # 1]
    BY DEF ReleaseId
  <1>2. /\ entry_references' \in [Objects -> Nat]
        /\ entry_references'[o] = entry_references[o] - 1
        /\ \A x \in Objects : x # o => entry_references'[x] = entry_references[x]
    BY <1>1
  <1> DEFINE more == in_table[o] /\ entry_references[o] # 1
  <1>3. more \in BOOLEAN /\ (more <=> entry_references[o] # 1)
    OBVIOUS
  <1>4. in_table' = [in_table EXCEPT ![o] = more]
    BY <1>1
  <1> HIDE DEF more
  <1>5. /\ in_table' \in [Objects -> BOOLEAN] /\ in_table'[o] = more
        /\ \A x \in Objects : x # o => in_table'[x] = in_table[x]
    BY <1>3, <1>4
  <1> QED
    BY <1>2, <1>3, <1>5, Zenon

\* The id of the old value is released under the map's lock.
LEMMA ReleaseOldInv ==
  ASSUME Counting, ObjectConstants, ObjectIInv, NEW t \in Threads,
         StoreReleaseOld(t) \/ DeleteReleaseOld(t)
  PROVE  ObjectIInv'
  <1>1. PICK m \in Maps : m = map[t]
    BY PlacedType, Zenon DEF StoreReleaseOld, DeleteReleaseOld, PlacedAt
  <1>2. /\ \/ pc[t] = "store" /\ pc' = [pc EXCEPT ![t] = "acquire"]
           \/ pc[t] = "erase" /\ pc' = [pc EXCEPT ![t] = "clear"]
        /\ ReleaseOldId(t, m) /\ PlacedAt(t)
        /\ UNCHANGED <<phase, counts, pins, slot, stored, obj, map, waiters>>
    BY <1>1, PlacedType, Zenon DEF StoreReleaseOld, DeleteReleaseOld, Goto
  <1>3. /\ locked[m] = None /\ locked' = [locked EXCEPT ![m] = t]
        /\ UNCHANGED <<id, next_id, entry_object>>
        /\ \/ slot[m] = NoId /\ UNCHANGED <<entry_references, in_table>>
           \/ slot[m] # NoId /\ \E o \in Owner(slot[m]) : ReleaseId(o)
    BY <1>2, Zenon DEF ReleaseOldId
  <1>4. /\ pc' \in [Threads -> PCs] /\ locked' \in [Maps -> Threads \cup {None}]
        /\ \/ pc[t] = "store" /\ pc'[t] = "acquire"
           \/ pc[t] = "erase" /\ pc'[t] = "clear"
        /\ OnlyThread(t) /\ locked'[m] = t
        /\ \A n \in Maps : n # m => locked'[n] = locked[n]
    BY <1>2, <1>3, ThreadTypes, TableTypes DEF PCs, OnlyThread
  <1>5. /\ ~InTransition(m) /\ InTransition(m)'
        /\ \A n \in Maps : n # m => (InTransition(n)' <=> InTransition(n))
    <2>1. ~InTransition(m)
      BY <1>3, OneUpdate DEF InTransition, ObjectConstants
    <2> QED
      BY <1>1, <1>2, <1>4, <2>1, Zenon DEF InTransition, OnlyThread
  <1>6. /\ \A o \in Objects : TornDownBy(o)' = TornDownBy(o)
        /\ \A o \in Objects : \A q \in TornDownBy(o) : pc'[q] = pc[q]
        /\ \A o \in Objects : HoldsOwnId(o)' <=> HoldsOwnId(o)
    BY <1>2, <1>4, Zenon DEF TornDownBy, HoldsOwnId, OnlyThread
  <1>7. /\ \A o \in Objects : \A n \in Maps : n # m =>
               (n \in Keepers(o)' <=> n \in Keepers(o))
        /\ \A o \in Objects : m \notin Keepers(o)'
    BY <1>2, <1>5, Zenon DEF Keepers
  <1>8. /\ entry_references' \in [Objects -> Nat] /\ in_table' \in [Objects -> BOOLEAN]
        /\ \A o \in Objects : IdAt(o)'
        /\ \A o \in Objects : in_table'[o] => in_table[o]
    <2>1. CASE slot[m] = NoId
      <3>1. /\ stored[m] = None /\ UNCHANGED <<entry_references, in_table>>
        BY <1>3, <2>1, Zenon DEF ObjectIInv, SlotsFit
      <3>2. \A o \in Objects : Keepers(o)' = Keepers(o)
        BY <1>7, <3>1 DEF Keepers, ObjectConstants
      <3> QED
        BY <1>6, <3>1, <3>2, IdKept, TableTypes, Zenon
    <2>2. CASE slot[m] # NoId
      <3>1. PICK o \in Objects : o = stored[m] /\ Owner(slot[m]) = {o}
                                 /\ m \in Keepers(o) /\ in_table[o]
        BY <1>5, <2>2, KeeperInTable, Zenon
      <3>2. /\ entry_references' = [entry_references EXCEPT ![o] = @ - 1]
            /\ in_table' = [in_table EXCEPT ![o] = @ /\ entry_references[o] # 1]
        BY <1>3, <2>2, <3>1, Zenon DEF ReleaseId
      <3>3. /\ IdAt(o) /\ entry_references[o] \in Nat /\ entry_references[o] > 0
            /\ entry_references \in [Objects -> Nat]
            /\ in_table \in [Objects -> BOOLEAN]
        BY <3>1, AtObject, TableTypes, Zenon DEF IdAt
      <3>4. /\ entry_references' \in [Objects -> Nat]
            /\ in_table' \in [Objects -> BOOLEAN]
            /\ entry_references'[o] = entry_references[o] - 1
            /\ in_table'[o] <=> entry_references[o] # 1
            /\ \A x \in Objects : x # o => /\ entry_references'[x] = entry_references[x]
                                           /\ in_table'[x] = in_table[x]
        BY <3>1, <3>2, <3>3, ReleaseIdEffect, Zenon DEF ReleaseId
      <3>5. IdAt(o)'
        <4>1. /\ Cardinality(Keepers(o)) \in Nat /\ Cardinality(Keepers(o)') \in Nat
              /\ Cardinality(Keepers(o)') + 1 = Cardinality(Keepers(o))
          BY <1>7, <3>1, KeepersStep
        <4> QED
          BY <1>6, <3>3, <3>4, <4>1 DEF IdAt
      <3>6. ASSUME NEW x \in Objects, x # o
            PROVE  IdAt(x)'
        <4>1. Keepers(x)' = Keepers(x)
          BY <1>7, <3>1, <3>6 DEF Keepers
        <4> QED
          BY <1>6, <3>4, <3>6, <4>1, IdKept, Zenon
      <3> QED
        BY <3>1, <3>4, <3>5, <3>6, Zenon
    <2> QED
      BY <2>1, <2>2, Zenon
  <1>9. TypeOK' /\ IdsValid' /\ SlotsFit'
    <2>1. TypeOK'
      BY <1>2, <1>3, <1>4, <1>8, Zenon DEF ObjectIInv, TypeOK, counts, pins
    <2>2. IdsValid'
      BY <1>3, <1>8, IdsShrink, Zenon
    <2> QED
      BY <1>2, <1>3, <2>1, <2>2, Zenon DEF ObjectIInv, SlotsFit
  <1>10. \A o \in Objects : PhaseAt(o)'
    BY <1>2, <1>3, <1>6, PhaseKept, Zenon DEF counts
  <1>11. /\ \A o \in Objects : Share(t, o)' = Share(t, o)
         /\ PlacedAt(t)' /\ BorrowedAt(t)' /\ StaysReachable(t)
    BY <1>1, <1>2, <1>4, Zenon DEF Share, Holders, Pinners, Updaters, ObjectConstants,
       PlacedAt, BorrowedAt, StaysReachable, Reachable
  <1>12. \A n \in Maps : \A q \in Threads : q # t =>
             (locked'[n] = q <=> locked[n] = q)
    BY <1>3, <1>4 DEF ObjectConstants
  <1>13. next_id' \notin {NoId, IdMax} /\ UNCHANGED <<pins, reference_count, handles>>
         /\ pc[t] # "unpinned" /\ pc'[t] # "unpinned"
    BY <1>2, <1>3, <1>4, Zenon DEF ObjectIInv, counts
  <1> QED
    BY <1>4, <1>8, <1>9, <1>10, <1>11, <1>12, <1>13, ThreadInv

\* The new value's id is acquired and stored.
LEMMA StoreNewInv ==
  ASSUME Counting, ObjectConstants, ObjectIInv, NEW t \in Threads, StoreNew(t)
  PROVE  ObjectIInv'
  <1>1. PICK m \in Maps, o \in Objects : m = map[t] /\ o = obj[t]
    BY PlacedType, Zenon DEF StoreNew, PlacedAt
  <1>2. /\ pc[t] = "acquire" /\ pc' = [pc EXCEPT ![t] = "release"]
        /\ entry_references' = [entry_references EXCEPT ![o] = @ + 1]
        /\ slot' = [slot EXCEPT ![m] = id[o]] /\ stored' = [stored EXCEPT ![m] = o]
        /\ UNCHANGED <<phase, counts, id, next_id, entry_object, in_table, pins,
                       locked, obj, map, waiters>>
        /\ PlacedAt(t)
    BY <1>1, PlacedType, Zenon DEF StoreNew, Goto
  <1>3. /\ phase[o] = "live" /\ phase[m] = "live" /\ locked[m] = t
        /\ InTransition(m) /\ o # None
        /\ \A q \in Threads : map[q] = m /\ pc[q] \in {"acquire", "clear"} => q = t
    <2>1. Share(t, o) > 0
      BY <1>1, <1>2 DEF Share, Holders
    <2> QED
      BY <1>1, <1>2, <2>1, HeldIsLive, OneUpdate, Zenon DEF ObjectConstants
  <1>4. /\ pc' \in [Threads -> PCs] /\ pc'[t] = "release" /\ OnlyThread(t)
        /\ entry_references' \in [Objects -> Nat] /\ slot' \in [Maps -> Ids]
        /\ stored' \in [Maps -> Objects \cup {None}]
        /\ slot'[m] = id[o] /\ stored'[m] = o
        /\ \A n \in Maps : n # m => slot'[n] = slot[n] /\ stored'[n] = stored[n]
        /\ entry_references'[o] = entry_references[o] + 1
        /\ \A x \in Objects : x # o => entry_references'[x] = entry_references[x]
    BY <1>2, ThreadTypes, TableTypes DEF PCs, OnlyThread
  <1>5. TypeOK'
    BY <1>2, <1>4, Zenon DEF ObjectIInv, TypeOK, counts, pins
  <1>6. /\ ~InTransition(m)'
        /\ \A n \in Maps : n # m => (InTransition(n)' <=> InTransition(n))
    BY <1>1, <1>2, <1>3, <1>4 DEF InTransition, OnlyThread
  <1>7. /\ \A x \in Objects : TornDownBy(x)' = TornDownBy(x)
        /\ \A x \in Objects : \A q \in TornDownBy(x) : pc'[q] = pc[q]
        /\ \A x \in Objects : HoldsOwnId(x)' <=> HoldsOwnId(x)
    BY <1>2, <1>4, Zenon DEF TornDownBy, HoldsOwnId, OnlyThread
  <1>8. /\ \A x \in Objects : \A n \in Maps : n # m =>
               (n \in Keepers(x)' <=> n \in Keepers(x))
        /\ \A x \in Objects : m \notin Keepers(x)
        /\ \A x \in Objects : m \in Keepers(x)' <=> x = o
    BY <1>2, <1>3, <1>4, <1>6, Zenon DEF Keepers
  <1>9. /\ IdAt(o) /\ entry_references[o] \in Nat /\ entry_references[o] > 0
        /\ in_table[o] /\ id[o] # NoId
    <2>1. HoldsOwnId(o)
      BY <1>3 DEF HoldsOwnId
    <2>2. IdAt(o) /\ entry_references[o] \in Nat /\ Cardinality(Keepers(o)) \in Nat
      BY AtObject, KeepersType
    <2>3. entry_references[o] > 0 /\ in_table[o]
      BY <2>1, <2>2 DEF IdAt
    <2> QED
      BY <2>2, <2>3, Zenon DEF ObjectIInv, IdsValid
  <1>10. \A x \in Objects : IdAt(x)'
    <2>1. IdAt(o)'
      <3>1. /\ Cardinality(Keepers(o)) \in Nat /\ Cardinality(Keepers(o)') \in Nat
            /\ Cardinality(Keepers(o)') = Cardinality(Keepers(o)) + 1
        BY <1>8, KeepersStep
      <3> QED
        BY <1>2, <1>4, <1>7, <1>9, <3>1 DEF IdAt
    <2>2. ASSUME NEW x \in Objects, x # o
          PROVE  IdAt(x)'
      <3>1. Keepers(x)' = Keepers(x)
        BY <1>8, <2>2 DEF Keepers
      <3> QED
        BY <1>2, <1>4, <1>7, <2>2, <3>1, IdKept, Zenon
    <2> QED
      BY <2>1, <2>2
  <1>11. \A x \in Objects : PhaseAt(x)'
    BY <1>2, <1>3, <1>4, <1>7, PhaseKept, Zenon DEF counts
  <1>12. IdsValid' /\ SlotsFit'
    <2>1. IdsValid'
      BY <1>2, IdsShrink, Zenon
    <2>2. SlotsFit'
      BY <1>2, <1>3, <1>4, <1>9 DEF ObjectIInv, SlotsFit
    <2> QED
      BY <2>1, <2>2
  <1>13. /\ \A x \in Objects : Share(t, x)' = Share(t, x)
         /\ PlacedAt(t)' /\ BorrowedAt(t)' /\ StaysReachable(t)
    BY <1>1, <1>2, <1>4, Zenon DEF Share, Holders, Pinners, Updaters, ObjectConstants,
       PlacedAt, BorrowedAt, StaysReachable, Reachable
  <1>14. next_id' \notin {NoId, IdMax} /\ UNCHANGED <<pins, reference_count, handles>>
         /\ pc[t] # "unpinned" /\ pc'[t] # "unpinned"
    BY <1>2, <1>4, Zenon DEF ObjectIInv, counts
  <1> QED
    BY <1>2, <1>4, <1>5, <1>10, <1>11, <1>12, <1>13, <1>14, ThreadInv, Zenon

\* What Dropped does when the thread has updated map m.
LEMMA DroppedMap ==
  ASSUME Counting, ObjectConstants, ObjectIInv, NEW t \in Threads, NEW m \in Maps,
         m = map[t], pc[t] \notin {"store", "erase", "peek", "using"},
         pc' = [pc EXCEPT ![t] = "release"], obj' = [obj EXCEPT ![t] = m],
         map' = [map EXCEPT ![t] = None], locked' = [locked EXCEPT ![m] = None]
  PROVE  /\ pc' \in [Threads -> PCs] /\ obj' \in [Threads -> Objects \cup {None}]
         /\ map' \in [Threads -> Maps \cup {None}]
         /\ locked' \in [Maps -> Threads \cup {None}]
         /\ pc'[t] = "release" /\ obj'[t] = m /\ map'[t] = None /\ OnlyThread(t)
         /\ PlacedAt(t)' /\ BorrowedAt(t)' /\ m # None
         /\ \A n \in Maps : \A q \in Threads : q # t =>
                (locked'[n] = q <=> locked[n] = q)
  <1>1. PlacedAt(t) /\ locked[m] = t
    BY PlacedType, Zenon DEF PlacedAt
  <1>2. /\ pc' \in [Threads -> PCs] /\ obj' \in [Threads -> Objects \cup {None}]
        /\ map' \in [Threads -> Maps \cup {None}]
        /\ locked' \in [Maps -> Threads \cup {None}]
        /\ pc'[t] = "release" /\ obj'[t] = m /\ map'[t] = None /\ OnlyThread(t)
        /\ locked'[m] = None /\ \A n \in Maps : n # m => locked'[n] = locked[n]
        /\ m # None
    BY DEF ObjectIInv, TypeOK, PCs, OnlyThread, ObjectConstants
  <1>3. PlacedAt(t)' /\ BorrowedAt(t)'
    BY <1>1, <1>2 DEF PlacedAt, BorrowedAt, ObjectConstants
  <1>4. \A n \in Maps : \A q \in Threads : q # t =>
             (locked'[n] = q <=> locked[n] = q)
    BY <1>1, <1>2 DEF ObjectConstants
  <1> QED
    BY <1>2, <1>3, <1>4, Zenon

\* The slot is cleared and the map unlocked.
LEMMA DeleteClearInv ==
  ASSUME Counting, ObjectConstants, ObjectIInv, NEW t \in Threads, DeleteClear(t)
  PROVE  ObjectIInv'
  <1>1. PICK m \in Maps : m = map[t]
    BY PlacedType, Zenon DEF DeleteClear, PlacedAt
  <1>2. /\ pc[t] = "clear" /\ pc' = [pc EXCEPT ![t] = "release"]
        /\ slot' = [slot EXCEPT ![m] = NoId] /\ stored' = [stored EXCEPT ![m] = None]
        /\ obj' = [obj EXCEPT ![t] = m] /\ map' = [map EXCEPT ![t] = None]
        /\ locked' = [locked EXCEPT ![m] = None]
        /\ UNCHANGED <<phase, counts, entries, pins, waiters>>
        /\ obj[t] = None
    BY <1>1, PlacedType, Zenon DEF DeleteClear, Dropped, Goto, PlacedAt
  <1>3. /\ pc' \in [Threads -> PCs] /\ obj' \in [Threads -> Objects \cup {None}]
        /\ map' \in [Threads -> Maps \cup {None}]
        /\ locked' \in [Maps -> Threads \cup {None}]
        /\ pc'[t] = "release" /\ obj'[t] = m /\ map'[t] = None /\ OnlyThread(t)
        /\ PlacedAt(t)' /\ BorrowedAt(t)' /\ m # None
        /\ \A n \in Maps : \A q \in Threads : q # t =>
               (locked'[n] = q <=> locked[n] = q)
    BY <1>1, <1>2, DroppedMap, Zenon
  <1>4. /\ slot' \in [Maps -> Ids] /\ stored' \in [Maps -> Objects \cup {None}]
        /\ slot'[m] = NoId /\ stored'[m] = None
        /\ \A n \in Maps : n # m => slot'[n] = slot[n] /\ stored'[n] = stored[n]
    BY <1>2, TableTypes DEF ObjectConstants, Ids, NoId
  <1>5. TypeOK'
    BY <1>2, <1>3, <1>4, Zenon DEF ObjectIInv, TypeOK, counts, pins, entries
  <1>6. /\ InTransition(m)
        /\ \A n \in Maps : n # m => (InTransition(n)' <=> InTransition(n))
    BY <1>1, <1>2, <1>3 DEF InTransition, OnlyThread
  <1>7. /\ \A x \in Objects : TornDownBy(x)' = TornDownBy(x)
        /\ \A x \in Objects : \A q \in TornDownBy(x) : pc'[q] = pc[q]
        /\ \A x \in Objects : HoldsOwnId(x)' <=> HoldsOwnId(x)
    BY <1>2, <1>3 DEF TornDownBy, HoldsOwnId, OnlyThread
  <1>8. \A x \in Objects : Keepers(x)' = Keepers(x)
    BY <1>2, <1>4, <1>6 DEF Keepers, ObjectConstants
  <1>9. \A x \in Objects : PhaseAt(x)' /\ IdAt(x)'
    <2>1. \A x \in Objects : IdAt(x)'
      BY <1>2, <1>7, <1>8, IdKept, Zenon DEF entries
    <2>2. \A x \in Objects : \A n \in Maps : stored'[n] = x => stored[n] = x
      BY <1>4, Zenon DEF ObjectConstants
    <2>3. \A x \in Objects : PhaseAt(x)'
      BY <1>2, <1>7, <2>2, PhaseKept, Zenon DEF counts, entries
    <2> QED
      BY <2>1, <2>3
  <1>10. IdsValid' /\ SlotsFit'
    <2>1. IdsValid'
      BY <1>2, IdsShrink, Zenon DEF entries
    <2>2. SlotsFit'
      BY <1>2, <1>4, Zenon DEF ObjectIInv, SlotsFit, entries
    <2> QED
      BY <2>1, <2>2
  <1>11. /\ \A x \in Objects : Share(t, x)' = Share(t, x)
         /\ StaysReachable(t)
    BY <1>1, <1>2, <1>3 DEF Share, Holders, Pinners, Updaters, ObjectConstants,
       StaysReachable, Reachable
  <1>12. next_id' \notin {NoId, IdMax} /\ UNCHANGED <<pins, reference_count, handles>>
         /\ pc[t] # "unpinned" /\ pc'[t] # "unpinned"
    BY <1>2, <1>3, Zenon DEF ObjectIInv, counts, entries
  <1> QED
    BY <1>3, <1>5, <1>9, <1>10, <1>11, <1>12, ThreadInv, Zenon

-----------------------------------------------------------------------------
(* The release of a reference.                                             *)

\* The share of a thread at "release" or taking its object apart.
LEMMA ReleaseShare ==
  ASSUME Counting, ObjectConstants, ObjectIInv, NEW t \in Threads,
         pc[t] \in {"release", "remove", "remove_id", "zero"}
  PROVE  /\ obj[t] \in Objects /\ PlacedAt(t)
         /\ \A x \in Objects :
               Share(t, x) = (IF x = obj[t] /\ pc[t] = "release" THEN 1 ELSE 0)
                                + (IF x = map[t] THEN 1 ELSE 0)
  BY PlacedType DEF PlacedAt, Share, Holders, Pinners, Updaters

\* A release that leaves other references (ebpf_object_release_reference).
LEMMA ReleaseNotLastInv ==
  ASSUME Counting, ObjectConstants, ObjectIInv, NEW t \in Threads, ReleaseReference(t),
         reference_count[obj[t]] # 1
  PROVE  ObjectIInv'
  <1>1. PICK o \in Objects : o = obj[t]
    BY ReleaseShare, Zenon DEF ReleaseReference
  <1>2. /\ pc[t] = "release" /\ reference_count' = [reference_count EXCEPT ![o] = @ - 1]
        /\ Dropped(t) /\ UNCHANGED <<phase, handles, entries, pins, slot, stored>>
    BY <1>1, Zenon DEF ReleaseReference
  <1>3. \A x \in Objects :
            Share(t, x) = (IF x = o THEN 1 ELSE 0) + (IF x = map[t] THEN 1 ELSE 0)
    BY <1>1, <1>2, ReleaseShare, Zenon
  <1>4. /\ reference_count \in [Objects -> Nat] /\ reference_count[o] \in Nat
        /\ reference_count[o] >= 2 /\ \A x \in Objects : handles[x] \in Nat
        /\ reference_count' \in [Objects -> Nat]
        /\ reference_count'[o] = reference_count[o] - 1
        /\ \A x \in Objects : x # o => reference_count'[x] = reference_count[x]
    <2>1. Share(t, o) >= 1 /\ Share(t, o) \in Nat /\ Share(t, o) =< reference_count[o]
      BY <1>3, HeldIsLive
    <2>2. /\ reference_count \in [Objects -> Nat] /\ reference_count[o] \in Nat
          /\ \A x \in Objects : handles[x] \in Nat
      BY HeldIsLive, CountTypes, Zenon
    <2>3. reference_count[o] >= 2
      BY <1>1, <2>1, <2>2
    <2> QED
      BY <1>2, <2>2, <2>3
  <1>5. /\ pc' \in [Threads -> PCs] /\ obj' \in [Threads -> Objects \cup {None}]
        /\ map' \in [Threads -> Maps \cup {None}]
        /\ locked' \in [Maps -> Threads \cup {None}]
        /\ waiters' \in [Objects -> SUBSET Threads]
        /\ pc'[t] \in {"idle", "release"} /\ OnlyThread(t) /\ PlacedAt(t)' /\ BorrowedAt(t)'
        /\ \A x \in Objects : Share(t, x)' = IF x = map[t] THEN 1 ELSE 0
        /\ \A x \in Objects : waiters[x] \subseteq waiters'[x] \cup {t}
        /\ \A n \in Maps : \A q \in Threads : q # t =>
               (locked'[n] = q <=> locked[n] = q)
    <2>1. CASE map[t] = None
      <3>1. Leave(t) /\ locked' = locked
        BY <1>2, <2>1, Zenon DEF Dropped
      <3>2. /\ pc' \in [Threads -> PCs] /\ obj' \in [Threads -> Objects \cup {None}]
            /\ map' \in [Threads -> Maps \cup {None}]
            /\ waiters' \in [Objects -> SUBSET Threads]
            /\ pc'[t] = "idle" /\ obj'[t] = None /\ map'[t] = None /\ OnlyThread(t)
            /\ \A x \in Objects : waiters[x] \subseteq waiters'[x] \cup {t}
        BY <3>1, ThreadTypes, Zenon DEF Leave, Goto, PCs, OnlyThread
      <3>3. \A x \in Objects : x # None
        BY DEF ObjectConstants
      <3>4. \A n \in Maps : locked[n] # t
        BY <1>2, <2>1, PlacedType DEF PlacedAt, ObjectConstants
      <3> QED
        BY <2>1, <3>1, <3>2, <3>3, <3>4, TableTypes DEF PlacedAt, BorrowedAt,
           Share, Holders, Pinners, Updaters, ObjectConstants
    <2>2. CASE map[t] # None
      <3>1. PICK m \in Maps : m = map[t]
        BY <2>2, PlacedType, Zenon
      <3>2. /\ locked' = [locked EXCEPT ![m] = None] /\ obj' = [obj EXCEPT ![t] = m]
            /\ map' = [map EXCEPT ![t] = None] /\ pc' = [pc EXCEPT ![t] = "release"]
            /\ waiters' = waiters
        BY <1>2, <2>2, <3>1, Zenon DEF Dropped, Goto
      <3>3. /\ pc' \in [Threads -> PCs] /\ obj' \in [Threads -> Objects \cup {None}]
            /\ map' \in [Threads -> Maps \cup {None}]
            /\ locked' \in [Maps -> Threads \cup {None}]
            /\ pc'[t] = "release" /\ obj'[t] = m /\ map'[t] = None /\ OnlyThread(t)
            /\ PlacedAt(t)' /\ BorrowedAt(t)' /\ m # None
            /\ \A n \in Maps : \A q \in Threads : q # t =>
                   (locked'[n] = q <=> locked[n] = q)
        BY <1>2, <3>1, <3>2, DroppedMap, Zenon
      <3>4. \A x \in Objects : Share(t, x)' = IF x = map[t] THEN 1 ELSE 0
        BY <3>1, <3>3 DEF Share, Holders, Pinners, Updaters, ObjectConstants
      <3> QED
        BY <3>2, <3>3, <3>4, ThreadTypes, Zenon
    <2> QED
      BY <2>1, <2>2, Zenon
  <1>6. TypeOK'
    BY <1>2, <1>4, <1>5, Zenon DEF ObjectIInv, TypeOK, entries, pins
  <1>7. \A x \in Objects : reference_count'[x] + handles[x] + Share(t, x)
                             = reference_count[x] + handles'[x] + Share(t, x)'
    BY <1>2, <1>3, <1>4, <1>5, Z3
  <1>8. CountsFit(t) /\ PathsFit(t)
    BY <1>2, <1>5, <1>6, <1>7, SamePins, Zenon
  <1>9. \A x \in Objects : reference_count'[x] > 0 <=> reference_count[x] > 0
    BY <1>4
  <1>10. /\ UNCHANGED <<phase, id, entry_references, entry_object, in_table, slot, stored>>
         /\ next_id' \notin {NoId, IdMax} /\ Aside(t) /\ Aside(t)'
    BY <1>2, <1>5, Zenon DEF ObjectIInv, entries, Aside, Tearing
  <1> QED
    BY <1>5, <1>6, <1>8, <1>9, <1>10, LocalStep, Zenon

\* The last reference is dropped: the thread starts to take its object apart.
LEMMA ReleaseLastInv ==
  ASSUME Counting, ObjectConstants, ObjectIInv, NEW t \in Threads, ReleaseReference(t),
         reference_count[obj[t]] = 1
  PROVE  ObjectIInv'
  <1>1. PICK o \in Objects : o = obj[t]
    BY ReleaseShare, Zenon DEF ReleaseReference
  <1>2. /\ pc[t] = "release" /\ pc' = [pc EXCEPT ![t] = "remove"]
        /\ reference_count' = [reference_count EXCEPT ![o] = @ - 1]
        /\ phase' = [phase EXCEPT ![o] = "zero"]
        /\ UNCHANGED <<handles, entries, pins, slot, stored, locked, obj, map, waiters>>
    BY <1>1, Zenon DEF ReleaseReference, Goto
  <1>3. /\ reference_count' \in [Objects -> Nat] /\ reference_count'[o] = 0
        /\ \A x \in Objects : x # o => reference_count'[x] = reference_count[x]
        /\ phase' \in [Objects -> {"none", "live", "zero", "scheduled", "freed"}]
        /\ phase'[o] = "zero" /\ \A x \in Objects : x # o => phase'[x] = phase[x]
        /\ pc' \in [Threads -> PCs] /\ pc'[t] = "remove" /\ OnlyThread(t)
        /\ \A x \in Objects : reference_count[x] \in Nat /\ handles[x] \in Nat
        /\ reference_count[o] = 1
    <2>1. \A x \in Objects : reference_count[x] \in Nat /\ handles[x] \in Nat
      BY HeldIsLive, Zenon
    <2> QED
      BY <1>1, <1>2, <2>1, ThreadTypes, TableTypes, CountTypes DEF PCs,
         OnlyThread
  <1>4. TypeOK'
    BY <1>2, <1>3, Zenon DEF ObjectIInv, TypeOK, entries, pins
  <1>5. /\ Share(t, o) = 1 /\ Share(t, o)' = 0 /\ phase[o] = "live" /\ map[t] # o
        /\ \A x \in Objects : x # o => Share(t, x)' = Share(t, x) /\ Share(t, x) \in Nat
    <2>1. Share(t, o) =< 1 /\ phase[o] = "live"
      BY <1>1, <1>2, <1>3, HeldIsLive
    <2>2. \A x \in Objects :
              Share(t, x) = (IF x = o THEN 1 ELSE 0) + (IF x = map[t] THEN 1 ELSE 0)
      BY <1>1, <1>2, ReleaseShare, Zenon
    <2>3. map[t] # o /\ Share(t, o) = 1
      BY <2>1, <2>2
    <2> QED
      BY <1>1, <1>2, <1>3, <2>1, <2>2, <2>3 DEF Share, Holders, Pinners, Updaters
  <1>6. \A x \in Objects : reference_count'[x] + handles[x] + Share(t, x)
                             = reference_count[x] + handles'[x] + Share(t, x)'
    BY <1>2, <1>3, <1>5, Z3
  <1>7. /\ TornDownBy(o)' = {t}
        /\ \A x \in Objects : x # o => TornDownBy(x)' = TornDownBy(x)
        /\ \A x \in Objects : x # o => \A q \in TornDownBy(x) : pc'[q] = pc[q]
    <2>1. TornDownBy(o) = {}
      BY <1>5, AtObject, Zenon DEF PhaseAt
    <2> QED
      BY <1>1, <1>2, <1>3, <2>1 DEF TornDownBy, OnlyThread
  <1>8. \A x \in Objects : HoldsOwnId(x)' <=> HoldsOwnId(x)
    BY <1>1, <1>2, <1>3, <1>5 DEF HoldsOwnId, OnlyThread
  <1>9. \A x \in Objects : Keepers(x)' = Keepers(x)
    <2>1. \A n \in Maps : InTransition(n)' <=> InTransition(n)
      BY <1>2, <1>3, Zenon DEF InTransition, OnlyThread
    <2> QED
      BY <1>2, <1>3, <1>5, <2>1, Zenon DEF Keepers, ObjectConstants
  <1>10. \A x \in Objects : PhaseAt(x)' /\ IdAt(x)'
    <2>1. \A x \in Objects : IdAt(x)'
      BY <1>2, <1>8, <1>9, IdKept, Zenon DEF entries
    <2>2. PhaseAt(o)'
      BY <1>3, <1>7 DEF PhaseAt
    <2>3. ASSUME NEW x \in Objects, x # o
          PROVE  PhaseAt(x)'
      BY <1>2, <1>3, <1>7, <2>3, PhaseKept, Zenon DEF entries
    <2> QED
      BY <2>1, <2>2, <2>3
  <1>11. IdsValid' /\ SlotsFit'
    <2>1. IdsValid'
      BY <1>2, IdsShrink, Zenon DEF entries
    <2>2. SlotsFit'
      BY <1>2, <1>3, <1>5, Zenon DEF ObjectIInv, SlotsFit, entries, ObjectConstants
    <2> QED
      BY <2>1, <2>2
  <1>12. PlacedAt(t)' /\ BorrowedAt(t)' /\ StaysReachable(t)
    <2>1. PlacedAt(t)
      BY PlacedType, Zenon
    <2>2. PlacedAt(t)' /\ BorrowedAt(t)'
      BY <1>2, <1>3, <2>1, Zenon DEF PlacedAt, BorrowedAt
    <2>3. StaysReachable(t)
      BY <1>2, <1>3, Zenon DEF StaysReachable, Reachable
    <2> QED
      BY <2>2, <2>3
  <1>13. next_id' \notin {NoId, IdMax} /\ UNCHANGED <<pins, locked>>
         /\ pc[t] # "unpinned" /\ pc'[t] # "unpinned"
    BY <1>2, <1>3, Zenon DEF ObjectIInv, entries
  <1> QED
    BY <1>3, <1>4, <1>6, <1>10, <1>11, <1>12, <1>13, ThreadInv, Zenon

\* A thread that takes its object apart does so alone.
LEMMA TearingAlone ==
  ASSUME Counting, ObjectConstants, ObjectIInv, NEW t \in Threads, pc[t] \in Tearing
  PROVE  /\ obj[t] \in Objects /\ TornDownBy(obj[t]) = {t} /\ phase[obj[t]] = "zero"
         /\ reference_count[obj[t]] = 0
  <1>1. obj[t] \in Objects
    BY PlacedType, Zenon DEF PlacedAt, Tearing
  <1>2. t \in TornDownBy(obj[t])
    BY <1>1 DEF TornDownBy, Tearing
  <1> QED
    BY <1>1, <1>2, AtObject DEF PhaseAt

\* The entry's object pointer is cleared.
LEMMA ListRemoveInv ==
  ASSUME Counting, ObjectConstants, ObjectIInv, NEW t \in Threads, ListRemove(t)
  PROVE  ObjectIInv'
  <1>1. PICK o \in Objects : o = obj[t] /\ TornDownBy(o) = {t} /\ phase[o] = "zero"
    BY TearingAlone, Zenon DEF ListRemove, Tearing
  <1>2. /\ pc[t] = "remove" /\ pc' = [pc EXCEPT ![t] = "remove_id"]
        /\ entry_object' = [entry_object EXCEPT ![o] = FALSE]
        /\ UNCHANGED <<phase, counts, id, next_id, entry_references, in_table, pins,
                       slots, obj, map, waiters>>
    BY <1>1, Zenon DEF ListRemove, Goto
  <1>3. /\ pc' \in [Threads -> PCs] /\ pc'[t] = "remove_id" /\ OnlyThread(t)
        /\ entry_object' \in [Objects -> BOOLEAN] /\ entry_object'[o] = FALSE
        /\ \A x \in Objects : x # o => entry_object'[x] = entry_object[x]
    BY <1>2, ThreadTypes, TableTypes, Zenon DEF PCs, OnlyThread
  <1>4. TypeOK'
    BY <1>2, <1>3, Zenon DEF ObjectIInv, TypeOK, counts, pins, slots
  <1>5. /\ \A x \in Objects : TornDownBy(x)' = TornDownBy(x)
        /\ \A x \in Objects : x # o => \A q \in TornDownBy(x) : pc'[q] = pc[q]
        /\ \A x \in Objects : HoldsOwnId(x)' <=> HoldsOwnId(x)
        /\ \A n \in Maps : InTransition(n)' <=> InTransition(n)
    BY <1>1, <1>2, <1>3 DEF TornDownBy, HoldsOwnId, InTransition, OnlyThread
  <1>6. \A x \in Objects : Keepers(x)' = Keepers(x)
    BY <1>2, <1>5, Zenon DEF Keepers, slots
  <1>7. \A x \in Objects : PhaseAt(x)' /\ IdAt(x)'
    <2>1. \A x \in Objects : IdAt(x)'
      BY <1>2, <1>5, <1>6, IdKept, Zenon
    <2>2. PhaseAt(o)'
      <3>1. PhaseAt(o)
        BY AtObject
      <3> QED
        BY <1>2, <1>3, <1>5, <3>1 DEF PhaseAt, counts, slots
    <2>3. ASSUME NEW x \in Objects, x # o
          PROVE  PhaseAt(x)'
      BY <1>2, <1>3, <1>5, <2>3, PhaseKept, Zenon DEF counts, slots
    <2> QED
      BY <2>1, <2>2, <2>3
  <1>8. IdsValid' /\ SlotsFit'
    <2>1. IdsValid'
      BY <1>2, IdsShrink, Zenon
    <2>2. SlotsFit'
      BY <1>2, Zenon DEF ObjectIInv, SlotsFit, slots
    <2> QED
      BY <2>1, <2>2
  <1>9. /\ PlacedAt(t)' /\ BorrowedAt(t)' /\ StaysReachable(t)
        /\ \A x \in Objects : Share(t, x)' = Share(t, x)
    <2>1. PlacedAt(t)
      BY PlacedType
    <2> QED
      BY <1>2, <1>3, <2>1, Zenon DEF PlacedAt, BorrowedAt, StaysReachable, Reachable,
         slots, Share, Holders, Pinners, Updaters
  <1>10. next_id' \notin {NoId, IdMax} /\ UNCHANGED <<pins, locked, reference_count, handles>>
         /\ pc[t] # "unpinned" /\ pc'[t] # "unpinned"
    BY <1>2, <1>3, Zenon DEF ObjectIInv, counts, slots
  <1> QED
    BY <1>3, <1>4, <1>7, <1>8, <1>9, <1>10, ThreadInv, Zenon

\* The object's own reference on its id is released.
LEMMA ListRemoveIdInv ==
  ASSUME Counting, ObjectConstants, ObjectIInv, NEW t \in Threads, ListRemoveId(t)
  PROVE  ObjectIInv'
  <1>1. PICK o \in Objects : o = obj[t] /\ TornDownBy(o) = {t} /\ phase[o] = "zero"
    BY TearingAlone, Zenon DEF ListRemoveId, Tearing
  <1>2. /\ pc[t] = "remove_id" /\ pc' = [pc EXCEPT ![t] = "zero"] /\ ReleaseId(o)
        /\ UNCHANGED <<phase, counts, id, next_id, entry_object, pins, slots, obj,
                       map, waiters>>
    BY <1>1, Zenon DEF ListRemoveId, Goto
  <1>3. /\ pc' \in [Threads -> PCs] /\ pc'[t] = "zero" /\ OnlyThread(t)
    BY <1>2, ThreadTypes, Zenon DEF PCs, OnlyThread
  <1>4. /\ HoldsOwnId(o) /\ ~HoldsOwnId(o)'
        /\ \A x \in Objects : x # o => (HoldsOwnId(x)' <=> HoldsOwnId(x))
        /\ \A x \in Objects : TornDownBy(x)' = TornDownBy(x)
        /\ \A x \in Objects : x # o => \A q \in TornDownBy(x) : pc'[q] = pc[q]
        /\ \A n \in Maps : InTransition(n)' <=> InTransition(n)
    BY <1>1, <1>2, <1>3 DEF TornDownBy, HoldsOwnId, InTransition, OnlyThread
  <1>5. \A x \in Objects : /\ Keepers(x)' = Keepers(x)
                           /\ Cardinality(Keepers(x)) \in Nat
    BY <1>2, <1>4, KeepersType, Zenon DEF Keepers, slots
  <1>6. /\ IdAt(o) /\ entry_references[o] \in Nat /\ entry_references[o] > 0
        /\ in_table[o]
        /\ entry_references \in [Objects -> Nat] /\ in_table \in [Objects -> BOOLEAN]
    <2>1. IdAt(o) /\ entry_references[o] \in Nat
      BY AtObject
    <2> QED
      BY <1>4, <1>5, <2>1, TableTypes DEF IdAt
  <1>7. /\ entry_references' \in [Objects -> Nat]
        /\ in_table' \in [Objects -> BOOLEAN]
        /\ entry_references'[o] = entry_references[o] - 1
        /\ in_table'[o] <=> entry_references[o] # 1
        /\ \A x \in Objects : x # o => /\ entry_references'[x] = entry_references[x]
                                       /\ in_table'[x] = in_table[x]
    BY <1>2, <1>6, ReleaseIdEffect, Zenon
  <1>8. TypeOK'
    BY <1>2, <1>3, <1>7, Zenon DEF ObjectIInv, TypeOK, counts, pins, slots
  <1>9. \A x \in Objects : PhaseAt(x)' /\ IdAt(x)'
    <2>1. IdAt(o)'
      BY <1>4, <1>5, <1>6, <1>7 DEF IdAt
    <2>2. PhaseAt(o)'
      <3>1. PhaseAt(o) /\ ~entry_object[o]
        BY <1>1, <1>2, AtObject, Zenon DEF PhaseAt
      <3> QED
        BY <1>2, <1>4, <3>1, Zenon DEF PhaseAt, counts, slots
    <2>3. ASSUME NEW x \in Objects, x # o
          PROVE  PhaseAt(x)' /\ IdAt(x)'
      <3>1. PhaseAt(x)'
        BY <1>2, <1>4, <2>3, PhaseKept, Zenon DEF counts, slots
      <3>2. IdAt(x)'
        BY <1>4, <1>5, <1>7, <2>3, IdKept, Zenon
      <3> QED
        BY <3>1, <3>2
    <2> QED
      BY <2>1, <2>2, <2>3
  <1>10. IdsValid' /\ SlotsFit'
    <2>1. \A x \in Objects : in_table'[x] => in_table[x]
      BY <1>6, <1>7, Zenon
    <2>2. IdsValid'
      BY <1>2, <2>1, IdsShrink, Zenon
    <2>3. SlotsFit'
      BY <1>2, Zenon DEF ObjectIInv, SlotsFit, slots
    <2> QED
      BY <2>2, <2>3
  <1>11. /\ PlacedAt(t)' /\ BorrowedAt(t)' /\ StaysReachable(t)
         /\ \A x \in Objects : Share(t, x)' = Share(t, x)
    <2>1. PlacedAt(t)
      BY PlacedType
    <2> QED
      BY <1>2, <1>3, <2>1, Zenon DEF PlacedAt, BorrowedAt, StaysReachable, Reachable,
         slots, Share, Holders, Pinners, Updaters
  <1>12. next_id' \notin {NoId, IdMax} /\ UNCHANGED <<pins, locked, reference_count, handles>>
         /\ pc[t] # "unpinned" /\ pc'[t] # "unpinned"
    BY <1>2, <1>3, Zenon DEF ObjectIInv, counts, slots
  <1> QED
    BY <1>3, <1>8, <1>9, <1>10, <1>11, <1>12, ThreadInv, Zenon

\* The object's free work item is scheduled.
LEMMA ScheduleInv ==
  ASSUME Counting, ObjectConstants, ObjectIInv, NEW t \in Threads, Schedule(t)
  PROVE  ObjectIInv'
  <1>1. PICK o \in Objects : /\ o = obj[t] /\ TornDownBy(o) = {t} /\ phase[o] = "zero"
                             /\ reference_count[o] = 0
    BY TearingAlone, Zenon DEF Schedule, Tearing
  <1> DEFINE others == {s \in Threads : pc[s] # "idle"}
  <1>2. /\ pc[t] = "zero" /\ phase' = [phase EXCEPT ![o] = "scheduled"]
        /\ UNCHANGED <<counts, entries, pins, slot, stored>>
        /\ IF map[t] = None
           THEN /\ pc' = [pc EXCEPT ![t] = "idle"]
                /\ obj' = [obj EXCEPT ![t] = None]
                /\ waiters' = [x \in Objects |->
                       (IF x = o THEN others ELSE waiters[x]) \ {t}]
                /\ UNCHANGED <<map, locked>>
           ELSE /\ locked' = [locked EXCEPT ![map[t]] = None]
                /\ obj' = [obj EXCEPT ![t] = map[t]]
                /\ map' = [map EXCEPT ![t] = None]
                /\ pc' = [pc EXCEPT ![t] = "release"]
                /\ waiters' = [waiters EXCEPT ![o] = others]
    BY <1>1, Zenon DEF Schedule, Goto
  <1>3. \A x \in Objects : Share(t, x) = IF x = map[t] THEN 1 ELSE 0
    BY <1>2, ReleaseShare
  <1>4. /\ pc' \in [Threads -> PCs] /\ obj' \in [Threads -> Objects \cup {None}]
        /\ map' \in [Threads -> Maps \cup {None}]
        /\ locked' \in [Maps -> Threads \cup {None}]
        /\ waiters' \in [Objects -> SUBSET Threads]
        /\ pc'[t] \in {"idle", "release"} /\ OnlyThread(t) /\ PlacedAt(t)' /\ BorrowedAt(t)'
        /\ \A x \in Objects : Share(t, x)' = IF x = map[t] THEN 1 ELSE 0
        /\ \A x \in Objects : x # o => waiters[x] \subseteq waiters'[x] \cup {t}
        /\ others \subseteq waiters'[o] \cup {t}
        /\ \A n \in Maps : \A q \in Threads : q # t =>
               (locked'[n] = q <=> locked[n] = q)
    <2>1. CASE map[t] = None
      <3>1. /\ pc' \in [Threads -> PCs] /\ obj' \in [Threads -> Objects \cup {None}]
            /\ map' \in [Threads -> Maps \cup {None}] /\ locked' = locked
            /\ pc'[t] = "idle" /\ obj'[t] = None /\ map'[t] = None /\ OnlyThread(t)
        BY <1>2, <2>1, ThreadTypes DEF PCs, OnlyThread
      <3>2. /\ waiters' \in [Objects -> SUBSET Threads]
            /\ \A x \in Objects : x # o => waiters[x] \subseteq waiters'[x] \cup {t}
            /\ others \subseteq waiters'[o] \cup {t}
        <4>1. /\ waiters' = [x \in Objects |->
                    (IF x = o THEN others ELSE waiters[x]) \ {t}]
              /\ others \in SUBSET Threads /\ waiters \in [Objects -> SUBSET Threads]
          BY <1>2, <2>1, ThreadTypes, Zenon
        <4> HIDE DEF others
        <4>2. \A x \in Objects : waiters'[x] =
                  (IF x = o THEN others ELSE waiters[x]) \ {t}
          BY <4>1
        <4> QED
          BY <4>1, <4>2
      <3>3. \A x \in Objects : x # None
        BY DEF ObjectConstants
      <3>4. \A n \in Maps : locked[n] # t
        BY <1>2, <2>1, PlacedType DEF PlacedAt, ObjectConstants
      <3> QED
        BY <2>1, <3>1, <3>2, <3>3, <3>4, TableTypes DEF PlacedAt, BorrowedAt,
           Share, Holders, Pinners, Updaters, ObjectConstants
    <2>2. CASE map[t] # None
      <3>1. PICK m \in Maps : m = map[t]
        BY <2>2, PlacedType
      <3>2. /\ locked' = [locked EXCEPT ![m] = None] /\ obj' = [obj EXCEPT ![t] = m]
            /\ map' = [map EXCEPT ![t] = None] /\ pc' = [pc EXCEPT ![t] = "release"]
            /\ waiters' = [waiters EXCEPT ![o] = others]
        BY <1>2, <2>2, <3>1, Zenon
      <3>3. /\ pc' \in [Threads -> PCs] /\ obj' \in [Threads -> Objects \cup {None}]
            /\ map' \in [Threads -> Maps \cup {None}]
            /\ locked' \in [Maps -> Threads \cup {None}]
            /\ pc'[t] = "release" /\ obj'[t] = m /\ map'[t] = None /\ OnlyThread(t)
            /\ PlacedAt(t)' /\ BorrowedAt(t)' /\ m # None
            /\ \A n \in Maps : \A q \in Threads : q # t =>
                   (locked'[n] = q <=> locked[n] = q)
        BY <1>2, <3>1, <3>2, DroppedMap, Zenon
      <3>4. \A x \in Objects : Share(t, x)' = IF x = map[t] THEN 1 ELSE 0
        BY <3>1, <3>3 DEF Share, Holders, Pinners, Updaters, ObjectConstants
      <3>5. /\ waiters' \in [Objects -> SUBSET Threads] /\ waiters'[o] = others
            /\ \A x \in Objects : x # o => waiters'[x] = waiters[x]
        BY <3>2, ThreadTypes, Zenon
      <3> QED
        BY <3>3, <3>4, <3>5, Zenon
    <2> QED
      BY <2>1, <2>2, Zenon
  <1>5. /\ phase' \in [Objects -> {"none", "live", "zero", "scheduled", "freed"}]
        /\ phase'[o] = "scheduled" /\ \A x \in Objects : x # o => phase'[x] = phase[x]
    BY <1>2, CountTypes, Zenon
  <1>6. TypeOK'
    BY <1>2, <1>4, <1>5, Zenon DEF ObjectIInv, TypeOK, counts, entries, pins
  <1>7. /\ TornDownBy(o)' = {}
        /\ \A x \in Objects : x # o => TornDownBy(x)' = TornDownBy(x)
        /\ \A x \in Objects : x # o => \A q \in TornDownBy(x) : pc'[q] = pc[q]
        /\ \A n \in Maps : InTransition(n)' <=> InTransition(n)
    BY <1>1, <1>2, <1>4 DEF TornDownBy, InTransition, OnlyThread
  <1>8. \A x \in Objects : HoldsOwnId(x)' <=> HoldsOwnId(x)
    BY <1>1, <1>2, <1>4, <1>5 DEF TornDownBy, HoldsOwnId, OnlyThread
  <1>9. \A x \in Objects : Keepers(x)' = Keepers(x)
    BY <1>1, <1>2, <1>5, <1>7, Zenon DEF Keepers, ObjectConstants
  <1>10. \A x \in Objects : PhaseAt(x)' /\ IdAt(x)'
    <2>1. \A x \in Objects : IdAt(x)'
      BY <1>2, <1>8, <1>9, IdKept, Zenon DEF entries
    <2>2. PhaseAt(o)'
      <3>1. ~entry_object[o]
        BY <1>1, <1>2, AtObject, Zenon DEF PhaseAt
      <3> QED
        BY <1>1, <1>2, <1>5, <1>7, <3>1 DEF PhaseAt, counts, entries
    <2>3. ASSUME NEW x \in Objects, x # o
          PROVE  PhaseAt(x)'
      BY <1>2, <1>5, <1>7, <2>3, PhaseKept, Zenon DEF counts, entries
    <2> QED
      BY <2>1, <2>2, <2>3
  <1>11. IdsValid' /\ SlotsFit'
    <2>1. IdsValid'
      BY <1>2, IdsShrink, Zenon DEF entries
    <2>2. SlotsFit'
      BY <1>1, <1>2, <1>5, Zenon DEF ObjectIInv, SlotsFit, entries, ObjectConstants
    <2> QED
      BY <2>1, <2>2
  <1>12. StaysReachable(t)
    BY <1>4, <1>5 DEF StaysReachable, Reachable
  <1>13. /\ next_id' \notin {NoId, IdMax} /\ UNCHANGED <<pins, reference_count, handles>>
         /\ pc[t] # "unpinned" /\ pc'[t] # "unpinned"
         /\ \A x \in Objects : Share(t, x)' = Share(t, x)
    BY <1>2, <1>3, <1>4, Zenon DEF ObjectIInv, counts, entries
  <1> QED
    BY <1>4, <1>6, <1>10, <1>11, <1>12, <1>13, ThreadInv, Zenon
=============================================================================
