------------------------ MODULE LibraryServiceProofs ------------------------
(* What the operations of Library preserve, for every library and every    *)
(* capacity, and the safety of LibraryService for every set of items,      *)
(* callers and capacities.                                                 *)
EXTENDS LibraryService, FiniteSetTheorems, WellFoundedInduction, TLAPS

-----------------------------------------------------------------------------
(* The operations of Library *)

(* The two pools are finite and their counts are natural numbers.          *)
LEMMA PoolsFinite ==
    ASSUME NEW lib, IsLibrary(lib)
    PROVE  /\ IsFiniteSet(lockedItems(lib)) /\ lockedCount(lib) \in Nat
           /\ IsFiniteSet(swappableItems(lib)) /\ swappableCount(lib) \in Nat
<1>1. lockedItems(lib) \in SUBSET Item /\ swappableItems(lib) \in SUBSET Item
  BY DEF lockedItems, swappableItems, IsLibrary
<1>2. IsFiniteSet(lockedItems(lib)) /\ IsFiniteSet(swappableItems(lib))
  BY <1>1, FS_Subset, ItemAssumption
<1> QED BY <1>2, FS_CardinalityType DEF lockedCount, swappableCount

(* The library a device starts with is a library, and both pools are empty. *)
LEMMA EmptyLibraryIsLibrary ==
    /\ IsLibrary(EmptyLibrary)
    /\ DOMAIN EmptyLibrary = {}
    /\ lockedCount(EmptyLibrary) = 0 /\ swappableCount(EmptyLibrary) = 0
<1>1. DOMAIN EmptyLibrary = {} BY DEF EmptyLibrary
<1>2. IsLibrary(EmptyLibrary) BY <1>1 DEF IsLibrary, EmptyLibrary
<1>3. lockedItems(EmptyLibrary) = {} /\ swappableItems(EmptyLibrary) = {}
  BY <1>1 DEF lockedItems, swappableItems
<1> QED BY <1>1, <1>2, <1>3, FS_EmptySet DEF lockedCount, swappableCount

(* Removing items yields a library whose pools have not grown, and whose   *)
(* locked items are the ones that were not removed.                        *)
LEMMA WithoutShrinks ==
    ASSUME NEW lib, IsLibrary(lib), NEW items
    PROVE  /\ IsLibrary(Without(lib, items))
           /\ DOMAIN Without(lib, items) = DOMAIN lib \ items
           /\ lockedItems(Without(lib, items)) = lockedItems(lib) \ items
           /\ lockedCount(Without(lib, items)) <= lockedCount(lib)
           /\ swappableCount(Without(lib, items)) <= swappableCount(lib)
<1> DEFINE less == Without(lib, items)
<1>1. DOMAIN less = DOMAIN lib \ items BY DEF Without
<1>3. IsLibrary(less) BY <1>1 DEF IsLibrary, Without
<1>4. /\ lockedItems(less) = lockedItems(lib) \ items
      /\ swappableItems(less) = swappableItems(lib) \ items
  BY <1>1 DEF lockedItems, swappableItems, Without
<1>5. lockedCount(less) <= lockedCount(lib) /\ swappableCount(less) <= swappableCount(lib)
  BY <1>4, PoolsFinite, FS_Subset DEF lockedCount, swappableCount
<1> QED BY <1>1, <1>3, <1>4, <1>5

(* Adding items keeps the locked pool as it was, and either leaves the     *)
(* swappable pool alone or leaves it within the slots of the capacity.     *)
LEMMA AddAllFits ==
    ASSUME NEW lib, IsLibrary(lib), NEW items \in SUBSET Item,
           NEW priority \in Priority, NEW cap \in CapacityType
    PROVE  LET result == addAll(lib, items, priority, cap).library IN
           /\ IsLibrary(result)
           /\ DOMAIN result \subseteq DOMAIN lib \cup items
           /\ lockedItems(result) = lockedItems(lib)
           /\ \/ swappableCount(result) = swappableCount(lib)
              \/ swappableCount(result) <= cap.swappableSlots
<1> DEFINE new == items \ DOMAIN lib
           added == [i \in DOMAIN lib \cup new |->
                       IF i \in new THEN [locked |-> FALSE, priority |-> priority] ELSE lib[i]]
           full == swappableCount(lib) + Cardinality(new) > cap.swappableSlots
           result == addAll(lib, items, priority, cap).library
<1>1. CASE new # {} /\ (full \/ overBudget(DOMAIN lib \cup new, cap))
  <2>1. result = lib BY <1>1 DEF addAll, Rejected
  <2> QED BY <2>1 DEF addAll
<1>2. CASE ~(new # {} /\ (full \/ overBudget(DOMAIN lib \cup new, cap)))
  <2>1. result = added BY <1>2 DEF addAll, Ok
  <2>2. IsFiniteSet(new) /\ Cardinality(new) \in Nat
    BY FS_Subset, FS_CardinalityType, ItemAssumption
  <2>4. IsLibrary(added)
    BY DEF IsLibrary, Entry
  <2>5. lockedItems(added) = lockedItems(lib)
    BY DEF lockedItems
  <2>6. swappableItems(added) = swappableItems(lib) \cup new
    BY DEF swappableItems
  <2>7. swappableItems(lib) \cap new = {}
    BY DEF swappableItems
  <2>8. swappableCount(added) = swappableCount(lib) + Cardinality(new)
    <3>1. Cardinality(swappableItems(lib) \cup new) =
             Cardinality(swappableItems(lib)) + Cardinality(new)
               - Cardinality(swappableItems(lib) \cap new)
      BY <2>2, PoolsFinite, FS_Union
    <3>2. Cardinality(swappableItems(lib) \cap new) = 0
      BY <2>7, FS_EmptySet
    <3>3. Cardinality(swappableItems(lib)) \in Nat
      BY PoolsFinite DEF swappableCount
    <3>4. swappableCount(added) = Cardinality(swappableItems(lib) \cup new)
      BY <2>6 DEF swappableCount
    <3> HIDE DEF added, new
    <3> QED BY <3>1, <3>2, <3>3, <3>4, <2>2 DEF swappableCount
  <2>9. \/ swappableCount(added) = swappableCount(lib)
        \/ swappableCount(added) <= cap.swappableSlots
    <3>1. swappableCount(lib) \in Nat BY PoolsFinite
    <3>2. CASE new = {}
      <4>1. Cardinality(new) = 0 BY <3>2, FS_EmptySet
      <4> HIDE DEF added, new
      <4> QED BY <4>1, <3>1, <2>8
    <3>3. CASE ~full
      <4>1. cap.swappableSlots \in Nat BY DEF CapacityType
      <4>2. ~(swappableCount(lib) + Cardinality(new) > cap.swappableSlots) BY <3>3
      <4> HIDE DEF added, new
      <4> QED BY <4>1, <4>2, <3>1, <2>2, <2>8
    <3> QED BY <1>2, <3>2, <3>3
  <2> HIDE DEF added, result
  <2>10. DOMAIN added \subseteq DOMAIN lib \cup items BY DEF added
  <2> QED BY <2>1, <2>4, <2>5, <2>9, <2>10 DEF result
<1> QED BY <1>1, <1>2

(* Locking moves one item at most: the lockable pool stays within its      *)
(* slots, or nothing changes, and the swappable pool does not grow.        *)
LEMMA LockFits ==
    ASSUME NEW lib, IsLibrary(lib), NEW item \in DOMAIN lib, ~lib[item].locked,
           NEW cap \in CapacityType
    PROVE  LET result == lockItem(lib, item, cap).library IN
           /\ IsLibrary(result) /\ DOMAIN result = DOMAIN lib
           /\ lockedItems(lib) \subseteq lockedItems(result)
           /\ \/ result = lib
              \/ /\ lockedCount(result) <= cap.maxLockableSlots
                 /\ swappableCount(result) <= swappableCount(lib)
<1> DEFINE moved == SetLocked(lib, item, TRUE)
           result == lockItem(lib, item, cap).library
<1>1. CASE lockedCount(lib) >= cap.maxLockableSlots
  <2>1. result = lib BY <1>1 DEF lockItem, Rejected
  <2> QED BY <2>1
<1>2. CASE ~(lockedCount(lib) >= cap.maxLockableSlots)
  <2>1. result = moved BY <1>2 DEF lockItem, Ok
  <2>2. IsLibrary(moved) /\ DOMAIN moved = DOMAIN lib
    BY DEF SetLocked, IsLibrary, Entry
  <2>3. /\ lockedItems(moved) = lockedItems(lib) \cup {item}
        /\ swappableItems(moved) = swappableItems(lib) \ {item}
    BY DEF SetLocked, IsLibrary, Entry, lockedItems, swappableItems
  <2>4. lockedCount(moved) <= cap.maxLockableSlots
    <3>1. Cardinality(lockedItems(lib) \cup {item}) = Cardinality(lockedItems(lib)) + 1
      BY PoolsFinite, FS_AddElement DEF lockedItems
    <3>2. lockedCount(moved) = lockedCount(lib) + 1
      BY <2>3, <3>1 DEF lockedCount
    <3>3. lockedCount(lib) \in Nat /\ cap.maxLockableSlots \in Nat
      BY PoolsFinite DEF CapacityType
    <3> HIDE DEF moved
    <3> QED BY <1>2, <3>2, <3>3
  <2>5. swappableCount(moved) <= swappableCount(lib)
    BY <2>3, PoolsFinite, FS_Subset DEF swappableCount
  <2> QED BY <2>1, <2>2, <2>3, <2>4, <2>5
<1> QED BY <1>1, <1>2

(* Unlocking moves one item at most: the swappable pool stays within its   *)
(* slots, or nothing changes, and the lockable pool does not grow.         *)
LEMMA UnlockFits ==
    ASSUME NEW lib, IsLibrary(lib), NEW item \in lockedItems(lib), NEW cap \in CapacityType
    PROVE  LET result == unlockItem(lib, item, cap).library IN
           /\ IsLibrary(result) /\ DOMAIN result = DOMAIN lib
           /\ \/ result = lib
              \/ /\ swappableCount(result) <= cap.swappableSlots
                 /\ lockedCount(result) <= lockedCount(lib)
<1> DEFINE moved == SetLocked(lib, item, FALSE)
           result == unlockItem(lib, item, cap).library
<1>0. item \in DOMAIN lib /\ lib[item].locked BY DEF lockedItems
<1>1. CASE swappableCount(lib) >= cap.swappableSlots
  <2>1. result = lib BY <1>0, <1>1 DEF unlockItem, Rejected
  <2> QED BY <2>1
<1>2. CASE ~(swappableCount(lib) >= cap.swappableSlots)
  <2>1. result = moved BY <1>0, <1>2 DEF unlockItem, Ok
  <2>2. IsLibrary(moved) /\ DOMAIN moved = DOMAIN lib
    BY <1>0 DEF SetLocked, IsLibrary, Entry
  <2>3. /\ swappableItems(moved) = swappableItems(lib) \cup {item}
        /\ lockedItems(moved) = lockedItems(lib) \ {item}
    BY <1>0 DEF SetLocked, IsLibrary, Entry, lockedItems, swappableItems
  <2>4. swappableCount(moved) <= cap.swappableSlots
    <3>1. Cardinality(swappableItems(lib) \cup {item}) = Cardinality(swappableItems(lib)) + 1
      BY <1>0, PoolsFinite, FS_AddElement DEF swappableItems
    <3>2. swappableCount(moved) = swappableCount(lib) + 1
      BY <2>3, <3>1 DEF swappableCount
    <3>3. swappableCount(lib) \in Nat /\ cap.swappableSlots \in Nat
      BY PoolsFinite DEF CapacityType
    <3> HIDE DEF moved
    <3> QED BY <1>2, <3>2, <3>3
  <2>5. lockedCount(moved) <= lockedCount(lib)
    BY <2>3, PoolsFinite, FS_Subset DEF lockedCount
  <2> QED BY <2>1, <2>2, <2>4, <2>5
<1> QED BY <1>1, <1>2

-----------------------------------------------------------------------------
(* The bytes of a set of items.  byteSize folds over the items in an order *)
(* of its own choice; the lemmas show that the order does not matter.      *)

Weigh(w, s) == IF s = {} THEN 0 ELSE LET x == CHOOSE x \in s : TRUE IN Size[x] + w[s \ {x}]

(* w weighs every part of S.                                               *)
IsWeighing(w, S) == w = [s \in SUBSET S |-> Weigh(w, s)]

Weighing(S) == CHOOSE w : IsWeighing(w, S)

LEMMA ByteSizeIsWeight == ASSUME NEW S PROVE byteSize(S) = Weighing(S)[S]
BY Zenon DEF byteSize, MapThenSumSet, MapThenFoldSet, Weighing, IsWeighing, Weigh

(* A nonempty family of sets of items has a member of the fewest items:    *)
(* what is proved below by taking a smallest counterexample.               *)
LEMMA SmallestSet ==
    ASSUME NEW F \in SUBSET SUBSET Item, F # {}
    PROVE  \E s \in F : \A t \in F : Cardinality(s) <= Cardinality(t)
<1>1. ASSUME NEW s \in SUBSET Item PROVE IsFiniteSet(s) /\ Cardinality(s) \in Nat
  BY FS_Subset, FS_CardinalityType, ItemAssumption
<1> DEFINE counts == {Cardinality(s) : s \in F}
<1>2. counts \in SUBSET Nat /\ counts # {} BY <1>1
<1>3. PICK m \in counts : \A n \in counts : ~(<<n, m>> \in OpToRel(<, Nat))
  <2> HIDE DEF counts
  <2> QED BY <1>2, NatLessThanWellFounded, WFMin, ZenonT(60)
<1>4. PICK s \in F : Cardinality(s) = m BY <1>3
<1>5. ASSUME NEW t \in F PROVE Cardinality(s) <= Cardinality(t)
  <2>1. Cardinality(t) \in Nat /\ Cardinality(s) \in Nat BY <1>1
  <2>2. CASE Cardinality(t) < Cardinality(s)
    <3>1. <<Cardinality(t), m>> \in Nat \X Nat BY <2>1, <1>4
    <3>2. <<Cardinality(t), m>> \in OpToRel(<, Nat)
      BY <2>2, <3>1, <1>4 DEF OpToRel
    <3> QED BY <1>3, <3>2
  <2> QED BY <2>1, <2>2
<1> QED BY <1>5

(* Taking an item out of a set leaves one item less.                       *)
LEMMA OneLess ==
    ASSUME NEW s \in SUBSET Item, NEW x \in s
    PROVE  /\ s \ {x} \in SUBSET Item
           /\ Cardinality(s \ {x}) \in Nat /\ Cardinality(s) = Cardinality(s \ {x}) + 1
<1>1. IsFiniteSet(s) /\ Cardinality(s) \in Nat
  BY FS_Subset, FS_CardinalityType, ItemAssumption
<1>2. Cardinality(s \ {x}) = Cardinality(s) - 1 BY <1>1, FS_RemoveElement
<1>3. IsFiniteSet(s \ {x}) BY <1>1, FS_Subset
<1>4. Cardinality(s \ {x}) \in Nat BY <1>3, FS_CardinalityType
<1> QED BY <1>1, <1>2, <1>4

LEMMA ChosenIn == ASSUME NEW s, s # {} PROVE (CHOOSE x \in s : TRUE) \in s
OBVIOUS

(* Two weighings of parts of the items agree wherever both weigh.          *)
LEMMA WeighingsAgree ==
    ASSUME NEW S, NEW T, NEW v, NEW w, IsWeighing(v, S), IsWeighing(w, T),
           NEW s \in SUBSET Item, s \subseteq S, s \subseteq T
    PROVE  v[s] = w[s]
<1> DEFINE F == {t \in SUBSET Item : t \subseteq S /\ t \subseteq T /\ v[t] # w[t]}
<1>1. SUFFICES ASSUME F # {} PROVE FALSE
  OBVIOUS
<1>2. PICK t \in F : \A u \in F : Cardinality(t) <= Cardinality(u)
  <2>1. F \in SUBSET SUBSET Item OBVIOUS
  <2> HIDE DEF F
  <2> QED BY <1>1, <2>1, SmallestSet
<1>3. t \in SUBSET Item /\ t \in SUBSET S /\ t \in SUBSET T /\ v[t] # w[t] OBVIOUS
<1>4. v[t] = Weigh(v, t) /\ w[t] = Weigh(w, t)
  BY <1>3 DEF IsWeighing
<1>5. t # {} BY <1>3, <1>4 DEF Weigh
<1> DEFINE x == CHOOSE x \in t : TRUE
<1>6. x \in t BY <1>5, ChosenIn
<1>7. v[t] = Size[x] + v[t \ {x}] /\ w[t] = Size[x] + w[t \ {x}]
  BY <1>4, <1>5 DEF Weigh
<1> HIDE DEF x
<1>8. t \ {x} \notin F
  <2>1. Cardinality(t \ {x}) \in Nat /\ Cardinality(t) = Cardinality(t \ {x}) + 1
    BY <1>3, <1>6, OneLess
  <2>2. ~(Cardinality(t) <= Cardinality(t \ {x})) BY <2>1
  <2> HIDE DEF F
  <2> QED BY <1>2, <2>2
<1>9. v[t \ {x}] = w[t \ {x}] BY <1>3, <1>8
<1> QED BY <1>3, <1>7, <1>9

(* The sets of at most n items have a weighing, whatever n is.             *)
Small(n) == {s \in SUBSET Item : Cardinality(s) <= n}

WeighsSmall(w, n) == w = [s \in Small(n) |-> Weigh(w, s)]

LEMMA WeighsOneMore ==
    ASSUME NEW n \in Nat, n = 0 \/ \E w : WeighsSmall(w, n - 1)
    PROVE  \E w : WeighsSmall(w, n)
<1> DEFINE g == CHOOSE w : WeighsSmall(w, n - 1)
           h == [s \in Small(n) |-> Weigh(g, s)]
<1>1. ASSUME NEW s \in Small(n) PROVE h[s] = Weigh(h, s)
  <2>1. h[s] = Weigh(g, s) OBVIOUS
  <2>2. CASE s = {} BY <2>1, <2>2 DEF Weigh
  <2>3. CASE s # {}
    <3> DEFINE x == CHOOSE x \in s : TRUE
    <3>1. x \in s BY <2>3, ChosenIn
    <3>2. s \in SUBSET Item /\ Cardinality(s) <= n BY DEF Small
    <3>3. Weigh(g, s) = Size[x] + g[s \ {x}] /\ Weigh(h, s) = Size[x] + h[s \ {x}]
      BY <2>3 DEF Weigh
    <3> HIDE DEF x
    <3>4. /\ s \ {x} \in SUBSET Item
          /\ Cardinality(s \ {x}) \in Nat /\ Cardinality(s) = Cardinality(s \ {x}) + 1
      BY <3>1, <3>2, OneLess
    <3>5. n # 0 /\ s \ {x} \in Small(n - 1) /\ s \ {x} \in Small(n)
      BY <3>2, <3>4 DEF Small
    <3>6. WeighsSmall(g, n - 1) BY <3>5
    <3>7. h[s \ {x}] = Weigh(g, s \ {x}) BY <3>5
    <3> HIDE DEF g, h
    <3>8. g[s \ {x}] = Weigh(g, s \ {x}) BY <3>5, <3>6 DEF WeighsSmall
    <3> QED BY <2>1, <3>3, <3>7, <3>8
  <2> QED BY <2>2, <2>3
<1>2. h = [s \in Small(n) |-> Weigh(h, s)] BY <1>1, Zenon
<1> QED BY <1>2 DEF WeighsSmall

LEMMA SmallIsWeighed == ASSUME NEW n \in Nat PROVE \E w : WeighsSmall(w, n)
<1> DEFINE bad == {k \in Nat : ~\E w : WeighsSmall(w, k)}
<1>1. SUFFICES ASSUME bad # {} PROVE FALSE
  OBVIOUS
<1>2. PICK k \in bad : \A i \in bad : ~(<<i, k>> \in OpToRel(<, Nat))
  <2>1. bad \in SUBSET Nat OBVIOUS
  <2> HIDE DEF bad
  <2> QED BY <1>1, <2>1, NatLessThanWellFounded, WFMin
<1>3. k = 0 \/ k - 1 \notin bad
  <2>1. CASE k # 0
    <3>1. <<k - 1, k>> \in OpToRel(<, Nat) BY <2>1 DEF OpToRel
    <3> QED BY <1>2, <3>1
  <2> QED BY <2>1
<1>4. k = 0 \/ \E w : WeighsSmall(w, k - 1) BY <1>3
<1> QED BY <1>2, <1>4, WeighsOneMore

(* Every set of items is weighed.                                          *)
LEMMA WeighingExists == ASSUME NEW S \in SUBSET Item PROVE IsWeighing(Weighing(S), S)
<1>1. IsFiniteSet(S) /\ Cardinality(S) \in Nat
  BY FS_Subset, FS_CardinalityType, ItemAssumption
<1>2. PICK w : WeighsSmall(w, Cardinality(S)) BY <1>1, SmallIsWeighed
<1> DEFINE v == [s \in SUBSET S |-> w[s]]
<1>3. ASSUME NEW s \in SUBSET S PROVE v[s] = Weigh(v, s)
  <2>1. s \in Small(Cardinality(S)) BY <1>1, FS_Subset DEF Small
  <2>2. v[s] = Weigh(w, s) BY <1>2, <2>1 DEF WeighsSmall
  <2>3. CASE s = {} BY <2>2, <2>3 DEF Weigh
  <2>4. CASE s # {}
    <3> DEFINE x == CHOOSE x \in s : TRUE
    <3>1. v[s \ {x}] = w[s \ {x}] OBVIOUS
    <3>2. Weigh(w, s) = Size[x] + w[s \ {x}] /\ Weigh(v, s) = Size[x] + v[s \ {x}]
      BY <2>4 DEF Weigh
    <3> QED BY <2>2, <3>1, <3>2
  <2> QED BY <2>3, <2>4
<1>4. IsWeighing(v, S)
  <2>1. v = [s \in SUBSET S |-> Weigh(v, s)] BY <1>3, Zenon
  <2> QED BY <2>1 DEF IsWeighing
<1> QED BY <1>4 DEF Weighing

(* The bytes of a part of the items, by any weighing that covers it.       *)
LEMMA ByteSizeBy ==
    ASSUME NEW S \in SUBSET Item, NEW s \in SUBSET S
    PROVE  byteSize(s) = Weighing(S)[s]
<1>1. s \in SUBSET Item OBVIOUS
<1>2. IsWeighing(Weighing(S), S) /\ IsWeighing(Weighing(s), s)
  BY <1>1, WeighingExists
<1>3. Weighing(S)[s] = Weighing(s)[s]
  BY <1>1, <1>2, WeighingsAgree
<1> QED BY <1>3, ByteSizeIsWeight

(* What byteSize does: nothing weighs 0, and a set weighs as much as an    *)
(* item chosen from it and the rest.                                       *)
LEMMA ByteSizeUnfolds ==
    ASSUME NEW S \in SUBSET Item
    PROVE  /\ S = {} => byteSize(S) = 0
           /\ S # {} => LET x == CHOOSE x \in S : TRUE IN byteSize(S) = Size[x] + byteSize(S \ {x})
<1>1. byteSize(S) = Weigh(Weighing(S), S)
  <2>1. IsWeighing(Weighing(S), S) BY WeighingExists
  <2>2. Weighing(S)[S] = Weigh(Weighing(S), S)
    <3> DEFINE w == Weighing(S)
    <3> HIDE DEF w
    <3>1. w = [s \in SUBSET S |-> Weigh(w, s)] BY <2>1 DEF IsWeighing, w
    <3> QED BY <3>1 DEF w
  <2> QED BY <2>2, ByteSizeBy
<1>2. ASSUME NEW x PROVE byteSize(S \ {x}) = Weighing(S)[S \ {x}]
  BY ByteSizeBy
<1> QED BY <1>1, <1>2 DEF Weigh

(* The bytes of a set of items are a natural number.                       *)
LEMMA ByteSizeNat == ASSUME NEW S \in SUBSET Item PROVE byteSize(S) \in Nat
<1> DEFINE F == {s \in SUBSET Item : byteSize(s) \notin Nat}
<1>1. SUFFICES ASSUME F # {} PROVE FALSE
  OBVIOUS
<1>2. PICK s \in F : \A t \in F : Cardinality(s) <= Cardinality(t)
  <2>1. F \in SUBSET SUBSET Item OBVIOUS
  <2> HIDE DEF F
  <2> QED BY <1>1, <2>1, SmallestSet
<1>3. s \in SUBSET Item /\ byteSize(s) \notin Nat OBVIOUS
<1> HIDE DEF F
<1>4. s # {}
  <2>1. {} \in SUBSET Item OBVIOUS
  <2>2. byteSize({}) = 0 BY <2>1, ByteSizeUnfolds
  <2> QED BY <1>3, <2>2
<1> DEFINE x == CHOOSE x \in s : TRUE
<1>5. x \in s /\ byteSize(s) = Size[x] + byteSize(s \ {x})
  BY <1>3, <1>4, ByteSizeUnfolds, ChosenIn
<1> HIDE DEF x
<1>6. s \ {x} \notin F
  <2>1. Cardinality(s \ {x}) \in Nat /\ Cardinality(s) = Cardinality(s \ {x}) + 1
    BY <1>3, <1>5, OneLess
  <2>2. ~(Cardinality(s) <= Cardinality(s \ {x})) BY <2>1
  <2> QED BY <1>2, <2>2
<1>7. byteSize(s \ {x}) \in Nat BY <1>3, <1>6 DEF F
<1>8. Size[x] \in Nat BY <1>3, <1>5, SizeAssumption
<1> QED BY <1>3, <1>5, <1>7, <1>8

(* Whichever item is put aside, a set weighs as much as it and the rest.   *)
LEMMA ByteSizeOf ==
    ASSUME NEW S \in SUBSET Item, NEW y \in S
    PROVE  byteSize(S) = Size[y] + byteSize(S \ {y})
<1> DEFINE F == {s \in SUBSET Item : \E z \in s : byteSize(s) # Size[z] + byteSize(s \ {z})}
<1>1. SUFFICES ASSUME F # {} PROVE FALSE
  OBVIOUS
<1>2. PICK s \in F : \A t \in F : Cardinality(s) <= Cardinality(t)
  <2>1. F \in SUBSET SUBSET Item OBVIOUS
  <2> HIDE DEF F
  <2> QED BY <1>1, <2>1, SmallestSet
<1>3. s \in SUBSET Item OBVIOUS
<1>4. PICK z \in s : byteSize(s) # Size[z] + byteSize(s \ {z}) OBVIOUS
<1> DEFINE x == CHOOSE x \in s : TRUE
<1>5. x \in s /\ byteSize(s) = Size[x] + byteSize(s \ {x})
  BY <1>3, <1>4, ByteSizeUnfolds, ChosenIn
<1> HIDE DEF x
<1>6. x # z BY <1>4, <1>5
<1>7. ASSUME NEW u \in s, NEW v \in s \ {u}
      PROVE  byteSize(s \ {u}) = Size[v] + byteSize((s \ {u}) \ {v})
  <2>1. Cardinality(s \ {u}) \in Nat /\ Cardinality(s) = Cardinality(s \ {u}) + 1
    BY <1>3, OneLess
  <2>2. ~(Cardinality(s) <= Cardinality(s \ {u})) BY <2>1
  <2>3. s \ {u} \notin F
    <3> HIDE DEF F
    <3> QED BY <1>2, <2>2
  <2> QED BY <1>3, <2>3
<1> HIDE DEF F
<1>8. byteSize(s \ {x}) = Size[z] + byteSize((s \ {x}) \ {z})
  BY <1>5, <1>6, <1>7
<1>9. byteSize(s \ {z}) = Size[x] + byteSize((s \ {z}) \ {x})
  BY <1>5, <1>6, <1>7
<1>10. (s \ {x}) \ {z} = (s \ {z}) \ {x} OBVIOUS
<1>11. Size[x] \in Nat /\ Size[z] \in Nat /\ byteSize((s \ {z}) \ {x}) \in Nat
  BY <1>3, <1>5, SizeAssumption, ByteSizeNat
<1>12. ASSUME NEW a \in Nat, NEW b \in Nat, NEW c \in Nat PROVE a + (b + c) = b + (a + c)
  OBVIOUS
<1>13. Size[x] + (Size[z] + byteSize((s \ {z}) \ {x}))
         = Size[z] + (Size[x] + byteSize((s \ {z}) \ {x}))
  BY <1>11, <1>12
<1> QED BY <1>4, <1>5, <1>8, <1>9, <1>10, <1>13

(* Fewer items weigh no more.                                              *)
LEMMA ByteSizeGrows ==
    ASSUME NEW S \in SUBSET Item, NEW T \in SUBSET S
    PROVE  byteSize(T) <= byteSize(S)
<1> DEFINE F == {s \in SUBSET Item : T \subseteq s /\ ~(byteSize(T) <= byteSize(s))}
<1>1. SUFFICES ASSUME F # {} PROVE FALSE
  OBVIOUS
<1>2. PICK s \in F : \A t \in F : Cardinality(s) <= Cardinality(t)
  <2>1. F \in SUBSET SUBSET Item OBVIOUS
  <2> HIDE DEF F
  <2> QED BY <1>1, <2>1, SmallestSet
<1>3. s \in SUBSET Item /\ T \subseteq s /\ ~(byteSize(T) <= byteSize(s)) OBVIOUS
<1>4. byteSize(T) \in Nat /\ byteSize(s) \in Nat BY <1>3, ByteSizeNat
<1>5. PICK y \in s : y \notin T
  <2>1. s # T BY <1>3, <1>4
  <2> QED BY <1>3, <2>1
<1>6. byteSize(s) = Size[y] + byteSize(s \ {y}) BY <1>3, ByteSizeOf
<1>7. s \ {y} \notin F
  <2>1. Cardinality(s \ {y}) \in Nat /\ Cardinality(s) = Cardinality(s \ {y}) + 1
    BY <1>3, OneLess
  <2>2. ~(Cardinality(s) <= Cardinality(s \ {y})) BY <2>1
  <2> HIDE DEF F
  <2> QED BY <1>2, <2>2
<1>8. byteSize(T) <= byteSize(s \ {y}) BY <1>3, <1>5, <1>7
<1>9. Size[y] \in Nat /\ byteSize(s \ {y}) \in Nat
  BY <1>3, SizeAssumption, ByteSizeNat
<1> QED BY <1>3, <1>4, <1>6, <1>8, <1>9

(* Adding items leaves the library as heavy as it was, or within the byte  *)
(* budget of the capacity, if it has one.                                  *)
LEMMA AddAllWithinBudget ==
    ASSUME NEW lib, IsLibrary(lib), NEW items \in SUBSET Item,
           NEW priority \in Priority, NEW cap \in CapacityType
    PROVE  LET result == addAll(lib, items, priority, cap).library IN
           \/ DOMAIN result = DOMAIN lib
           \/ cap.maxTotalBytes = NoBudget
           \/ byteSize(DOMAIN result) <= cap.maxTotalBytes
<1> DEFINE new == items \ DOMAIN lib
           result == addAll(lib, items, priority, cap).library
<1>1. CASE new = {} \/ result = lib
  BY <1>1 DEF addAll, Ok, Rejected
<1>2. CASE new # {} /\ result # lib
  <2>1. ~overBudget(DOMAIN lib \cup new, cap)
    BY <1>2 DEF addAll, Rejected
  <2>2. DOMAIN result = DOMAIN lib \cup new
    BY <1>2 DEF addAll, Ok, Rejected
  <2>3. byteSize(DOMAIN lib \cup new) \in Nat
    BY ByteSizeNat DEF IsLibrary
  <2>4. cap.maxTotalBytes = NoBudget \/ cap.maxTotalBytes \in Nat
    BY DEF CapacityType
  <2> HIDE DEF result, new
  <2>5. cap.maxTotalBytes = NoBudget \/ byteSize(DOMAIN result) <= cap.maxTotalBytes
    BY <2>1, <2>2, <2>3, <2>4 DEF overBudget
  <2> QED BY <2>5 DEF result
<1> QED BY <1>1, <1>2

-----------------------------------------------------------------------------
(* Type correctness *)

(* Every capacity the device may run under has natural slots.              *)
LEMMA KnownCapacitiesTyped == KnownCapacities \subseteq CapacityType
BY CapacityAssumption DEF KnownCapacities

(* The record of an idle caller is well formed.                            *)
LEMMA NoOpIsOp == IsOp(NoOp)
BY EmptyLibraryIsLibrary, CapacityAssumption DEF IsOp, NoOp, Stages, KnownCapacities

(* A step that gives one caller a well-formed record keeps op well formed. *)
LEMMA ContinueTyped ==
    ASSUME TypeOK, NEW c \in Caller, NEW o, IsOp(o), Continue(c, o)
    PROVE  DOMAIN op' = Caller /\ \A other \in Caller : IsOp(op'[other])
BY DEF Continue, TypeOK

(* Every library a caller works on, and the current one, is well formed    *)
(* under any interleaving of the calls, crashes and restarts.              *)
THEOREM TypeCorrect == Spec => []TypeOK
<1>1. Init => TypeOK
  BY EmptyLibraryIsLibrary, CapacityAssumption, NoOpIsOp
     DEF Init, TypeOK, KnownCapacities
<1>2. TypeOK /\ [Next]_vars => TypeOK'
  <2> SUFFICES ASSUME TypeOK, [Next]_vars PROVE TypeOK'
    OBVIOUS
  <2>a. ASSUME NEW c \in Caller PROVE IsOp(op[c])
    BY DEF TypeOK
  <2>b. ASSUME NEW c \in Caller, Finish(c)
        PROVE  DOMAIN op' = Caller /\ \A other \in Caller : IsOp(op'[other])
    BY <2>b, NoOpIsOp, ContinueTyped DEF Finish
  <2>c. IsLibrary(library) /\ capacity \in CapacityType
    BY KnownCapacitiesTyped DEF TypeOK
  <2>1. ASSUME NEW item \in Item, lock(item) PROVE TypeOK'
    BY <2>1, <2>c, LockFits DEF lock, TypeOK
  <2>2. ASSUME NEW item \in Item, unlock(item) PROVE TypeOK'
    BY <2>2, <2>c, UnlockFits DEF unlock, TypeOK
  <2>3. ASSUME NEW cap \in Capacities, setCapacity(cap) PROVE TypeOK'
    BY <2>3 DEF setCapacity, TypeOK, KnownCapacities
  <2>4. ASSUME NEW c \in Caller, NEW item \in Item, add(c, item) PROVE TypeOK'
    <3> DEFINE o == [NoOp EXCEPT !.stage = "saving", !.items = {item},
                                 !.lib = addItem(library, item, 0, capacity).library]
    <3>1. IsLibrary(addItem(library, item, 0, capacity).library)
      BY <2>c, AddAllFits, PriorityAssumption DEF addItem
    <3>2. IsOp(o)
      BY <3>1, NoOpIsOp DEF IsOp, NoOp, Stages
    <3>3. Continue(c, o) BY <2>4 DEF add
    <3> HIDE DEF o
    <3> QED BY <2>4, <3>2, <3>3, ContinueTyped DEF add, TypeOK
  <2>5. ASSUME NEW c \in Caller, NEW item \in Item, revokeContent(c, item) PROVE TypeOK'
    <3> DEFINE o == [NoOp EXCEPT !.stage = "recording", !.items = {item}]
    <3>1. IsOp(o) BY NoOpIsOp DEF IsOp, NoOp, Stages
    <3>2. Continue(c, o) BY <2>5 DEF revokeContent
    <3> HIDE DEF o
    <3> QED BY <2>5, <3>1, <3>2, ContinueTyped DEF revokeContent, TypeOK
  <2>6. ASSUME NEW c \in Caller, AddSave(c) PROVE TypeOK'
    <3> DEFINE o == [op[c] EXCEPT !.stage = "installing"]
    <3>1. IsOp(o) BY <2>a DEF IsOp, Stages
    <3>2. Continue(c, o) BY <2>6 DEF AddSave
    <3>3. op[c].items \subseteq Item BY <2>a DEF IsOp
    <3> HIDE DEF o
    <3> QED BY <2>6, <3>1, <3>2, <3>3, ContinueTyped DEF AddSave, TypeOK
  <2>7. ASSUME NEW c \in Caller, remove(c) PROVE TypeOK'
    <3> DEFINE o == [op[c] EXCEPT !.stage = "deleting", !.lib = Without(library, op[c].items)]
    <3>1. IsOp(o) BY <2>a, <2>c, WithoutShrinks DEF IsOp, Stages
    <3>2. Continue(c, o) \/ Finish(c) BY <2>7 DEF remove
    <3> HIDE DEF o
    <3> QED BY <2>7, <2>b, <3>1, <3>2, ContinueTyped DEF remove, TypeOK
  <2>8. ASSUME NEW c \in Caller, RemoveDelete(c) PROVE TypeOK'
    <3> DEFINE o == [op[c] EXCEPT !.stage = "installing"]
    <3>1. IsOp(o) BY <2>a DEF IsOp, Stages
    <3>2. Continue(c, o) BY <2>8 DEF RemoveDelete
    <3>3. op[c].items \subseteq Item BY <2>a DEF IsOp
    <3> HIDE DEF o
    <3> QED BY <2>8, <3>1, <3>2, <3>3, ContinueTyped DEF RemoveDelete, TypeOK
  <2>9. ASSUME NEW c \in Caller, swap(c) PROVE TypeOK'
    <3> DEFINE o == [NoOp EXCEPT !.stage = "negotiating", !.lib = library, !.cap = capacity]
    <3>1. IsOp(o) BY NoOpIsOp DEF IsOp, NoOp, Stages, SwapStages, TypeOK
    <3>2. Continue(c, o) BY <2>9 DEF swap
    <3> HIDE DEF o
    <3> QED BY <2>9, <3>1, <3>2, ContinueTyped DEF swap, TypeOK
  <2>10. ASSUME NEW c \in Caller, SwapNegotiate(c) PROVE TypeOK'
    <3>1. PICK revoked \in SUBSET DOMAIN op[c].lib, offered \in SUBSET Item :
             LET working == Without(op[c].lib, revoked) IN
             \E accepted \in selectAccept(offered \ revoked, working, op[c].cap.swappableSlots) :
                Continue(c, [op[c] EXCEPT !.stage = "transferring", !.lib = working,
                                          !.items = accepted, !.unsaved = accepted])
      BY <2>10 DEF SwapNegotiate
    <3> DEFINE working == Without(op[c].lib, revoked)
    <3>2. PICK accepted \in selectAccept(offered \ revoked, working, op[c].cap.swappableSlots) :
             Continue(c, [op[c] EXCEPT !.stage = "transferring", !.lib = working,
                                       !.items = accepted, !.unsaved = accepted])
      BY <3>1
    <3> DEFINE o == [op[c] EXCEPT !.stage = "transferring", !.lib = working,
                                  !.items = accepted, !.unsaved = accepted]
    <3>3. accepted \subseteq Item BY DEF selectAccept
    <3>4. IsLibrary(working) BY <2>a, WithoutShrinks DEF IsOp
    <3>5. IsOp(o)
      <4> HIDE DEF working
      <4> QED BY <2>a, <3>3, <3>4 DEF IsOp, Stages, SwapStages
    <3>6. Continue(c, o) BY <3>2
    <3> HIDE DEF o
    <3> QED BY <2>10, <3>5, <3>6, ContinueTyped DEF SwapNegotiate, TypeOK
  <2>11. ASSUME NEW c \in Caller, SwapSave(c) PROVE TypeOK'
    <3>1. PICK item \in op[c].unsaved :
             /\ repository' = repository \cup {item}
             /\ Continue(c, [op[c] EXCEPT !.unsaved = @ \ {item}])
      BY <2>11 DEF SwapSave
    <3> DEFINE o == [op[c] EXCEPT !.unsaved = @ \ {item}]
    <3>2. IsOp(o) /\ item \in Item BY <2>a DEF IsOp
    <3>3. Continue(c, o) BY <3>1
    <3> HIDE DEF o
    <3> QED BY <2>11, <3>1, <3>2, <3>3, ContinueTyped DEF SwapSave, TypeOK
  <2>12. ASSUME NEW c \in Caller, SwapReconcile(c) PROVE TypeOK'
    <3>1. PICK evicted \in selectEvict(op[c].lib, op[c].items, op[c].cap.swappableSlots) :
             LET result == addAll(Without(op[c].lib, evicted), op[c].items, 0, op[c].cap) IN
             IF result.ok
             THEN Continue(c, [op[c] EXCEPT !.stage = "reconciled", !.lib = result.library])
             ELSE Finish(c)
      BY <2>12 DEF SwapReconcile
    <3> DEFINE lib == addAll(Without(op[c].lib, evicted), op[c].items, 0, op[c].cap).library
               o == [op[c] EXCEPT !.stage = "reconciled", !.lib = lib]
    <3>2. op[c].cap \in CapacityType BY <2>a, KnownCapacitiesTyped DEF IsOp
    <3>3. IsLibrary(lib)
      BY <2>a, <3>2, WithoutShrinks, AddAllFits, PriorityAssumption DEF IsOp
    <3>4. IsOp(o)
      <4> HIDE DEF lib
      <4> QED BY <2>a, <3>3 DEF IsOp, Stages, SwapStages
    <3>5. Continue(c, o) \/ Finish(c) BY <3>1
    <3> HIDE DEF o
    <3> QED BY <2>12, <2>b, <3>4, <3>5, ContinueTyped DEF SwapReconcile, TypeOK
  <2>13. ASSUME NEW c \in Caller, Install(c) PROVE TypeOK'
    BY <2>13, <2>a, <2>b DEF Install, IsOp, TypeOK
  <2>14. ASSUME NEW c \in Caller, Fail(c) PROVE TypeOK'
    BY <2>14, <2>b DEF Fail, TypeOK
  <2>15. CASE Crash
    BY <2>15, EmptyLibraryIsLibrary, NoOpIsOp DEF Crash, TypeOK
  <2>16. CASE create
    <3>1. IsLibrary(addAll(EmptyLibrary, repository, 0, ConfiguredCapacity).library)
      BY AddAllFits, EmptyLibraryIsLibrary, PriorityAssumption, CapacityAssumption DEF TypeOK
    <3> QED BY <2>16, <3>1, CapacityAssumption DEF create, TypeOK, KnownCapacities
  <2>17. CASE UNCHANGED vars
    BY <2>17 DEF vars, TypeOK
  <2> QED
    BY <2>1, <2>2, <2>3, <2>4, <2>5, <2>6, <2>7, <2>8, <2>9, <2>10, <2>11, <2>12,
       <2>13, <2>14, <2>15, <2>16, <2>17 DEF Next
<1> QED BY <1>1, <1>2, PTL DEF Spec

-----------------------------------------------------------------------------
(* The pools stay bounded *)

(* The library a device starts with is within the known capacities.        *)
LEMMA BoundedEmpty == Bounded(EmptyLibrary)
<1>1. ConfiguredCapacity \in KnownCapacities BY DEF KnownCapacities
<1> QED BY <1>1, KnownCapacitiesTyped, EmptyLibraryIsLibrary DEF Bounded, CapacityType

(* A library whose pools are each no larger than those of a bounded one,   *)
(* or within some known capacity, is bounded.                              *)
LEMMA BoundedFrom ==
    ASSUME NEW lib, IsLibrary(lib), Bounded(lib), NEW result, IsLibrary(result),
           \/ lockedCount(result) <= lockedCount(lib)
           \/ \E cap \in KnownCapacities : lockedCount(result) <= cap.maxLockableSlots,
           \/ swappableCount(result) <= swappableCount(lib)
           \/ \E cap \in KnownCapacities : swappableCount(result) <= cap.swappableSlots
    PROVE  Bounded(result)
<1>1. /\ lockedCount(lib) \in Nat /\ swappableCount(lib) \in Nat
      /\ lockedCount(result) \in Nat /\ swappableCount(result) \in Nat
  BY PoolsFinite
<1>2. \A cap \in KnownCapacities : cap.maxLockableSlots \in Nat /\ cap.swappableSlots \in Nat
  BY KnownCapacitiesTyped DEF CapacityType
<1>3. \E cap \in KnownCapacities : lockedCount(result) <= cap.maxLockableSlots
  <2>1. PICK cap \in KnownCapacities : lockedCount(lib) <= cap.maxLockableSlots
    BY DEF Bounded
  <2> QED BY <1>1, <1>2, <2>1
<1>4. \E cap \in KnownCapacities : swappableCount(result) <= cap.swappableSlots
  <2>1. PICK cap \in KnownCapacities : swappableCount(lib) <= cap.swappableSlots
    BY DEF Bounded
  <2> QED BY <1>1, <1>2, <2>1
<1> QED BY <1>3, <1>4 DEF Bounded

(* A bounded library stays bounded when items are removed from it.         *)
LEMMA BoundedWithout ==
    ASSUME NEW lib, IsLibrary(lib), Bounded(lib), NEW items
    PROVE  Bounded(Without(lib, items))
<1> DEFINE less == Without(lib, items)
<1>1. /\ lockedCount(less) <= lockedCount(lib)
      /\ swappableCount(less) <= swappableCount(lib)
      /\ IsLibrary(less)
  BY WithoutShrinks
<1> SUFFICES Bounded(less) OBVIOUS
<1> HIDE DEF less
<1> QED BY <1>1, BoundedFrom

(* A bounded library stays bounded when items are added under a capacity   *)
(* the device has had.                                                     *)
LEMMA BoundedAddAll ==
    ASSUME NEW lib, IsLibrary(lib), Bounded(lib), NEW items \in SUBSET Item,
           NEW cap \in KnownCapacities
    PROVE  Bounded(addAll(lib, items, 0, cap).library)
<1> DEFINE result == addAll(lib, items, 0, cap).library
<1>1. /\ IsLibrary(result) /\ lockedItems(result) = lockedItems(lib)
      /\ \/ swappableCount(result) = swappableCount(lib)
         \/ swappableCount(result) <= cap.swappableSlots
  BY AddAllFits, PriorityAssumption, KnownCapacitiesTyped
<1> SUFFICES Bounded(result) OBVIOUS
<1> HIDE DEF result
<1>2. lockedCount(result) = lockedCount(lib) BY <1>1 DEF lockedCount
<1>3. lockedCount(lib) \in Nat /\ swappableCount(lib) \in Nat BY PoolsFinite
<1> QED BY <1>1, <1>2, <1>3, BoundedFrom

(* A bounded library stays bounded when an item is locked.                 *)
LEMMA BoundedLock ==
    ASSUME NEW lib, IsLibrary(lib), Bounded(lib), NEW item \in DOMAIN lib,
           ~lib[item].locked, NEW cap \in KnownCapacities
    PROVE  Bounded(lockItem(lib, item, cap).library)
<1> DEFINE result == lockItem(lib, item, cap).library
<1>1. /\ IsLibrary(result)
      /\ \/ result = lib
         \/ /\ lockedCount(result) <= cap.maxLockableSlots
            /\ swappableCount(result) <= swappableCount(lib)
  BY LockFits, KnownCapacitiesTyped
<1> SUFFICES Bounded(result) OBVIOUS
<1> HIDE DEF result
<1>2. lockedCount(lib) \in Nat /\ swappableCount(lib) \in Nat BY PoolsFinite
<1> QED BY <1>1, <1>2, BoundedFrom

(* A bounded library stays bounded when an item is unlocked.               *)
LEMMA BoundedUnlock ==
    ASSUME NEW lib, IsLibrary(lib), Bounded(lib), NEW item \in lockedItems(lib),
           NEW cap \in KnownCapacities
    PROVE  Bounded(unlockItem(lib, item, cap).library)
<1> DEFINE result == unlockItem(lib, item, cap).library
<1>1. /\ IsLibrary(result)
      /\ \/ result = lib
         \/ /\ swappableCount(result) <= cap.swappableSlots
            /\ lockedCount(result) <= lockedCount(lib)
  BY UnlockFits, KnownCapacitiesTyped
<1> SUFFICES Bounded(result) OBVIOUS
<1> HIDE DEF result
<1>2. lockedCount(lib) \in Nat /\ swappableCount(lib) \in Nat BY PoolsFinite
<1> QED BY <1>1, <1>2, BoundedFrom

(* The bytes of the items are within some budget the device has had.       *)
InBudget(items) ==
    \E cap \in KnownCapacities :
        cap.maxTotalBytes = NoBudget \/ byteSize(items) <= cap.maxTotalBytes

LEMMA InBudgetEmpty == InBudget({})
<1>1. byteSize({}) = 0
  <2>1. {} \in SUBSET Item OBVIOUS
  <2> QED BY <2>1, ByteSizeUnfolds
<1>2. ConfiguredCapacity \in KnownCapacities /\ ConfiguredCapacity \in CapacityType
  BY CapacityAssumption DEF KnownCapacities
<1> QED BY <1>1, <1>2 DEF InBudget, CapacityType

(* Fewer items stay in the budget.                                         *)
LEMMA InBudgetFewer ==
    ASSUME NEW more \in SUBSET Item, InBudget(more), NEW items \in SUBSET more
    PROVE  InBudget(items)
<1>1. PICK cap \in KnownCapacities :
         cap.maxTotalBytes = NoBudget \/ byteSize(more) <= cap.maxTotalBytes
  BY DEF InBudget
<1>2. byteSize(items) \in Nat /\ byteSize(more) \in Nat /\ byteSize(items) <= byteSize(more)
  BY ByteSizeNat, ByteSizeGrows
<1>3. cap.maxTotalBytes = NoBudget \/ cap.maxTotalBytes \in Nat
  BY KnownCapacitiesTyped DEF CapacityType
<1> QED BY <1>1, <1>2, <1>3 DEF InBudget

(* What holds of every library the device has or is about to have.         *)
Within(lib) == Bounded(lib) /\ InBudget(DOMAIN lib)

WithinInv == Within(library) /\ \A c \in Caller : Within(op[c].lib)

LEMMA WithinEmpty == Within(EmptyLibrary)
BY BoundedEmpty, InBudgetEmpty, EmptyLibraryIsLibrary DEF Within

LEMMA WithinWithout ==
    ASSUME NEW lib, IsLibrary(lib), Within(lib), NEW items
    PROVE  Within(Without(lib, items))
<1>1. DOMAIN Without(lib, items) \subseteq DOMAIN lib BY DEF Without
<1>2. DOMAIN lib \in SUBSET Item BY DEF IsLibrary
<1>3. InBudget(DOMAIN Without(lib, items)) BY <1>1, <1>2, InBudgetFewer DEF Within
<1> QED BY <1>3, BoundedWithout DEF Within

LEMMA WithinAddAll ==
    ASSUME NEW lib, IsLibrary(lib), Within(lib), NEW items \in SUBSET Item,
           NEW cap \in KnownCapacities
    PROVE  Within(addAll(lib, items, 0, cap).library)
<1> DEFINE result == addAll(lib, items, 0, cap).library
<1>1. \/ DOMAIN result = DOMAIN lib
      \/ cap.maxTotalBytes = NoBudget \/ byteSize(DOMAIN result) <= cap.maxTotalBytes
  BY AddAllWithinBudget, PriorityAssumption, KnownCapacitiesTyped
<1>2. Bounded(result) BY BoundedAddAll DEF Within
<1> SUFFICES Within(result) OBVIOUS
<1> HIDE DEF result
<1> QED BY <1>1, <1>2 DEF Within, InBudget

LEMMA WithinLock ==
    ASSUME NEW lib, IsLibrary(lib), Within(lib), NEW item \in DOMAIN lib,
           ~lib[item].locked, NEW cap \in KnownCapacities
    PROVE  Within(lockItem(lib, item, cap).library)
<1>1. DOMAIN lockItem(lib, item, cap).library = DOMAIN lib
  BY LockFits, KnownCapacitiesTyped
<1> QED BY <1>1, BoundedLock DEF Within

LEMMA WithinUnlock ==
    ASSUME NEW lib, IsLibrary(lib), Within(lib), NEW item \in lockedItems(lib),
           NEW cap \in KnownCapacities
    PROVE  Within(unlockItem(lib, item, cap).library)
<1>1. DOMAIN unlockItem(lib, item, cap).library = DOMAIN lib
  BY UnlockFits, KnownCapacitiesTyped
<1> QED BY <1>1, BoundedUnlock DEF Within

(* A step that gives one caller a library within its bounds keeps all of   *)
(* them within theirs.                                                     *)
LEMMA ContinueWithin ==
    ASSUME TypeOK, WithinInv, NEW c \in Caller, NEW o, Within(o.lib), Continue(c, o)
    PROVE  \A other \in Caller : Within(op'[other].lib)
BY DEF Continue, TypeOK, WithinInv

(* No step takes a library, the current one or that of a call in progress, *)
(* out of its bounds.                                                      *)
LEMMA StaysWithin == Spec => []WithinInv
<1>1. Init => WithinInv
  BY WithinEmpty DEF Init, WithinInv, NoOp
<1>2. TypeOK /\ WithinInv /\ [Next]_vars => WithinInv'
  <2> SUFFICES ASSUME TypeOK, WithinInv, [Next]_vars PROVE WithinInv'
    OBVIOUS
  <2>a. ASSUME NEW c \in Caller PROVE IsOp(op[c]) /\ Within(op[c].lib)
    BY DEF TypeOK, WithinInv
  <2>b. ASSUME NEW c \in Caller, Finish(c)
        PROVE  \A other \in Caller : Within(op'[other].lib)
    <3>1. Within(NoOp.lib) BY WithinEmpty DEF NoOp
    <3> QED BY <2>b, <3>1, ContinueWithin DEF Finish
  <2>c. IsLibrary(library) /\ Within(library) /\ capacity \in KnownCapacities
    BY DEF TypeOK, WithinInv
  <2>d. ASSUME library' = library, \A other \in Caller : Within(op'[other].lib)
        PROVE  WithinInv'
    BY <2>c, <2>d DEF WithinInv
  <2>e. ASSUME Within(library'), op' = op
        PROVE  WithinInv'
    BY <2>a, <2>e DEF WithinInv
  <2>1. ASSUME NEW item \in Item, lock(item) PROVE WithinInv'
    BY <2>1, <2>c, <2>e, WithinLock DEF lock
  <2>2. ASSUME NEW item \in Item, unlock(item) PROVE WithinInv'
    BY <2>2, <2>c, <2>e, WithinUnlock DEF unlock
  <2>3. ASSUME NEW cap \in Capacities, setCapacity(cap) PROVE WithinInv'
    BY <2>3, <2>c, <2>e DEF setCapacity
  <2>4. ASSUME NEW c \in Caller, NEW item \in Item, add(c, item) PROVE WithinInv'
    <3> DEFINE lib == addItem(library, item, 0, capacity).library
               o == [NoOp EXCEPT !.stage = "saving", !.items = {item}, !.lib = lib]
    <3>1. Within(lib) BY <2>c, WithinAddAll DEF addItem
    <3>2. Within(o.lib)
      <4> HIDE DEF lib
      <4> QED BY <3>1 DEF NoOp
    <3>3. Continue(c, o) /\ library' = library BY <2>4 DEF add
    <3> HIDE DEF o
    <3> QED BY <2>d, <3>2, <3>3, ContinueWithin
  <2>5. ASSUME NEW c \in Caller, NEW item \in Item, revokeContent(c, item) PROVE WithinInv'
    <3> DEFINE o == [NoOp EXCEPT !.stage = "recording", !.items = {item}]
    <3>1. Within(o.lib) BY WithinEmpty DEF NoOp
    <3>2. Continue(c, o) /\ library' = library BY <2>5 DEF revokeContent
    <3> HIDE DEF o
    <3> QED BY <2>d, <3>1, <3>2, ContinueWithin
  <2>6. ASSUME NEW c \in Caller, AddSave(c) \/ RemoveDelete(c) PROVE WithinInv'
    <3> DEFINE o == [op[c] EXCEPT !.stage = "installing"]
    <3>1. Within(o.lib) BY <2>a
    <3>2. Continue(c, o) /\ library' = library BY <2>6 DEF AddSave, RemoveDelete
    <3> HIDE DEF o
    <3> QED BY <2>d, <3>1, <3>2, ContinueWithin
  <2>7. ASSUME NEW c \in Caller, remove(c) PROVE WithinInv'
    <3> DEFINE lib == Without(library, op[c].items)
               o == [op[c] EXCEPT !.stage = "deleting", !.lib = lib]
    <3>1. Within(lib) BY <2>c, WithinWithout
    <3>2. Within(o.lib)
      <4> HIDE DEF lib
      <4> QED BY <2>a, <3>1 DEF IsOp
    <3>3. (Continue(c, o) \/ Finish(c)) /\ library' = library BY <2>7 DEF remove
    <3> HIDE DEF o
    <3> QED BY <2>b, <2>d, <3>2, <3>3, ContinueWithin
  <2>8. ASSUME NEW c \in Caller, swap(c) PROVE WithinInv'
    <3> DEFINE o == [NoOp EXCEPT !.stage = "negotiating", !.lib = library, !.cap = capacity]
    <3>1. Within(o.lib) BY <2>c DEF NoOp
    <3>2. Continue(c, o) /\ library' = library BY <2>8 DEF swap
    <3> HIDE DEF o
    <3> QED BY <2>d, <3>1, <3>2, ContinueWithin
  <2>9. ASSUME NEW c \in Caller, SwapNegotiate(c) PROVE WithinInv'
    <3>1. PICK revoked \in SUBSET DOMAIN op[c].lib, items \in SUBSET Item :
             Continue(c, [op[c] EXCEPT !.stage = "transferring",
                                       !.lib = Without(op[c].lib, revoked),
                                       !.items = items, !.unsaved = items])
      BY <2>9 DEF SwapNegotiate, selectAccept
    <3> DEFINE lib == Without(op[c].lib, revoked)
               o == [op[c] EXCEPT !.stage = "transferring", !.lib = lib,
                                  !.items = items, !.unsaved = items]
    <3>2. Within(lib) BY <2>a, WithinWithout DEF IsOp
    <3>3. Within(o.lib)
      <4> HIDE DEF lib
      <4> QED BY <2>a, <3>2 DEF IsOp
    <3>4. Continue(c, o) /\ library' = library BY <2>9, <3>1 DEF SwapNegotiate
    <3> HIDE DEF o
    <3> QED BY <2>d, <3>3, <3>4, ContinueWithin
  <2>10. ASSUME NEW c \in Caller, SwapSave(c) PROVE WithinInv'
    <3>1. PICK item \in op[c].unsaved : Continue(c, [op[c] EXCEPT !.unsaved = @ \ {item}])
      BY <2>10 DEF SwapSave
    <3> DEFINE o == [op[c] EXCEPT !.unsaved = @ \ {item}]
    <3>2. Within(o.lib) BY <2>a
    <3>3. Continue(c, o) /\ library' = library BY <2>10, <3>1 DEF SwapSave
    <3> HIDE DEF o
    <3> QED BY <2>d, <3>2, <3>3, ContinueWithin
  <2>11. ASSUME NEW c \in Caller, SwapReconcile(c) PROVE WithinInv'
    <3>1. PICK evicted \in selectEvict(op[c].lib, op[c].items, op[c].cap.swappableSlots) :
             LET result == addAll(Without(op[c].lib, evicted), op[c].items, 0, op[c].cap) IN
             IF result.ok
             THEN Continue(c, [op[c] EXCEPT !.stage = "reconciled", !.lib = result.library])
             ELSE Finish(c)
      BY <2>11 DEF SwapReconcile
    <3> DEFINE lib == addAll(Without(op[c].lib, evicted), op[c].items, 0, op[c].cap).library
               o == [op[c] EXCEPT !.stage = "reconciled", !.lib = lib]
    <3>2. Within(lib)
      <4>1. IsLibrary(Without(op[c].lib, evicted)) /\ Within(Without(op[c].lib, evicted))
        BY <2>a, WithoutShrinks, WithinWithout DEF IsOp
      <4> QED BY <2>a, <4>1, WithinAddAll DEF IsOp
    <3>3. Within(o.lib)
      <4> HIDE DEF lib
      <4> QED BY <2>a, <3>2 DEF IsOp
    <3>4. (Continue(c, o) \/ Finish(c)) /\ library' = library
      BY <2>11, <3>1 DEF SwapReconcile
    <3> HIDE DEF o
    <3> QED BY <2>b, <2>d, <3>3, <3>4, ContinueWithin
  <2>12. ASSUME NEW c \in Caller, Install(c) PROVE WithinInv'
    BY <2>12, <2>a, <2>b DEF Install, WithinInv, Within
  <2>13. ASSUME NEW c \in Caller, Fail(c) PROVE WithinInv'
    BY <2>13, <2>b, <2>d DEF Fail
  <2>14. CASE Crash
    BY <2>14, WithinEmpty DEF Crash, NoOp, WithinInv, Within
  <2>15. CASE create
    <3>1. Within(addAll(EmptyLibrary, repository, 0, ConfiguredCapacity).library)
      BY WithinEmpty, WithinAddAll, EmptyLibraryIsLibrary DEF TypeOK, KnownCapacities
    <3> QED BY <2>15, <2>e, <3>1 DEF create
  <2>16. CASE UNCHANGED vars
    BY <2>16, <2>c, <2>e DEF vars
  <2> QED
    BY <2>1, <2>2, <2>3, <2>4, <2>5, <2>6, <2>7, <2>8, <2>9, <2>10, <2>11, <2>12,
       <2>13, <2>14, <2>15, <2>16 DEF Next
<1> QED BY <1>1, <1>2, TypeCorrect, PTL DEF Spec

(* Neither the library in use nor one a concurrent call is about to        *)
(* install outgrows the largest capacity the device was given.             *)
THEOREM PoolsStayBounded == Spec => []PoolsBounded
<1>1. WithinInv => PoolsBounded BY DEF WithinInv, Within, PoolsBounded
<1> QED BY <1>1, StaysWithin, PTL

(* The library in use stays within the largest byte budget the device was  *)
(* given, although only addItem knows of it.                               *)
THEOREM BytesStayBounded == Spec => []BytesBounded
<1>1. WithinInv => BytesBounded BY DEF WithinInv, Within, InBudget, BytesBounded
<1> QED BY <1>1, StaysWithin, PTL

-----------------------------------------------------------------------------
(* What is held is durable *)

Stored == repository \cup takenDown

(* The library a caller works on is backed by stored, except for the item  *)
(* an add has yet to save; what a swap no longer has to save is stored.    *)
Backed(o, stored) ==
    /\ DOMAIN o.lib \subseteq IF o.stage = "saving" THEN stored \cup o.items ELSE stored
    /\ o.stage = "transferring" => o.items \ o.unsaved \subseteq stored

DurableInv ==
    /\ DOMAIN library \subseteq Stored
    /\ \A c \in Caller : Backed(op[c], Stored)

(* A step that gives one caller a backed library keeps all of them backed, *)
(* since nothing stored is ever lost but to a takedown.                    *)
LEMMA ContinueBacked ==
    ASSUME TypeOK, DurableInv, NEW c \in Caller, NEW o,
           Backed(o, Stored'), Continue(c, o), Stored \subseteq Stored'
    PROVE  \A other \in Caller : Backed(op'[other], Stored')
<1>1. ASSUME NEW other \in Caller, other # c PROVE Backed(op'[other], Stored')
  <2>1. op'[other] = op[other] BY <1>1 DEF Continue, TypeOK
  <2>2. Backed(op[other], Stored) BY DEF DurableInv
  <2> QED BY <2>1, <2>2 DEF Backed
<1>2. op'[c] = o BY DEF Continue, TypeOK
<1> QED BY <1>1, <1>2

(* Whatever the device holds, or is about to install, would survive a      *)
(* restart, unless the operator took it down.                              *)
THEOREM HeldStaysDurable == Spec => []HeldIsDurable
<1>1. Init => DurableInv
  BY EmptyLibraryIsLibrary DEF Init, DurableInv, Backed, NoOp
<1>2. TypeOK /\ DurableInv /\ [Next]_vars => DurableInv'
  <2> SUFFICES ASSUME TypeOK, DurableInv, [Next]_vars PROVE DurableInv'
    OBVIOUS
  <2>a. ASSUME NEW c \in Caller PROVE IsOp(op[c]) /\ Backed(op[c], Stored)
    BY DEF TypeOK, DurableInv
  <2>b. ASSUME NEW c \in Caller, Finish(c), Stored \subseteq Stored'
        PROVE  \A other \in Caller : Backed(op'[other], Stored')
    <3>1. Backed(NoOp, Stored') BY EmptyLibraryIsLibrary DEF Backed, NoOp
    <3> QED BY <2>b, <3>1, ContinueBacked DEF Finish
  <2>c. IsLibrary(library) /\ DOMAIN library \subseteq Stored /\ capacity \in CapacityType
    BY KnownCapacitiesTyped DEF TypeOK, DurableInv
  <2>d. ASSUME library' = library, Stored \subseteq Stored',
               \A other \in Caller : Backed(op'[other], Stored')
        PROVE  DurableInv'
    BY <2>c, <2>d DEF DurableInv
  <2>e. ASSUME DOMAIN library' \subseteq Stored, op' = op, Stored' = Stored
        PROVE  DurableInv'
    BY <2>a, <2>e DEF DurableInv
  <2>1. ASSUME NEW item \in Item, lock(item) PROVE DurableInv'
    BY <2>1, <2>c, <2>e, LockFits DEF lock, Stored
  <2>2. ASSUME NEW item \in Item, unlock(item) PROVE DurableInv'
    BY <2>2, <2>c, <2>e, UnlockFits DEF unlock, Stored
  <2>3. ASSUME NEW cap \in Capacities, setCapacity(cap) PROVE DurableInv'
    BY <2>3, <2>c, <2>e DEF setCapacity, Stored
  <2>4. ASSUME NEW c \in Caller, NEW item \in Item, add(c, item) PROVE DurableInv'
    <3> DEFINE lib == addItem(library, item, 0, capacity).library
               o == [NoOp EXCEPT !.stage = "saving", !.items = {item}, !.lib = lib]
    <3>1. DOMAIN lib \subseteq Stored \cup {item}
      BY <2>c, AddAllFits, PriorityAssumption DEF addItem
    <3>2. Stored' = Stored BY <2>4 DEF add, Stored
    <3>3. Backed(o, Stored')
      <4> HIDE DEF lib
      <4> QED BY <3>1, <3>2 DEF Backed, NoOp
    <3>4. Continue(c, o) /\ library' = library BY <2>4 DEF add
    <3> HIDE DEF o
    <3> QED BY <2>d, <3>2, <3>3, <3>4, ContinueBacked
  <2>5. ASSUME NEW c \in Caller, NEW item \in Item, revokeContent(c, item) PROVE DurableInv'
    <3> DEFINE o == [NoOp EXCEPT !.stage = "recording", !.items = {item}]
    <3>1. Backed(o, Stored') BY EmptyLibraryIsLibrary DEF Backed, NoOp
    <3>2. Continue(c, o) /\ library' = library /\ Stored' = Stored
      BY <2>5 DEF revokeContent, Stored
    <3> HIDE DEF o
    <3> QED BY <2>d, <3>1, <3>2, ContinueBacked
  <2>6. ASSUME NEW c \in Caller, AddSave(c) PROVE DurableInv'
    <3> DEFINE o == [op[c] EXCEPT !.stage = "installing"]
    <3>1. Stored' = Stored \cup op[c].items BY <2>6 DEF AddSave, Stored
    <3>2. Backed(o, Stored') BY <2>a, <2>6, <3>1 DEF Backed, AddSave, IsOp
    <3>3. Continue(c, o) /\ library' = library BY <2>6 DEF AddSave
    <3> HIDE DEF o
    <3> QED BY <2>d, <3>1, <3>2, <3>3, ContinueBacked
  <2>7. ASSUME NEW c \in Caller, remove(c) PROVE DurableInv'
    <3> DEFINE lib == Without(library, op[c].items)
               o == [op[c] EXCEPT !.stage = "deleting", !.lib = lib]
    <3>1. DOMAIN lib \subseteq Stored BY <2>c DEF Without
    <3>2. Stored' = Stored BY <2>7 DEF remove, Stored
    <3>3. Backed(o, Stored')
      <4> HIDE DEF lib
      <4> QED BY <2>a, <3>1, <3>2 DEF Backed, IsOp
    <3>4. (Continue(c, o) \/ Finish(c)) /\ library' = library BY <2>7 DEF remove
    <3> HIDE DEF o
    <3> QED BY <2>b, <2>d, <3>2, <3>3, <3>4, ContinueBacked
  <2>8. ASSUME NEW c \in Caller, RemoveDelete(c) PROVE DurableInv'
    <3> DEFINE o == [op[c] EXCEPT !.stage = "installing"]
    <3>1. Stored \subseteq Stored' BY <2>8 DEF RemoveDelete, Stored
    <3>2. Backed(o, Stored') BY <2>a, <2>8, <3>1 DEF Backed, RemoveDelete, IsOp
    <3>3. Continue(c, o) /\ library' = library BY <2>8 DEF RemoveDelete
    <3> HIDE DEF o
    <3> QED BY <2>d, <3>1, <3>2, <3>3, ContinueBacked
  <2>9. ASSUME NEW c \in Caller, swap(c) PROVE DurableInv'
    <3> DEFINE o == [NoOp EXCEPT !.stage = "negotiating", !.lib = library, !.cap = capacity]
    <3>1. Stored' = Stored BY <2>9 DEF swap, Stored
    <3>2. Backed(o, Stored') BY <2>c, <3>1 DEF Backed, NoOp
    <3>3. Continue(c, o) /\ library' = library BY <2>9 DEF swap
    <3> HIDE DEF o
    <3> QED BY <2>d, <3>1, <3>2, <3>3, ContinueBacked
  <2>10. ASSUME NEW c \in Caller, SwapNegotiate(c) PROVE DurableInv'
    <3>1. PICK revoked \in SUBSET DOMAIN op[c].lib, items \in SUBSET Item :
             Continue(c, [op[c] EXCEPT !.stage = "transferring",
                                       !.lib = Without(op[c].lib, revoked),
                                       !.items = items, !.unsaved = items])
      BY <2>10 DEF SwapNegotiate, selectAccept
    <3> DEFINE lib == Without(op[c].lib, revoked)
               o == [op[c] EXCEPT !.stage = "transferring", !.lib = lib,
                                  !.items = items, !.unsaved = items]
    <3>2. Stored' = Stored BY <2>10 DEF SwapNegotiate, Stored
    <3>3. DOMAIN lib \subseteq Stored
      BY <2>a, <2>10 DEF Backed, SwapNegotiate, Without
    <3>4. Backed(o, Stored')
      <4> HIDE DEF lib
      <4> QED BY <2>a, <3>2, <3>3 DEF Backed, IsOp
    <3>5. Continue(c, o) /\ library' = library BY <2>10, <3>1 DEF SwapNegotiate
    <3> HIDE DEF o
    <3> QED BY <2>d, <3>2, <3>4, <3>5, ContinueBacked
  <2>11. ASSUME NEW c \in Caller, SwapSave(c) PROVE DurableInv'
    <3>1. PICK item \in op[c].unsaved :
             /\ repository' = repository \cup {item}
             /\ Continue(c, [op[c] EXCEPT !.unsaved = @ \ {item}])
      BY <2>11 DEF SwapSave
    <3> DEFINE o == [op[c] EXCEPT !.unsaved = @ \ {item}]
    <3>2. Stored' = Stored \cup {item} BY <2>11, <3>1 DEF SwapSave, Stored
    <3>3. Backed(o, Stored') BY <2>a, <2>11, <3>2 DEF Backed, IsOp, SwapSave
    <3>4. Continue(c, o) /\ library' = library BY <2>11, <3>1 DEF SwapSave
    <3> HIDE DEF o
    <3> QED BY <2>d, <3>2, <3>3, <3>4, ContinueBacked
  <2>12. ASSUME NEW c \in Caller, SwapReconcile(c) PROVE DurableInv'
    <3>1. PICK evicted \in selectEvict(op[c].lib, op[c].items, op[c].cap.swappableSlots) :
             LET result == addAll(Without(op[c].lib, evicted), op[c].items, 0, op[c].cap) IN
             IF result.ok
             THEN Continue(c, [op[c] EXCEPT !.stage = "reconciled", !.lib = result.library])
             ELSE Finish(c)
      BY <2>12 DEF SwapReconcile
    <3> DEFINE lib == addAll(Without(op[c].lib, evicted), op[c].items, 0, op[c].cap).library
               o == [op[c] EXCEPT !.stage = "reconciled", !.lib = lib]
    <3>2. Stored' = Stored BY <2>12 DEF SwapReconcile, Stored
    <3>3. DOMAIN op[c].lib \cup op[c].items \subseteq Stored
      BY <2>a, <2>12 DEF Backed, SwapReconcile
    <3>4. DOMAIN lib \subseteq Stored
      <4>1. op[c].cap \in CapacityType BY <2>a, KnownCapacitiesTyped DEF IsOp
      <4>2. DOMAIN Without(op[c].lib, evicted) \subseteq DOMAIN op[c].lib
        BY DEF Without
      <4>3. IsLibrary(Without(op[c].lib, evicted))
        BY <2>a, WithoutShrinks DEF IsOp
      <4>4. DOMAIN lib \subseteq DOMAIN Without(op[c].lib, evicted) \cup op[c].items
        BY <2>a, <4>1, <4>3, AddAllFits, PriorityAssumption DEF IsOp
      <4> HIDE DEF lib
      <4> QED BY <3>3, <4>2, <4>4
    <3>5. Backed(o, Stored')
      <4> HIDE DEF lib
      <4> QED BY <2>a, <3>2, <3>4 DEF Backed, IsOp
    <3>6. (Continue(c, o) \/ Finish(c)) /\ library' = library
      BY <2>12, <3>1 DEF SwapReconcile
    <3> HIDE DEF o
    <3> QED BY <2>b, <2>d, <3>2, <3>5, <3>6, ContinueBacked
  <2>13. ASSUME NEW c \in Caller, Install(c) PROVE DurableInv'
    <3>1. Stored' = Stored /\ library' = op[c].lib /\ Finish(c)
      BY <2>13 DEF Install, Stored
    <3>2. DOMAIN op[c].lib \subseteq Stored BY <2>a, <2>13 DEF Backed, Install
    <3> QED BY <2>b, <3>1, <3>2 DEF DurableInv
  <2>14. ASSUME NEW c \in Caller, Fail(c) PROVE DurableInv'
    BY <2>14, <2>b, <2>d DEF Fail, Stored
  <2>15. CASE Crash
    <3>1. Backed(NoOp, Stored') BY EmptyLibraryIsLibrary DEF Backed, NoOp
    <3> QED BY <2>15, <3>1, EmptyLibraryIsLibrary DEF Crash, DurableInv
  <2>16. CASE create
    <3>1. DOMAIN addAll(EmptyLibrary, repository, 0, ConfiguredCapacity).library \subseteq repository
      BY AddAllFits, EmptyLibraryIsLibrary, PriorityAssumption, CapacityAssumption DEF TypeOK
    <3> QED BY <2>16, <2>e, <3>1 DEF create, Stored
  <2>17. CASE UNCHANGED vars
    BY <2>17, <2>c, <2>e DEF vars, Stored
  <2> QED
    BY <2>1, <2>2, <2>3, <2>4, <2>5, <2>6, <2>7, <2>8, <2>9, <2>10, <2>11, <2>12,
       <2>13, <2>14, <2>15, <2>16, <2>17 DEF Next
<1>3. DurableInv => HeldIsDurable
  BY DEF DurableInv, HeldIsDurable, Stored
<1> QED BY <1>1, <1>2, <1>3, TypeCorrect, PTL DEF Spec

-----------------------------------------------------------------------------
(* A swap leaves the locked pool alone *)

(* Reconciling a swap evicts only swappable items, and an item it received *)
(* that is already held is not added again, whatever the capacity is.      *)
LEMMA ReconcileKeepsLocked ==
    ASSUME TypeOK, NEW c \in Caller, SwapReconcile(c), op'[c].stage = "reconciled"
    PROVE  lockedItems(op'[c].lib) = lockedItems(op[c].lib)
<1>1. IsOp(op[c]) /\ DOMAIN op = Caller BY DEF TypeOK
<1>2. PICK evicted \in selectEvict(op[c].lib, op[c].items, op[c].cap.swappableSlots) :
         LET result == addAll(Without(op[c].lib, evicted), op[c].items, 0, op[c].cap) IN
         IF result.ok
         THEN Continue(c, [op[c] EXCEPT !.stage = "reconciled", !.lib = result.library])
         ELSE Finish(c)
  BY DEF SwapReconcile
<1> DEFINE less == Without(op[c].lib, evicted)
           lib == addAll(less, op[c].items, 0, op[c].cap).library
<1>3. evicted \subseteq swappableItems(op[c].lib) BY DEF selectEvict
<1>4. IsLibrary(less) /\ lockedItems(less) = lockedItems(op[c].lib) \ evicted
  BY <1>1, WithoutShrinks DEF IsOp
<1>5. lockedItems(less) = lockedItems(op[c].lib)
  BY <1>3, <1>4 DEF lockedItems, swappableItems
<1>6. op[c].cap \in CapacityType BY <1>1, KnownCapacitiesTyped DEF IsOp
<1>7. lockedItems(lib) = lockedItems(less)
  BY <1>1, <1>4, <1>6, AddAllFits, PriorityAssumption DEF IsOp
<1>8. op'[c].lib = lib
  <2> HIDE DEF lib
  <2>1. Finish(c) => op'[c].stage = "none" BY <1>1 DEF Finish, Continue, NoOp
  <2>2. Continue(c, [op[c] EXCEPT !.stage = "reconciled", !.lib = lib])
    BY <1>2, <2>1 DEF lib
  <2> QED BY <1>1, <2>2 DEF Continue, IsOp
<1> QED BY <1>5, <1>7, <1>8

(* No swap evicts or unlocks an item that was locked when it started.      *)
THEOREM SwapNeverTouchesLocked == Spec => SwapKeepsLocked
<1> DEFINE Kept(c) == op[c].stage = "transferring" /\ op'[c].stage = "reconciled"
                         => lockedItems(op'[c].lib) = lockedItems(op[c].lib)
<1>1. ASSUME TypeOK, Next, NEW c \in Caller PROVE Kept(c)
  <2> SUFFICES ASSUME op[c].stage = "transferring", op'[c].stage = "reconciled"
               PROVE  lockedItems(op'[c].lib) = lockedItems(op[c].lib)
    OBVIOUS
  <2>1. op'[c] # op[c] /\ op'[c] # NoOp BY DEF NoOp
  <2>2. DOMAIN op = Caller /\ IsOp(op[c]) BY <1>1 DEF TypeOK
  <2>3. ASSUME NEW other \in Caller, NEW o, Continue(other, o) PROVE other = c /\ o = op'[c]
    BY <2>1, <2>2, <2>3 DEF Continue
  <2>4. ASSUME NEW other \in Caller, Finish(other) PROVE FALSE
    BY <2>1, <2>3, <2>4 DEF Finish
  <2>5. \E other \in Caller : SwapReconcile(other)
    <3>1. ASSUME NEW other \in Caller,
                 \/ \E item \in Item : add(other, item) \/ revokeContent(other, item)
                 \/ swap(other)
          PROVE FALSE
      <4>1. PICK o : Continue(other, o) BY <3>1 DEF add, revokeContent, swap
      <4>2. op[other] = NoOp BY <3>1 DEF add, revokeContent, swap, Idle
      <4> QED BY <2>3, <4>1, <4>2 DEF NoOp
    <3>2. ASSUME NEW other \in Caller, SwapNegotiate(other) PROVE FALSE
      <4>1. PICK o : Continue(other, o) BY <3>2 DEF SwapNegotiate
      <4> QED BY <2>3, <3>2, <4>1 DEF SwapNegotiate
    <3>3. ASSUME NEW other \in Caller, SwapSave(other) PROVE FALSE
      <4>1. PICK item \in op[other].unsaved :
               Continue(other, [op[other] EXCEPT !.unsaved = @ \ {item}])
        BY <3>3 DEF SwapSave
      <4> QED BY <2>2, <2>3, <4>1 DEF IsOp
    <3>4. ASSUME NEW other \in Caller, AddSave(other) \/ remove(other) \/ RemoveDelete(other)
          PROVE FALSE
      <4>1. other = c
        BY <2>3, <2>4, <3>4 DEF AddSave, remove, RemoveDelete
      <4> QED BY <3>4, <4>1 DEF AddSave, remove, RemoveDelete
    <3>5. ASSUME NEW other \in Caller, Install(other) \/ Fail(other) PROVE FALSE
      BY <2>4, <3>5 DEF Install, Fail
    <3>6. ASSUME op' = op PROVE FALSE BY <2>1, <3>6
    <3>7. ~Crash BY <2>1, <2>2 DEF Crash
    <3> QED BY <1>1, <3>1, <3>2, <3>3, <3>4, <3>5, <3>6, <3>7
            DEF Next, lock, unlock, setCapacity, create
  <2>6. PICK other \in Caller : SwapReconcile(other) BY <2>5
  <2>7. other = c BY <2>3, <2>4, <2>6 DEF SwapReconcile
  <2> QED BY <1>1, <2>6, <2>7, ReconcileKeepsLocked
<1>2. TypeOK /\ [Next]_vars => [\A c \in Caller : Kept(c)]_vars
  BY <1>1
<1> QED BY <1>2, TypeCorrect, PTL DEF Spec, SwapKeepsLocked
=============================================================================
