------------------------------ MODULE Library ------------------------------
(***************************************************************************)
(* The Library aggregate and the naive policies: pure functions of an      *)
(* immutable snapshot (core/src/library/library.ts, core/src/policies/).   *)
(*                                                                         *)
(* A library maps every held content hash to its entry.  The Map of the    *)
(* code also has an insertion order; it only decides which of several      *)
(* equally good items a policy picks, so the policies below return the set *)
(* of the choices they may make.  Tokens are identified with their hashes. *)
(***************************************************************************)
EXTENDS Integers, FiniteSets, FiniteSetsExt

CONSTANTS
    Item,       (* content hashes                                           *)
    Size,       (* Size[i]: metadataTokenByteSize of the token with hash i  *)
    Priority,   (* the priorities an entry may carry                        *)
    NoBudget    (* capacity.maxTotalBytes left undefined                    *)

ASSUME ItemAssumption == IsFiniteSet(Item)
ASSUME SizeAssumption == Size \in [Item -> Nat]
ASSUME PriorityAssumption == Priority \subseteq Int /\ 0 \in Priority

Entry == [locked : BOOLEAN, priority : Priority]

IsLibrary(lib) ==
    /\ DOMAIN lib \subseteq Item
    /\ lib \in [DOMAIN lib -> Entry]

CapacityType ==
    [maxLockableSlots : Nat, swappableSlots : Nat, maxTotalBytes : Nat \cup {NoBudget}]

EmptyLibrary == [i \in {} |-> [locked |-> FALSE, priority |-> 0]]

-----------------------------------------------------------------------------
(* Queries *)

lockedItems(lib) == {i \in DOMAIN lib : lib[i].locked}

(* Faulty variant: forgets the lock.                                       *)
swappableItems_all(lib) == DOMAIN lib

swappableItems(lib) == {i \in DOMAIN lib : ~lib[i].locked}

lockedCount(lib) == Cardinality(lockedItems(lib))

swappableCount(lib) == Cardinality(swappableItems(lib))

byteSize(items) == MapThenSumSet(LAMBDA i : Size[i], items)

(* Faulty variant: weighs each item, never their sum.                      *)
overBudget_each(items, cap) ==
    cap.maxTotalBytes # NoBudget /\ \E i \in items : Size[i] > cap.maxTotalBytes

overBudget(items, cap) ==
    cap.maxTotalBytes # NoBudget /\ byteSize(items) > cap.maxTotalBytes

-----------------------------------------------------------------------------
(* Operations: each returns a LibraryOperationResult.  A rejected one      *)
(* carries the library it was given, which the code leaves untouched.      *)

Ok(lib) == [ok |-> TRUE, library |-> lib]

Rejected(lib) == [ok |-> FALSE, library |-> lib]

SetLocked(lib, item, locked) == [lib EXCEPT ![item].locked = locked]

Without(lib, items) == [i \in DOMAIN lib \ items |-> lib[i]]

(* addItem applied to each of items in turn, stopping at the first         *)
(* rejection.  Counts and bytes only grow, so whether every add succeeds   *)
(* depends on the totals and not on the order.                             *)
addAll(lib, items, priority, cap) ==
    LET new == items \ DOMAIN lib
        full == swappableCount(lib) + Cardinality(new) > cap.swappableSlots
    IN  IF new # {} /\ (full \/ overBudget(DOMAIN lib \cup new, cap))
        THEN Rejected(lib)
        ELSE Ok([i \in DOMAIN lib \cup new |->
                   IF i \in new THEN [locked |-> FALSE, priority |-> priority]
                                ELSE lib[i]])

addItem(lib, item, priority, cap) == addAll(lib, {item}, priority, cap)

lockItem(lib, item, cap) ==
    IF item \notin DOMAIN lib THEN Rejected(lib)
    ELSE IF lib[item].locked THEN Ok(lib)
    ELSE IF lockedCount(lib) >= cap.maxLockableSlots THEN Rejected(lib)
    ELSE Ok(SetLocked(lib, item, TRUE))

(* Faulty variant: takes no slot of the pool the item moves to.            *)
unlockItem_unchecked(lib, item, cap) ==
    IF item \notin DOMAIN lib THEN Rejected(lib) ELSE Ok(SetLocked(lib, item, FALSE))

unlockItem(lib, item, cap) ==
    IF item \notin DOMAIN lib THEN Rejected(lib)
    ELSE IF ~lib[item].locked THEN Ok(lib)
    ELSE IF swappableCount(lib) >= cap.swappableSlots THEN Rejected(lib)
    ELSE Ok(SetLocked(lib, item, FALSE))

-----------------------------------------------------------------------------
(* Naive policies *)

(* Faulty variant: offers locked items too.                                *)
selectOffer_all(lib) == DOMAIN lib

selectOffer(lib) == swappableItems(lib)

Least(m, n) == IF m <= n THEN m ELSE n

(* The accept policy takes unseen items in the order they were offered     *)
(* until the free swappable slots run out.                                 *)
selectAccept(offered, lib, slots) ==
    LET fresh == offered \ DOMAIN lib
        taken == swappableCount(lib)
        remaining == IF taken <= slots THEN slots - taken ELSE 0
    IN  {S \in SUBSET fresh :
            Cardinality(S) = Least(remaining, Cardinality(fresh))}

(* The eviction policy takes exactly as many of the swappable items as     *)
(* incoming needs room for, lowest priority first.                         *)
selectEvict(lib, incoming, slots) ==
    LET swappable == swappableItems(lib)
        wanted == Cardinality(swappable) + Cardinality(incoming)
        needed == IF wanted <= slots THEN 0 ELSE wanted - slots
    IN  {S \in SUBSET swappable :
            /\ Cardinality(S) = Least(needed, Cardinality(swappable))
            /\ \A out \in S, kept \in swappable \ S :
                  lib[out].priority <= lib[kept].priority}
=============================================================================
