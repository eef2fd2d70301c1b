-------------------------- MODULE MCLibraryService --------------------------
(* LibraryService with three items, one of them twice as large, and two    *)
(* calls at a time.  The operator may shrink the swappable pool to nothing, *)
(* and may ask for a capacity that has no slot at all.                     *)
EXTENDS LibraryService, TLC

CONSTANTS a, b, d, c1, c2

MCItem == {a, b, d}
MCSize == [i \in MCItem |-> IF i = d THEN 2 ELSE 1]
MCCaller == {c1, c2}

Cap(lockable, swappable, bytes) ==
    [maxLockableSlots |-> lockable, swappableSlots |-> swappable, maxTotalBytes |-> bytes]

MCConfigured == Cap(1, 1, 2)
MCCapacities == {MCConfigured, Cap(1, 0, 2), Cap(0, 0, 2)}

Symmetry == Permutations({a, b}) \cup Permutations(MCCaller)
=============================================================================
