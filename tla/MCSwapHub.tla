----------------------------- MODULE MCSwapHub ------------------------------
(* SwapService on a node N that swaps with two other devices P and Q, at   *)
(* the same time or one after the other.  P knows of a takedown of item a, *)
(* which N holds.                                                          *)
EXTENDS SwapService, TLC

CONSTANTS N, P, Q, a, b, c, nP, nQ, pN, qN

MCItem == {a, b, c}
MCSize == [i \in MCItem |-> 1]
MCDevice == {N, P, Q}
MCSession == {nP, nQ, pN, qN}
MCOwner == [s \in MCSession |-> CASE s = pN -> P [] s = qN -> Q [] OTHER -> N]
MCPeer == [s \in MCSession |-> CASE s = nP -> P [] s = nQ -> Q [] OTHER -> N]

MCCapacity ==
    [d \in MCDevice |-> [maxLockableSlots |-> 1, swappableSlots |-> 3, maxTotalBytes |-> NoBudget]]

Holding(items) == [i \in items |-> [locked |-> FALSE, priority |-> 0]]

AtNPQ(n, p, q) == [d \in MCDevice |-> CASE d = N -> n [] d = P -> p [] OTHER -> q]

MCInitialStates ==
    {[library |-> AtNPQ(Holding({a}), Holding({b}), Holding({c})),
      log |-> AtNPQ({}, {[item |-> a, authorized |-> TRUE]}, {}),
      suppressed |-> AtNPQ({}, {}, {}),
      faults |-> {},
      edits |-> 0]}
=============================================================================
