------------------------ MODULE MCDeferredBlobQueue -------------------------
(* DeferredBlobQueue with two blobs and two calls at a time; a blob has    *)
(* two attempts, the second one tick after the first.                      *)
EXTENDS DeferredBlobQueue, TLC

CONSTANTS x, y, c1, c2

MCBlob == {x, y}
MCCaller == {c1, c2}

Symmetry == Permutations(MCCaller) \cup Permutations(MCBlob)
=============================================================================
