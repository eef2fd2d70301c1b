-------------------------- MODULE SwapStateMachine --------------------------
(***************************************************************************)
(* The lifecycle of one swap with a single peer: the pure reducer          *)
(* transition(state, event) of core/src/swap/swap-state-machine.ts.  Each  *)
(* event is an action, enabled in the phase the reducer accepts it in.     *)
(* It is the abstract specification that every swap of SwapService must    *)
(* implement, whatever the network and the peer do.                        *)
(***************************************************************************)
CONSTANT Item

VARIABLES
    phase,      (* SwapPhase                                               *)
    outgoing,   (* toSend, then sent                                       *)
    incoming,   (* toReceive, then received                                *)
    evicted     (* the items reconciliation evicted                        *)

vars == <<phase, outgoing, incoming, evicted>>

Terminal == {"completed", "aborted"}

Phases == {"idle", "discovered", "negotiating", "negotiated", "transferred"} \cup Terminal

(* createInitialSwapState *)
Init ==
    /\ phase = "idle"
    /\ outgoing = {} /\ incoming = {} /\ evicted = {}

PEER_DISCOVERED ==
    /\ phase = "idle" /\ phase' = "discovered"
    /\ UNCHANGED <<outgoing, incoming, evicted>>

BEGIN_NEGOTIATION ==
    /\ phase = "discovered" /\ phase' = "negotiating"
    /\ UNCHANGED <<outgoing, incoming, evicted>>

NEGOTIATION_COMPLETE(toSend, toReceive) ==
    /\ phase = "negotiating" /\ phase' = "negotiated"
    /\ outgoing' = toSend /\ incoming' = toReceive
    /\ UNCHANGED evicted

TRANSFER_COMPLETE(sent, received) ==
    /\ phase = "negotiated" /\ phase' = "transferred"
    /\ outgoing' = sent /\ incoming' = received
    /\ UNCHANGED evicted

RECONCILE_COMPLETE(items) ==
    /\ phase = "transferred" /\ phase' = "completed"
    /\ evicted' = items
    /\ UNCHANGED <<outgoing, incoming>>

(* The aborted state carries nothing but its reason.                       *)
ABORT ==
    /\ phase \notin Terminal /\ phase' = "aborted"
    /\ outgoing' = {} /\ incoming' = {} /\ evicted' = {}

Next ==
    \/ PEER_DISCOVERED
    \/ BEGIN_NEGOTIATION
    \/ \E toSend, toReceive \in SUBSET Item : NEGOTIATION_COMPLETE(toSend, toReceive)
    \/ TRANSFER_COMPLETE(outgoing, incoming)
    \/ \E items \in SUBSET Item : RECONCILE_COMPLETE(items)
    \/ ABORT

Spec == Init /\ [][Next]_vars
=============================================================================
