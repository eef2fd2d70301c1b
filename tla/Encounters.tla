----------------------------- MODULE Encounters -----------------------------
(***************************************************************************)
(* What a device remembers of its swaps with the same peers over time: the *)
(* sliding window of SlidingWindowRateLimiter, the marks of TrustTracker,  *)
(* and how SwapService.swap consults and feeds them.                       *)
(*                                                                         *)
(* A device runs one swap at a time with a peer.  Both memories are        *)
(* pruned at any moment, by a call nothing in the program makes yet.       *)
(***************************************************************************)
EXTENDS Integers, FiniteSets

CONSTANTS
    Peer,               (* addresses of peers                               *)
    Node,               (* those of kind "node": only they are tracked      *)
    MaxEvents, Window,  (* SlidingWindowRateLimiterOptions                  *)
    SwappableSlots,     (* of this device's capacity                        *)
    MaxAge,             (* of TrustTracker.prune                            *)
    MaxTime,            (* bound on the clock                               *)
    MaxAttempts         (* bound on the attempts of all peers               *)

ASSUME PeerAssumption == Node \subseteq Peer
ASSUME LimiterAssumption == MaxEvents \in Nat \ {0} /\ Window \in Nat \ {0}
ASSUME TrustAssumption == SwappableSlots \in Nat /\ MaxAge \in Nat
ASSUME BoundAssumption == MaxTime \in Nat /\ MaxAttempts \in Nat

VARIABLES
    now,            (* ClockPort                                            *)
    timestamps,     (* timestampsByKey; {} for a key that is not there      *)
    trust,          (* stateByKey of the TrustTracker                       *)
    swap,           (* swap[p]: the swap in progress with p; `at` is the    *)
                    (* clock it read for its offer                          *)
    attempts,       (* history: attempts[p], every attempt of p             *)
    admitted        (* history: those that were allowed                     *)

vars == <<now, timestamps, trust, swap, attempts, admitted>>

Time == 0..MaxTime

(* A timestamp: the clock it was read from and, since an array may hold    *)
(* several equal ones, which of that instant it is.                        *)
Event == [at : Time, nth : Nat]

Unseen == [reciprocalCount |-> 0, badCount |-> 0, lastSeen |-> -1]

Seen(p) == trust[p] # Unseen

NoSwap == [stage |-> "none", at |-> 0, accepted |-> 0]

(* Every state is well typed, and a person is never tracked.               *)
TypeOK ==
    /\ now \in Time
    /\ timestamps \in [Peer -> SUBSET Event]
    /\ trust \in [Peer -> [reciprocalCount : Nat, badCount : Nat, lastSeen : Time \cup {-1}]]
    /\ \A p \in Peer : p \notin Node => ~Seen(p)
    /\ swap \in [Peer -> [stage : {"none", "admitted", "offering", "transferring"}, at : Time,
                          accepted : 0..SwappableSlots]]
    /\ attempts \in [Peer -> SUBSET Event]
    /\ admitted \in [Peer -> SUBSET Event]

Init ==
    /\ now = 0
    /\ timestamps = [p \in Peer |-> {}]
    /\ trust = [p \in Peer |-> Unseen]
    /\ swap = [p \in Peer |-> NoSwap]
    /\ attempts = [p \in Peer |-> {}]
    /\ admitted = [p \in Peer |-> {}]

-----------------------------------------------------------------------------
(* SlidingWindowRateLimiter *)

withinWindow(events) == {e \in events : e.at > now - Window}

peek(p) == Cardinality(withinWindow(timestamps[p])) < MaxEvents

-----------------------------------------------------------------------------
(* TrustTracker *)

netPenalty(state) ==
    IF state.badCount > state.reciprocalCount THEN state.badCount - state.reciprocalCount ELSE 0

(* Faulty variant: persons are tracked as well.                            *)
recordOutcome_anyone(p, reciprocal, bad, at) ==
    [trust EXCEPT ![p] = [reciprocalCount |-> @.reciprocalCount + reciprocal,
                          badCount |-> @.badCount + bad, lastSeen |-> at]]

(* A mark recorded for p while the clock reads `at`; a person leaves none. *)
recordOutcome(p, reciprocal, bad, at) ==
    IF p \notin Node THEN trust
    ELSE [trust EXCEPT ![p] = [reciprocalCount |-> @.reciprocalCount + reciprocal,
                               badCount |-> @.badCount + bad, lastSeen |-> at]]

(* createTrustAdjustedAcceptPolicy: floor(slots * 1 / (1 + penalty)).  The *)
(* product is a double: from 49 slots on it may round to one item less.    *)
acceptCap(state) == SwappableSlots \div (1 + netPenalty(state))

-----------------------------------------------------------------------------
(* swap() *)

Total == Cardinality(UNION {{p} \X attempts[p] : p \in Peer})

Attempt(p) == [at |-> now, nth |-> Cardinality({e \in attempts[p] : e.at = now})]

Attempted(p) ==
    /\ swap[p] = NoSwap /\ Total < MaxAttempts
    /\ timestamps' = [timestamps EXCEPT ![p] = withinWindow(@) \cup {Attempt(p)}]
    /\ attempts' = [attempts EXCEPT ![p] = @ \cup {Attempt(p)}]

(* Allowed: the event is counted whatever the answer is.                   *)
Admit(p) ==
    /\ Attempted(p)
    /\ Cardinality(timestamps'[p]) <= MaxEvents
    /\ admitted' = [admitted EXCEPT ![p] = @ \cup {Attempt(p)}]
    /\ swap' = [swap EXCEPT ![p].stage = "admitted"]
    /\ UNCHANGED <<now, trust>>

(* Faulty variant: a refused attempt is not counted.                       *)
Throttle_uncounted(p) ==
    /\ swap[p] = NoSwap /\ Total < MaxAttempts
    /\ Cardinality(withinWindow(timestamps[p])) >= MaxEvents
    /\ attempts' = [attempts EXCEPT ![p] = @ \cup {Attempt(p)}]
    /\ trust' = recordOutcome(p, 0, 1, now)
    /\ UNCHANGED <<now, timestamps, swap, admitted>>

Throttle(p) ==
    /\ Attempted(p)
    /\ Cardinality(timestamps'[p]) > MaxEvents
    /\ trust' = recordOutcome(p, 0, 1, now)
    /\ UNCHANGED <<now, swap, admitted>>

(* After the revocation round.                                             *)
SelectOffer(p) ==
    /\ swap[p].stage = "admitted"
    /\ swap' = [swap EXCEPT ![p].stage = "offering", ![p].at = now]
    /\ UNCHANGED <<now, timestamps, trust, attempts, admitted>>

(* The peer's offer arrives, with some oversized and some unverifiable     *)
(* items: a mark for each of the two, and then the accept step, whose      *)
(* policy selects as many items as it likes within the ceiling.            *)
HandleOffer(p) ==
    /\ swap[p].stage = "offering"
    /\ \E oversized, unverified \in 0..1 :
         LET bad == oversized + unverified IN
         /\ trust' = IF bad = 0 THEN trust ELSE recordOutcome(p, 0, bad, swap[p].at)
         /\ \E accepted \in 0..acceptCap(trust'[p]) :
              swap' = [swap EXCEPT ![p].stage = "transferring", ![p].accepted = accepted]
    /\ UNCHANGED <<now, timestamps, attempts, admitted>>

Finish(p) ==
    /\ swap[p].stage = "transferring"
    /\ \E sent \in BOOLEAN :
         trust' = recordOutcome(p, IF sent /\ swap[p].accepted > 0 THEN 1 ELSE 0, 0, swap[p].at)
    /\ swap' = [swap EXCEPT ![p] = NoSwap]
    /\ UNCHANGED <<now, timestamps, attempts, admitted>>

(* The swap aborts in any round: no mark.                                  *)
Abort(p) ==
    /\ swap[p] # NoSwap
    /\ swap' = [swap EXCEPT ![p] = NoSwap]
    /\ UNCHANGED <<now, timestamps, trust, attempts, admitted>>

-----------------------------------------------------------------------------
(* Pruning, and the clock *)

(* Faulty variant: drops every key whose oldest event has left the window. *)
pruneLimiter_oldest ==
    /\ timestamps' = [p \in Peer |-> IF withinWindow(timestamps[p]) # timestamps[p]
                                     THEN {} ELSE timestamps[p]]
    /\ UNCHANGED <<now, trust, swap, attempts, admitted>>

pruneLimiter ==
    /\ timestamps' = [p \in Peer |-> withinWindow(timestamps[p])]
    /\ UNCHANGED <<now, trust, swap, attempts, admitted>>

(* Faulty variant: one instant early.                                      *)
Stale_early(p) == Seen(p) /\ now - trust[p].lastSeen >= MaxAge

Stale(p) == Seen(p) /\ now - trust[p].lastSeen > MaxAge

pruneTrust ==
    /\ trust' = [p \in Peer |-> IF Stale(p) THEN Unseen ELSE trust[p]]
    /\ UNCHANGED <<now, timestamps, swap, attempts, admitted>>

Tick ==
    /\ now < MaxTime
    /\ now' = now + 1
    /\ UNCHANGED <<timestamps, trust, swap, attempts, admitted>>

Next ==
    \/ \E p \in Peer :
          \/ Admit(p) \/ Throttle(p) \/ SelectOffer(p)
          \/ HandleOffer(p) \/ Finish(p) \/ Abort(p)
    \/ pruneLimiter \/ pruneTrust \/ Tick

Spec == Init /\ [][Next]_vars

-----------------------------------------------------------------------------
(* Properties *)

(* The events that lie in the window that ends at t.                       *)
Trailing(events, t) == {e \in events : e.at <= t /\ e.at > t - Window}

(* "No more than maxEvents events with timestamps within the last          *)
(* windowMs": wherever the window is laid, and whenever either memory was  *)
(* pruned.                                                                 *)
NoBurst ==
    \A p \in Peer : \A t \in Time : Cardinality(Trailing(admitted[p], t)) <= MaxEvents

(* The rate limiter answers as if it had kept every attempt ever made:     *)
(* neither pruning nor the filtering on each event changes a decision.     *)
ForgetsNothingRecent ==
    \A p \in Peer : peek(p) <=> Cardinality(Trailing(attempts[p], now)) < MaxEvents

(* TrustTracker: "forgiveness only through good behaviour": the penalty of *)
(* a peer goes down by one, when a swap with it ends in which it gave      *)
(* something, or when the peer is forgotten after MaxAge of silence.  So a *)
(* peer from which nothing may be accepted any more cannot be forgiven by  *)
(* a swap at all.                                                          *)
ForgivenByReciprocity ==
    [][\A p \in Peer :
          netPenalty(trust'[p]) < netPenalty(trust[p])
              => \/ /\ netPenalty(trust'[p]) = netPenalty(trust[p]) - 1
                    /\ swap[p].accepted > 0 /\ swap'[p] = NoSwap
                 \/ trust'[p] = Unseen /\ now - trust[p].lastSeen > MaxAge]_vars
=============================================================================
