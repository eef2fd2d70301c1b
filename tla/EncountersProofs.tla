-------------------------- MODULE EncountersProofs --------------------------
(* What a device remembers of its encounters, for every number of peers    *)
(* and attempts, every limit and every window.                             *)
(*                                                                         *)
(* The rate limiter keeps the last window of events and its properties     *)
(* speak of all of them: EventsInv says that the two agree wherever it     *)
(* matters, through every filter and pruning.                              *)
EXTENDS Encounters, FiniteSetTheorems, TLAPS

-----------------------------------------------------------------------------
(* The operators *)

LEMMA Numbers ==
    /\ MaxEvents \in Nat /\ MaxEvents > 0 /\ Window \in Nat /\ Window > 0
    /\ SwappableSlots \in Nat /\ MaxAge \in Nat /\ MaxTime \in Nat
    /\ Time \subseteq Nat
BY LimiterAssumption, TrustAssumption, BoundAssumption DEF Time

TrustState == [reciprocalCount : Nat, badCount : Nat, lastSeen : Time \cup {-1}]

Swap == [stage : {"none", "admitted", "offering", "transferring"}, at : Time,
         accepted : 0..SwappableSlots]

LEMMA UnseenTyped == Unseen \in TrustState
BY DEF Unseen, TrustState

LEMMA NoSwapTyped == NoSwap \in Swap
BY Numbers DEF NoSwap, Swap, Time

LEMMA PenaltyTyped == ASSUME NEW s \in TrustState PROVE netPenalty(s) \in Nat
BY DEF TrustState, netPenalty

(* However good its record, a peer never gets more than all the slots.     *)
LEMMA CapWithinSlots ==
    ASSUME NEW s \in TrustState
    PROVE  acceptCap(s) \in 0..SwappableSlots
<1> DEFINE d == 1 + netPenalty(s)
<1>1. d \in Nat /\ d >= 1 BY PenaltyTyped
<1> HIDE DEF d
<1>2. \A m, n \in Nat : n >= 1 => m \div n \in Nat /\ m \div n <= m
  OBVIOUS
<1>3. SwappableSlots \div d \in 0..SwappableSlots BY <1>1, <1>2, Numbers
<1> QED BY <1>3 DEF acceptCap, d

(* A mark leaves every record typed, and a person without one.             *)
LEMMA RecordedTyped ==
    ASSUME trust \in [Peer -> TrustState], \A p \in Peer : p \notin Node => ~Seen(p),
           NEW p \in Peer, NEW reciprocal \in Nat, NEW bad \in Nat, NEW at \in Time,
           trust' = recordOutcome(p, reciprocal, bad, at)
    PROVE  /\ trust' \in [Peer -> TrustState]
           /\ \A q \in Peer : q \notin Node => ~Seen(q)'
           /\ \A q \in Peer \ {p} : trust'[q] = trust[q]
           /\ p \in Node => trust'[p] = [reciprocalCount |-> trust[p].reciprocalCount + reciprocal,
                                         badCount |-> trust[p].badCount + bad, lastSeen |-> at]
           /\ p \notin Node => trust'[p] = trust[p]
<1>1. CASE p \notin Node
  <2>1. trust' = trust BY <1>1 DEF recordOutcome
  <2> QED BY <1>1, <2>1 DEF Seen
<1>2. CASE p \in Node
  <2> DEFINE r == [reciprocalCount |-> trust[p].reciprocalCount + reciprocal,
                   badCount |-> trust[p].badCount + bad, lastSeen |-> at]
  <2>1. trust' = [trust EXCEPT ![p] = r] BY <1>2 DEF recordOutcome
  <2>2. r \in TrustState BY DEF TrustState
  <2> HIDE DEF r
  <2>3. /\ trust' \in [Peer -> TrustState] /\ trust'[p] = r
        /\ \A q \in Peer \ {p} : trust'[q] = trust[q]
    BY <2>1, <2>2
  <2>4. \A q \in Peer : q \notin Node => ~Seen(q)' BY <1>2, <2>3 DEF Seen
  <2> QED BY <1>2, <2>3, <2>4 DEF r
<1> QED BY <1>1, <1>2

-----------------------------------------------------------------------------
(* Types *)

Untracked == \A p \in Peer : p \notin Node => ~Seen(p)

LEMMA TypeParts ==
    TypeOK <=> /\ now \in Time
               /\ timestamps \in [Peer -> SUBSET Event]
               /\ trust \in [Peer -> TrustState]
               /\ Untracked
               /\ swap \in [Peer -> Swap]
               /\ attempts \in [Peer -> SUBSET Event]
               /\ admitted \in [Peer -> SUBSET Event]
BY DEF TypeOK, Untracked, TrustState, Swap

(* An attempt is an event, for a finite history.                           *)
LEMMA AttemptTyped ==
    ASSUME TypeOK, NEW p \in Peer, IsFiniteSet(attempts[p])
    PROVE  Attempt(p) \in Event
<1> DEFINE same == {e \in attempts[p] : e.at = now}
<1>1. Cardinality(same) \in Nat BY FS_Subset, FS_CardinalityType
<1>2. now \in Time BY DEF TypeOK
<1> QED BY <1>1, <1>2 DEF Attempt, Event

(* The types need the histories to be finite, since an attempt is numbered *)
(* by counting them.                                                       *)
Finite == \A p \in Peer : IsFiniteSet(attempts[p])

TypeInv == TypeOK /\ Finite

LEMMA InitTyped == Init => TypeInv
<1> SUFFICES ASSUME Init PROVE TypeInv OBVIOUS
<1>1. Finite BY FS_EmptySet DEF Init, Finite
<1>2. now \in Time BY Numbers DEF Init, Time
<1>3. trust \in [Peer -> TrustState] /\ Untracked BY UnseenTyped DEF Init, Untracked, Seen
<1>4. swap \in [Peer -> Swap] BY NoSwapTyped DEF Init
<1>5. /\ timestamps \in [Peer -> SUBSET Event] /\ attempts \in [Peer -> SUBSET Event]
      /\ admitted \in [Peer -> SUBSET Event]
  BY DEF Init
<1> QED BY <1>1, <1>2, <1>3, <1>4, <1>5, TypeParts DEF TypeInv

(* An attempt counted, whatever its answer.                                *)
LEMMA AttemptedTyped ==
    ASSUME TypeInv, NEW p \in Peer, Attempted(p)
    PROVE  /\ Attempt(p) \in Event
           /\ timestamps' \in [Peer -> SUBSET Event] /\ attempts' \in [Peer -> SUBSET Event]
           /\ Finite'
<1> DEFINE e == Attempt(p)
<1>1. e \in Event BY AttemptTyped DEF TypeInv, Finite
<1>2. /\ timestamps' = [timestamps EXCEPT ![p] = withinWindow(timestamps[p]) \cup {e}]
      /\ attempts' = [attempts EXCEPT ![p] = attempts[p] \cup {e}]
  BY DEF Attempted
<1>3. withinWindow(timestamps[p]) \subseteq timestamps[p] BY DEF withinWindow
<1>4. timestamps \in [Peer -> SUBSET Event] /\ attempts \in [Peer -> SUBSET Event]
  BY DEF TypeInv, TypeOK
<1> HIDE DEF e
<1>5. /\ timestamps' \in [Peer -> SUBSET Event] /\ attempts' \in [Peer -> SUBSET Event]
  BY <1>1, <1>2, <1>3, <1>4
<1>6. IsFiniteSet(attempts[p] \cup {e}) BY FS_AddElement DEF TypeInv, Finite
<1>7. Finite' BY <1>2, <1>4, <1>6 DEF TypeInv, Finite
<1> QED BY <1>1, <1>5, <1>7 DEF e

LEMMA NextTyped == TypeInv /\ [Next]_vars => TypeInv'
<1> SUFFICES ASSUME TypeInv, [Next]_vars PROVE TypeInv' OBVIOUS
<1>t. /\ now \in Time
      /\ timestamps \in [Peer -> SUBSET Event]
      /\ trust \in [Peer -> TrustState]
      /\ Untracked
      /\ swap \in [Peer -> Swap]
      /\ attempts \in [Peer -> SUBSET Event]
      /\ admitted \in [Peer -> SUBSET Event]
  BY TypeParts DEF TypeInv
<1>f. Finite BY DEF TypeInv
<1>p. TypeOK' <=> (/\ now \in Time
                   /\ timestamps \in [Peer -> SUBSET Event]
                   /\ trust \in [Peer -> TrustState]
                   /\ Untracked
                   /\ swap \in [Peer -> Swap]
                   /\ attempts \in [Peer -> SUBSET Event]
                   /\ admitted \in [Peer -> SUBSET Event])'
  BY TypeParts, PTL
<1>s. ASSUME NEW p \in Peer, NEW s \in Swap, swap' = [swap EXCEPT ![p] = s]
      PROVE  swap' \in [Peer -> Swap]
  BY <1>t, <1>s
<1>g. ASSUME NEW p \in Peer, NEW b, swap' = [swap EXCEPT ![p].stage = b],
             b \in {"none", "admitted", "offering", "transferring"}
      PROVE  swap' \in [Peer -> Swap]
  <2> DEFINE s == [swap[p] EXCEPT !.stage = b]
  <2>1. swap' = [swap EXCEPT ![p] = s] BY <1>g
  <2>2. s \in Swap BY <1>t, <1>g DEF Swap
  <2> HIDE DEF s
  <2> QED BY <1>s, <2>1, <2>2
<1>r. ASSUME NEW p \in Peer, NEW reciprocal \in Nat, NEW bad \in Nat, NEW at \in Time,
             trust' = recordOutcome(p, reciprocal, bad, at)
      PROVE  trust' \in [Peer -> TrustState] /\ Untracked'
  BY <1>t, <1>r, RecordedTyped DEF Untracked
<1>1. ASSUME NEW p \in Peer, Admit(p) PROVE TypeInv'
  <2> USE <1>1 DEF Admit
  <2>1. /\ Attempt(p) \in Event /\ Finite'
        /\ timestamps' \in [Peer -> SUBSET Event] /\ attempts' \in [Peer -> SUBSET Event]
    BY AttemptedTyped
  <2>2. admitted' \in [Peer -> SUBSET Event]
    <3>1. admitted' = [admitted EXCEPT ![p] = admitted[p] \cup {Attempt(p)}] OBVIOUS
    <3> QED BY <1>t, <2>1, <3>1 DEF Event
  <2>3. swap' \in [Peer -> Swap] BY <1>g
  <2>4. now' \in Time /\ trust' \in [Peer -> TrustState] /\ Untracked'
    BY <1>t DEF Untracked, Seen
  <2> QED BY <1>p, <2>1, <2>2, <2>3, <2>4 DEF TypeInv
<1>2. ASSUME NEW p \in Peer, Throttle(p) PROVE TypeInv'
  <2> USE <1>2 DEF Throttle
  <2>1. /\ Finite'
        /\ timestamps' \in [Peer -> SUBSET Event] /\ attempts' \in [Peer -> SUBSET Event]
    BY AttemptedTyped
  <2>2. trust' \in [Peer -> TrustState] /\ Untracked' BY <1>t, <1>r
  <2> QED BY <1>t, <1>p, <2>1, <2>2 DEF TypeInv
<1>3. ASSUME NEW p \in Peer, SelectOffer(p) PROVE TypeInv'
  <2> USE <1>3 DEF SelectOffer
  <2> DEFINE s == [swap[p] EXCEPT !.stage = "offering", !.at = now]
  <2>1. s \in Swap BY <1>t DEF Swap
  <2>2. swap' = [swap EXCEPT ![p] = s] OBVIOUS
  <2> HIDE DEF s
  <2>3. swap' \in [Peer -> Swap] BY <1>s, <2>1, <2>2
  <2> QED BY <1>t, <1>f, <1>p, <2>3 DEF TypeInv, Finite, Untracked, Seen
<1>4. ASSUME NEW p \in Peer, HandleOffer(p) PROVE TypeInv'
  <2> USE <1>4 DEF HandleOffer
  <2>1. PICK oversized \in 0..1, unverified \in 0..1 :
            LET bad == oversized + unverified IN
            /\ trust' = IF bad = 0 THEN trust ELSE recordOutcome(p, 0, bad, swap[p].at)
            /\ \E accepted \in 0..acceptCap(trust'[p]) :
                 swap' = [swap EXCEPT ![p].stage = "transferring", ![p].accepted = accepted]
    OBVIOUS
  <2> DEFINE bad == oversized + unverified
  <2>2. bad \in Nat /\ swap[p].at \in Time BY <1>t DEF Swap
  <2>3. trust' = IF bad = 0 THEN trust ELSE recordOutcome(p, 0, bad, swap[p].at) BY <2>1
  <2>4. PICK accepted \in 0..acceptCap(trust'[p]) :
            swap' = [swap EXCEPT ![p].stage = "transferring", ![p].accepted = accepted]
    BY <2>1
  <2> HIDE DEF bad
  <2>5. trust' \in [Peer -> TrustState] /\ Untracked'
    <3>1. CASE bad = 0 BY <1>t, <2>3, <3>1 DEF Untracked, Seen
    <3>2. CASE bad # 0 BY <1>r, <2>2, <2>3, <3>2
    <3> QED BY <3>1, <3>2
  <2>6. acceptCap(trust'[p]) \in 0..SwappableSlots BY <2>5, CapWithinSlots
  <2>7. accepted \in 0..SwappableSlots BY <2>6, Numbers
  <2> DEFINE s == [stage |-> "transferring", at |-> swap[p].at, accepted |-> accepted]
  <2>8. s \in Swap BY <2>2, <2>7 DEF Swap
  <2>9. swap' = [swap EXCEPT ![p] = s]
    <3>1. swap[p] \in Swap BY <1>t
    <3>2. swap[p] = [stage |-> swap[p].stage, at |-> swap[p].at, accepted |-> swap[p].accepted]
      BY <3>1 DEF Swap
    <3> QED BY <1>t, <2>4, <3>2
  <2> HIDE DEF s
  <2>10. swap' \in [Peer -> Swap] BY <1>s, <2>8, <2>9
  <2> QED BY <1>t, <1>f, <1>p, <2>5, <2>10 DEF TypeInv, Finite
<1>5. ASSUME NEW p \in Peer, Finish(p) PROVE TypeInv'
  <2> USE <1>5 DEF Finish
  <2>1. PICK sent \in BOOLEAN :
            trust' = recordOutcome(p, IF sent /\ swap[p].accepted > 0 THEN 1 ELSE 0, 0, swap[p].at)
    OBVIOUS
  <2> DEFINE gave == IF sent /\ swap[p].accepted > 0 THEN 1 ELSE 0
  <2>2. gave \in Nat /\ trust' = recordOutcome(p, gave, 0, swap[p].at) BY <2>1
  <2>3. swap[p].at \in Time BY <1>t DEF Swap
  <2> HIDE DEF gave
  <2>4. trust' \in [Peer -> TrustState] /\ Untracked' BY <1>r, <2>2, <2>3
  <2>5. swap' \in [Peer -> Swap] BY <1>s, NoSwapTyped
  <2> QED BY <1>t, <1>f, <1>p, <2>4, <2>5 DEF TypeInv, Finite
<1>6. ASSUME NEW p \in Peer, Abort(p) PROVE TypeInv'
  <2> USE <1>6 DEF Abort
  <2>1. swap' \in [Peer -> Swap] BY <1>s, NoSwapTyped
  <2> QED BY <1>t, <1>f, <1>p, <2>1 DEF TypeInv, Finite, Untracked, Seen
<1>7. CASE pruneLimiter
  <2> USE <1>7 DEF pruneLimiter
  <2>1. timestamps' \in [Peer -> SUBSET Event] BY <1>t DEF withinWindow
  <2> QED BY <1>t, <1>f, <1>p, <2>1 DEF TypeInv, Finite, Untracked, Seen
<1>8. CASE pruneTrust
  <2> USE <1>8 DEF pruneTrust
  <2>1. trust' \in [Peer -> TrustState] BY <1>t, UnseenTyped
  <2>2. Untracked' BY <1>t DEF Untracked, Seen
  <2> QED BY <1>t, <1>f, <1>p, <2>1, <2>2 DEF TypeInv, Finite
<1>9. CASE Tick
  <2> USE <1>9 DEF Tick
  <2>1. now' \in Time BY <1>t, Numbers DEF Time
  <2> QED BY <1>t, <1>f, <1>p, <2>1 DEF TypeInv, Finite, Untracked, Seen
<1>10. CASE UNCHANGED vars
  <2> USE <1>10 DEF vars
  <2> QED BY <1>t, <1>f, <1>p DEF TypeInv, Finite, Untracked, Seen
<1> QED BY <1>1, <1>2, <1>3, <1>4, <1>5, <1>6, <1>7, <1>8, <1>9, <1>10 DEF Next

(* Whatever a device does with its peers, every record it keeps of them is *)
(* well formed, and it keeps none of a person.                             *)
THEOREM TypeCorrect == Spec => []TypeOK
<1>1. Spec => []TypeInv BY InitTyped, NextTyped, PTL DEF Spec
<1>2. TypeInv => TypeOK BY DEF TypeInv
<1> QED BY <1>1, <1>2, PTL

-----------------------------------------------------------------------------
(* The rate limiter *)

(* What it keeps is of the attempts there were, and is all of them within  *)
(* the window; no attempt is ahead of the clock, and those of one instant  *)
(* are numbered from 0.                                                    *)
EventsInv ==
    \A p \in Peer :
        /\ \A e \in attempts[p] :
             e.at <= now /\ e.nth < Cardinality({f \in attempts[p] : f.at = e.at})
        /\ withinWindow(attempts[p]) \subseteq timestamps[p]
        /\ timestamps[p] \subseteq attempts[p]
        /\ admitted[p] \subseteq attempts[p]

(* The instant of an attempt is a number.                                  *)
LEMMA EventsTimed ==
    ASSUME attempts \in [Peer -> SUBSET Event], NEW p \in Peer, NEW f \in attempts[p]
    PROVE  f.at \in Nat
<1>1. f \in Event OBVIOUS
<1>2. f.at \in Time BY <1>1 DEF Event
<1> QED BY <1>2, Numbers

(* An attempt is never taken for an earlier one: the sets count as the     *)
(* arrays do.                                                              *)
LEMMA AttemptIsNew ==
    ASSUME TypeInv, EventsInv, NEW p \in Peer
    PROVE  Attempt(p) \notin attempts[p]
<1> SUFFICES ASSUME Attempt(p) \in attempts[p] PROVE FALSE OBVIOUS
<1> DEFINE n == Cardinality({f \in attempts[p] : f.at = now})
<1>1. Attempt(p).at = now /\ Attempt(p).nth = n BY DEF Attempt
<1>2. Attempt(p).nth < Cardinality({f \in attempts[p] : f.at = Attempt(p).at})
  BY DEF EventsInv
<1>3. n < n BY <1>1, <1>2
<1>4. n \in Nat BY FS_Subset, FS_CardinalityType DEF TypeInv, Finite
<1> HIDE DEF n
<1> QED BY <1>3, <1>4

(* One more attempt, whatever its answer: the next window holds it, and    *)
(* every earlier one of its length.                                        *)
LEMMA AttemptedEvents ==
    ASSUME TypeInv, EventsInv, NEW p \in Peer, Attempted(p), now' = now,
           admitted' = admitted \/ admitted' = [admitted EXCEPT ![p] = @ \cup {Attempt(p)}]
    PROVE  EventsInv'
<1> DEFINE e == Attempt(p)
           A == attempts[p]
           At(t) == {f \in A : f.at = t}
<1>t. /\ now \in Nat
      /\ timestamps \in [Peer -> SUBSET Event] /\ attempts \in [Peer -> SUBSET Event]
      /\ admitted \in [Peer -> SUBSET Event]
      /\ IsFiniteSet(A)
  BY Numbers DEF TypeInv, TypeOK, Finite
<1>e. e \in Event /\ e.at = now /\ e.nth = Cardinality(At(now)) /\ e \notin A
  BY AttemptedTyped, AttemptIsNew DEF Attempt
<1>a. /\ timestamps' = [timestamps EXCEPT ![p] = withinWindow(timestamps[p]) \cup {e}]
      /\ attempts' = [attempts EXCEPT ![p] = A \cup {e}]
  BY DEF Attempted
<1> HIDE DEF e
<1>b. /\ timestamps'[p] = withinWindow(timestamps[p]) \cup {e} /\ attempts'[p] = A \cup {e}
      /\ \A q \in Peer \ {p} : timestamps'[q] = timestamps[q] /\ attempts'[q] = attempts[q]
      /\ \A q \in Peer \ {p} : admitted'[q] = admitted[q]
      /\ admitted'[p] \subseteq admitted[p] \cup {e}
  BY <1>t, <1>a DEF e
<1>i. /\ \A f \in A : f.at <= now /\ f.nth < Cardinality({g \in A : g.at = f.at})
      /\ withinWindow(A) \subseteq timestamps[p] /\ timestamps[p] \subseteq A
      /\ admitted[p] \subseteq A
  BY DEF EventsInv
<1>1. ASSUME NEW f \in A \cup {e}
      PROVE  f.at <= now /\ f.nth < Cardinality({g \in A \cup {e} : g.at = f.at})
  <2> DEFINE after == {g \in A \cup {e} : g.at = f.at}
  <2>0. f \in Event /\ f.nth \in Nat BY <1>t, <1>e DEF Event
  <2>1. after \subseteq A \cup {e} /\ IsFiniteSet(A \cup {e}) BY <1>t, FS_AddElement
  <2>2. IsFiniteSet(after) /\ Cardinality(after) \in Nat BY <2>1, FS_Subset, FS_CardinalityType
  <2>3. CASE f \in A
    <3>1. At(f.at) \subseteq after OBVIOUS
    <3>2. Cardinality(At(f.at)) \in Nat /\ Cardinality(At(f.at)) <= Cardinality(after)
      BY <2>2, <3>1, FS_Subset, FS_CardinalityType
    <3>3. f.at <= now /\ f.nth < Cardinality(At(f.at)) BY <1>i, <2>3
    <3> HIDE DEF after, At
    <3>4. f.nth < Cardinality(after) BY <2>0, <2>2, <3>2, <3>3
    <3> QED BY <3>3, <3>4 DEF after
  <2>4. CASE f = e
    <3>1. after = At(now) \cup {e} /\ e \notin At(now) BY <1>e, <2>4
    <3>2. IsFiniteSet(At(now)) /\ Cardinality(At(now)) \in Nat
      BY <1>t, FS_Subset, FS_CardinalityType
    <3>3. Cardinality(after) = Cardinality(At(now)) + 1 BY <3>1, <3>2, FS_AddElement
    <3> HIDE DEF after, At
    <3>4. f.at <= now /\ f.nth < Cardinality(after) BY <1>t, <1>e, <2>4, <3>2, <3>3
    <3> QED BY <3>4 DEF after
  <2> QED BY <2>3, <2>4
<1>2. ASSUME NEW f \in A \cup {e}, f.at > now - Window
      PROVE  f \in withinWindow(timestamps[p]) \cup {e}
  BY <1>2, <1>i DEF withinWindow
<1>3. withinWindow(timestamps[p]) \subseteq timestamps[p] BY DEF withinWindow
<1>4. ASSUME NEW q \in Peer
      PROVE  /\ \A f \in attempts'[q] :
                  f.at <= now /\ f.nth < Cardinality({g \in attempts'[q] : g.at = f.at})
             /\ \A f \in attempts'[q] : f.at > now - Window => f \in timestamps'[q]
             /\ timestamps'[q] \subseteq attempts'[q]
             /\ admitted'[q] \subseteq attempts'[q]
  <2>1. CASE q = p
    <3>1. /\ timestamps'[q] \subseteq attempts'[q] /\ admitted'[q] \subseteq attempts'[q]
      BY <1>b, <1>i, <1>3, <2>1
    <3>2. \A f \in attempts'[q] : f.at > now - Window => f \in timestamps'[q]
      BY <1>b, <1>2, <2>1
    <3>3. \A f \in attempts'[q] :
             f.at <= now /\ f.nth < Cardinality({g \in attempts'[q] : g.at = f.at})
      BY <1>b, <1>1, <2>1
    <3> QED BY <3>1, <3>2, <3>3
  <2>2. CASE q # p
    <3>1. timestamps'[q] = timestamps[q] /\ attempts'[q] = attempts[q] /\ admitted'[q] = admitted[q]
      BY <1>b, <2>2
    <3> QED BY <3>1 DEF EventsInv, withinWindow
  <2> QED BY <2>1, <2>2
<1> QED BY <1>4 DEF EventsInv, withinWindow

LEMMA InitEvents == Init => EventsInv
BY DEF Init, EventsInv, withinWindow

LEMMA NextEvents == TypeInv /\ EventsInv /\ [Next]_vars => EventsInv'
<1> SUFFICES ASSUME TypeInv, EventsInv, [Next]_vars PROVE EventsInv' OBVIOUS
<1>n. now \in Nat /\ Window \in Nat BY Numbers DEF TypeInv, TypeOK
<1>0. ASSUME now' = now, attempts' = attempts, admitted' = admitted, timestamps' = timestamps
      PROVE  EventsInv'
  BY <1>0 DEF EventsInv, withinWindow
<1>1. ASSUME NEW p \in Peer, Admit(p) PROVE EventsInv'
  BY <1>1, AttemptedEvents DEF Admit
<1>2. ASSUME NEW p \in Peer, Throttle(p) PROVE EventsInv'
  BY <1>2, AttemptedEvents DEF Throttle
<1>3. ASSUME NEW p \in Peer, SelectOffer(p) \/ HandleOffer(p) \/ Finish(p) \/ Abort(p)
      PROVE  EventsInv'
  BY <1>0, <1>3 DEF SelectOffer, HandleOffer, Finish, Abort
<1>4. CASE pruneLimiter
  <2> USE <1>4 DEF pruneLimiter
  <2>1. \A p \in Peer : timestamps'[p] = withinWindow(timestamps[p]) OBVIOUS
  <2> HIDE DEF pruneLimiter
  <2>2. now' = now /\ attempts' = attempts /\ admitted' = admitted BY DEF pruneLimiter
  <2> HIDE <1>4
  <2> QED BY <2>1, <2>2 DEF EventsInv, withinWindow
<1>5. CASE pruneTrust BY <1>0, <1>5 DEF pruneTrust
<1>6. CASE Tick
  <2> USE <1>6 DEF Tick
  <2>1. ASSUME NEW p \in Peer, NEW f \in attempts[p]
        PROVE  f.at <= now' /\ (f.at > now' - Window => f.at > now - Window)
    <3>1. f.at \in Nat BY EventsTimed DEF TypeInv, TypeOK
    <3>2. f.at <= now /\ now' = now + 1 BY DEF EventsInv
    <3> QED BY <1>n, <3>1, <3>2
  <2> QED BY <2>1 DEF EventsInv, withinWindow
<1>7. CASE UNCHANGED vars BY <1>0, <1>7 DEF vars
<1> QED BY <1>1, <1>2, <1>3, <1>4, <1>5, <1>6, <1>7 DEF Next

LEMMA EventsFollowed == Spec => [](TypeInv /\ EventsInv)
<1>1. Init => TypeInv /\ EventsInv BY InitTyped, InitEvents
<1>2. TypeInv /\ EventsInv /\ [Next]_vars => (TypeInv /\ EventsInv)' BY NextTyped, NextEvents
<1> QED BY <1>1, <1>2, PTL DEF Spec

(* Whatever was filtered or pruned, the limiter answers as if it had kept  *)
(* every attempt.                                                          *)
THEOREM NothingRecentForgotten == Spec => []ForgetsNothingRecent
<1>1. TypeInv /\ EventsInv => ForgetsNothingRecent
  <2> SUFFICES ASSUME TypeInv, EventsInv, NEW p \in Peer
               PROVE  withinWindow(timestamps[p]) = Trailing(attempts[p], now)
    BY DEF ForgetsNothingRecent, peek
  <2>1. withinWindow(attempts[p]) = Trailing(attempts[p], now)
    BY DEF EventsInv, withinWindow, Trailing
  <2>2. withinWindow(timestamps[p]) = withinWindow(attempts[p])
    BY DEF EventsInv, withinWindow
  <2> QED BY <2>1, <2>2
<1> QED BY <1>1, EventsFollowed, PTL

(* A step admits nothing that lies in a window closed before now, and the  *)
(* windows that are still open hold no more than the limiter counted.      *)
LEMMA NextNoBurst == TypeInv /\ EventsInv /\ NoBurst /\ [Next]_vars => NoBurst'
<1> SUFFICES ASSUME TypeInv, EventsInv, NoBurst, [Next]_vars,
                    NEW p \in Peer, NEW t \in Time
             PROVE  Cardinality(Trailing(admitted'[p], t)) <= MaxEvents
  BY DEF NoBurst
<1>t. /\ now \in Nat /\ Window \in Nat /\ t \in Nat
      /\ timestamps \in [Peer -> SUBSET Event] /\ attempts \in [Peer -> SUBSET Event]
      /\ admitted \in [Peer -> SUBSET Event]
  BY Numbers DEF TypeInv, TypeOK
<1>0. ASSUME Trailing(admitted'[p], t) = Trailing(admitted[p], t)
      PROVE  Cardinality(Trailing(admitted'[p], t)) <= MaxEvents
  BY <1>0 DEF NoBurst
<1>1. ASSUME admitted' = admitted PROVE Cardinality(Trailing(admitted'[p], t)) <= MaxEvents
  BY <1>0, <1>1
<1>2. ASSUME NEW q \in Peer, Admit(q)
      PROVE  Cardinality(Trailing(admitted'[p], t)) <= MaxEvents
  <2> DEFINE e == Attempt(q)
  <2>0. e.at = now BY DEF Attempt
  <2>1. /\ admitted' = [admitted EXCEPT ![q] = admitted[q] \cup {e}]
        /\ timestamps' = [timestamps EXCEPT ![q] = withinWindow(timestamps[q]) \cup {e}]
        /\ attempts' = [attempts EXCEPT ![q] = attempts[q] \cup {e}]
        /\ Cardinality(timestamps'[q]) <= MaxEvents
    BY <1>2 DEF Admit, Attempted
  <2> HIDE DEF e
  <2>2. CASE q # p
    <3>1. admitted'[p] = admitted[p] BY <1>t, <2>1, <2>2
    <3> QED BY <1>0, <3>1
  <2>3. CASE q = p /\ t < now
    <3>1. admitted'[p] = admitted[p] \cup {e} BY <1>t, <2>1, <2>3
    <3>2. ~(e.at <= t) BY <1>t, <2>0, <2>3
    <3> QED BY <1>0, <3>1, <3>2 DEF Trailing
  <2>4. CASE q = p /\ t >= now
    <3>1. /\ admitted'[p] = admitted[p] \cup {e} /\ attempts'[p] = attempts[p] \cup {e}
          /\ timestamps'[p] = withinWindow(timestamps[p]) \cup {e}
      BY <1>t, <2>1, <2>4
    <3>2. ASSUME NEW f \in admitted[p], f.at > t - Window
          PROVE  f \in withinWindow(timestamps[p])
      <4>1. f \in attempts[p] BY DEF EventsInv
      <4>e. f.at \in Nat BY <1>t, <4>1, EventsTimed
      <4>2. f.at > now - Window BY <1>t, <2>4, <3>2, <4>e
      <4> QED BY <4>1, <4>2 DEF EventsInv, withinWindow
    <3>3. Trailing(admitted'[p], t) \subseteq timestamps'[p] BY <3>1, <3>2 DEF Trailing
    <3>4. IsFiniteSet(timestamps'[p])
      <4>1. IsFiniteSet(attempts[p]) BY DEF TypeInv, Finite
      <4>2. withinWindow(timestamps[p]) \subseteq attempts[p] BY DEF EventsInv, withinWindow
      <4>3. IsFiniteSet(withinWindow(timestamps[p])) BY <4>1, <4>2, FS_Subset
      <4> QED BY <3>1, <4>3, FS_AddElement
    <3>5. /\ Cardinality(Trailing(admitted'[p], t)) \in Nat
          /\ Cardinality(timestamps'[p]) \in Nat
          /\ Cardinality(Trailing(admitted'[p], t)) <= Cardinality(timestamps'[p])
      BY <3>3, <3>4, FS_Subset, FS_CardinalityType
    <3>6. Cardinality(timestamps'[p]) <= MaxEvents BY <2>1, <2>4
    <3> QED BY <3>5, <3>6, Numbers
  <2> QED BY <1>t, <2>2, <2>3, <2>4
<1>3. ASSUME NEW q \in Peer, ~Admit(q),
             Throttle(q) \/ SelectOffer(q) \/ HandleOffer(q) \/ Finish(q) \/ Abort(q)
      PROVE  admitted' = admitted
  BY <1>3 DEF Throttle, SelectOffer, HandleOffer, Finish, Abort
<1>4. ASSUME pruneLimiter \/ pruneTrust \/ Tick \/ UNCHANGED vars PROVE admitted' = admitted
  BY <1>4 DEF pruneLimiter, pruneTrust, Tick, vars
<1> QED BY <1>1, <1>2, <1>3, <1>4 DEF Next

(* No window of that length, wherever it is laid, holds more admitted      *)
(* attempts of a peer than the limit.                                      *)
THEOREM NoWindowBursts == Spec => []NoBurst
<1>1. Init => NoBurst
  <2> SUFFICES ASSUME Init, NEW p \in Peer, NEW t \in Time
               PROVE  Cardinality(Trailing(admitted[p], t)) <= MaxEvents
    BY DEF NoBurst
  <2>1. Trailing(admitted[p], t) = {} BY DEF Init, Trailing
  <2> QED BY <2>1, FS_EmptySet, Numbers
<1> QED BY <1>1, NextNoBurst, EventsFollowed, PTL DEF Spec

-----------------------------------------------------------------------------
(* The trust tracker *)

(* A mark lowers the penalty of a peer by one at most, and only a mark for *)
(* reciprocity lowers it.                                                  *)
LEMMA MarkForgives ==
    ASSUME NEW s \in TrustState, NEW r \in TrustState, NEW reciprocal \in 0..1, NEW bad \in Nat,
           r.reciprocalCount = s.reciprocalCount + reciprocal, r.badCount = s.badCount + bad,
           reciprocal = 0 \/ bad = 0, netPenalty(r) < netPenalty(s)
    PROVE  reciprocal = 1 /\ netPenalty(r) = netPenalty(s) - 1
<1>1. /\ s.reciprocalCount \in Nat /\ s.badCount \in Nat
      /\ r.reciprocalCount \in Nat /\ r.badCount \in Nat
  BY DEF TrustState
<1> QED BY <1>1 DEF netPenalty

(* A penalty is only ever taken back by one, by a swap the peer gave       *)
(* something in, or with everything known of a peer long silent.           *)
THEOREM PenaltyNeedsReciprocity == Spec => ForgivenByReciprocity
<1> DEFINE Forgives(p) ==
      netPenalty(trust'[p]) < netPenalty(trust[p])
          => \/ /\ netPenalty(trust'[p]) = netPenalty(trust[p]) - 1
                /\ swap[p].accepted > 0 /\ swap'[p] = NoSwap
             \/ trust'[p] = Unseen /\ now - trust[p].lastSeen > MaxAge
<1>1. TypeInv /\ TypeInv' /\ [Next]_vars => [\A p \in Peer : Forgives(p)]_vars
  <2> SUFFICES ASSUME TypeInv, TypeInv', [Next]_vars, NEW p \in Peer PROVE Forgives(p)
    OBVIOUS
  <2>t. /\ trust \in [Peer -> TrustState] /\ trust' \in [Peer -> TrustState] /\ Untracked
        /\ swap \in [Peer -> Swap]
    <3>1. TypeOK /\ TypeOK' BY DEF TypeInv
    <3>2. trust' \in [Peer -> TrustState] BY <3>1 DEF TypeOK, TrustState
    <3> QED BY <3>1, <3>2, TypeParts
  <2>n. netPenalty(trust[p]) \in Nat BY <2>t, PenaltyTyped
  <2>0. ASSUME trust'[p] = trust[p] PROVE Forgives(p) BY <2>0, <2>n
  <2>r. ASSUME NEW q \in Peer, NEW reciprocal \in 0..1, NEW bad \in Nat, NEW at \in Time,
               reciprocal = 0 \/ bad = 0, trust' = recordOutcome(q, reciprocal, bad, at)
        PROVE  \/ trust'[p] = trust[p]
               \/ netPenalty(trust'[p]) < netPenalty(trust[p])
                    => /\ q = p /\ reciprocal = 1
                       /\ netPenalty(trust'[p]) = netPenalty(trust[p]) - 1
    <3>1. CASE q # p \/ p \notin Node
      <4> QED BY <2>t, <2>r, <3>1, RecordedTyped DEF Untracked
    <3>2. CASE q = p /\ p \in Node
      <4>1. trust'[p] = [reciprocalCount |-> trust[p].reciprocalCount + reciprocal,
                         badCount |-> trust[p].badCount + bad, lastSeen |-> at]
        BY <2>t, <2>r, <3>2, RecordedTyped DEF Untracked
      <4>2. /\ trust'[p].reciprocalCount = trust[p].reciprocalCount + reciprocal
            /\ trust'[p].badCount = trust[p].badCount + bad
        BY <4>1
      <4>3. trust[p] \in TrustState /\ trust'[p] \in TrustState BY <2>t
      <4> QED BY <2>r, <3>2, <4>2, <4>3, MarkForgives
    <3> QED BY <3>1, <3>2
  <2>1. ASSUME NEW q \in Peer, Admit(q) PROVE Forgives(p) BY <2>0, <2>1 DEF Admit
  <2>2. ASSUME NEW q \in Peer, Throttle(q) PROVE Forgives(p)
    <3>1. trust' = recordOutcome(q, 0, 1, now) BY <2>2 DEF Throttle
    <3>2. now \in Time BY DEF TypeInv, TypeOK
    <3> HIDE DEF Forgives
    <3>3. \/ trust'[p] = trust[p]
          \/ ~(netPenalty(trust'[p]) < netPenalty(trust[p]))
      BY <2>r, <3>1, <3>2
    <3> QED BY <2>0, <3>3 DEF Forgives
  <2>3. ASSUME NEW q \in Peer, SelectOffer(q) \/ Abort(q) PROVE Forgives(p)
    BY <2>0, <2>3 DEF SelectOffer, Abort
  <2>4. ASSUME NEW q \in Peer, HandleOffer(q) PROVE Forgives(p)
    <3>1. PICK oversized \in 0..1, unverified \in 0..1 :
              LET bad == oversized + unverified IN
              trust' = IF bad = 0 THEN trust ELSE recordOutcome(q, 0, bad, swap[q].at)
      BY <2>4 DEF HandleOffer
    <3> DEFINE bad == oversized + unverified
    <3>2. bad \in Nat /\ swap[q].at \in Time BY <2>t DEF Swap
    <3>3. trust' = IF bad = 0 THEN trust ELSE recordOutcome(q, 0, bad, swap[q].at) BY <3>1
    <3> HIDE DEF bad, Forgives
    <3>4. \/ trust'[p] = trust[p]
          \/ ~(netPenalty(trust'[p]) < netPenalty(trust[p]))
      BY <2>r, <3>2, <3>3
    <3> QED BY <2>0, <3>4 DEF Forgives
  <2>5. ASSUME NEW q \in Peer, Finish(q) PROVE Forgives(p)
    <3>1. PICK sent \in BOOLEAN :
              trust' = recordOutcome(q, IF sent /\ swap[q].accepted > 0 THEN 1 ELSE 0, 0,
                                     swap[q].at)
      BY <2>5 DEF Finish
    <3> DEFINE gave == IF sent /\ swap[q].accepted > 0 THEN 1 ELSE 0
    <3>2. gave \in 0..1 /\ trust' = recordOutcome(q, gave, 0, swap[q].at) BY <3>1
    <3>3. swap[q].at \in Time BY <2>t DEF Swap
    <3>4. gave = 1 => swap[q].accepted > 0 OBVIOUS
    <3>5. swap'[q] = NoSwap BY <2>5, <2>t DEF Finish
    <3> HIDE DEF gave
    <3>6. \/ trust'[p] = trust[p]
          \/ netPenalty(trust'[p]) < netPenalty(trust[p])
               => q = p /\ gave = 1 /\ netPenalty(trust'[p]) = netPenalty(trust[p]) - 1
      BY <2>r, <3>2, <3>3
    <3> QED BY <2>0, <3>4, <3>5, <3>6
  <2>6. CASE pruneLimiter BY <2>0, <2>6 DEF pruneLimiter
  <2>7. CASE pruneTrust
    <3>1. trust'[p] = IF Stale(p) THEN Unseen ELSE trust[p] BY <2>7 DEF pruneTrust
    <3> QED BY <2>0, <3>1 DEF Stale
  <2>8. CASE Tick BY <2>0, <2>8 DEF Tick
  <2>9. CASE UNCHANGED vars BY <2>0, <2>9 DEF vars
  <2> HIDE DEF Forgives
  <2> QED BY <2>1, <2>2, <2>3, <2>4, <2>5, <2>6, <2>7, <2>8, <2>9 DEF Next
<1>2. Spec => []TypeInv BY InitTyped, NextTyped, PTL DEF Spec
<1> QED BY <1>1, <1>2, PTL DEF Spec, ForgivenByReciprocity

=============================================================================
