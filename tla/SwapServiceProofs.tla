-------------------------- MODULE SwapServiceProofs --------------------------
(* What holds of the swaps of any number of devices, whatever the network   *)
(* and the storage do to them.                                              *)
EXTENDS SwapService, FiniteSetTheorems, SequenceTheorems, TLAPS

-----------------------------------------------------------------------------
(* The operations of Library *)

LEMMA EmptyLibraryIsLibrary == IsLibrary(EmptyLibrary) /\ DOMAIN EmptyLibrary = {}
<1>1. DOMAIN EmptyLibrary = {} BY DEF EmptyLibrary
<1> QED BY <1>1 DEF IsLibrary, EmptyLibrary

(* Removing items leaves the locked items that were not removed.           *)
LEMMA WithoutKeepsLocked ==
    ASSUME NEW lib, IsLibrary(lib), NEW items
    PROVE  /\ IsLibrary(Without(lib, items))
           /\ DOMAIN Without(lib, items) = DOMAIN lib \ items
           /\ lockedItems(Without(lib, items)) = lockedItems(lib) \ items
<1>1. DOMAIN Without(lib, items) = DOMAIN lib \ items BY DEF Without
<1>2. IsLibrary(Without(lib, items)) BY <1>1 DEF IsLibrary, Without
<1>3. lockedItems(Without(lib, items)) = lockedItems(lib) \ items
  BY <1>1 DEF lockedItems, Without
<1> QED BY <1>1, <1>2, <1>3

(* Adding items, or being refused them, leaves the locked items alone.     *)
LEMMA AddAllKeepsLocked ==
    ASSUME NEW lib, IsLibrary(lib), NEW items \in SUBSET Item,
           NEW priority \in Priority, NEW cap \in CapacityType
    PROVE  LET result == addAll(lib, items, priority, cap).library IN
           /\ IsLibrary(result)
           /\ DOMAIN result \subseteq DOMAIN lib \cup items
           /\ lockedItems(result) = lockedItems(lib)
<1> DEFINE new == items \ DOMAIN lib
           added == [i \in DOMAIN lib \cup new |->
                       IF i \in new THEN [locked |-> FALSE, priority |-> priority] ELSE lib[i]]
           result == addAll(lib, items, priority, cap).library
<1>1. result = lib \/ result = added BY DEF addAll, Ok, Rejected
<1>2. IsLibrary(added) BY DEF IsLibrary, Entry
<1>3. lockedItems(added) = lockedItems(lib) BY DEF lockedItems
<1>4. DOMAIN added \subseteq DOMAIN lib \cup items OBVIOUS
<1> HIDE DEF added, result
<1>5. /\ IsLibrary(result) /\ DOMAIN result \subseteq DOMAIN lib \cup items
      /\ lockedItems(result) = lockedItems(lib)
  BY <1>1, <1>2, <1>3, <1>4
<1> QED BY <1>5 DEF result

(* Locking and unlocking yield libraries.                                  *)
LEMMA LockingYieldsLibrary ==
    ASSUME NEW lib, IsLibrary(lib), NEW item, NEW cap
    PROVE  IsLibrary(lockItem(lib, item, cap).library) /\ IsLibrary(unlockItem(lib, item, cap).library)
<1>1. ASSUME item \in DOMAIN lib, NEW locked \in BOOLEAN PROVE IsLibrary(SetLocked(lib, item, locked))
  BY <1>1 DEF IsLibrary, SetLocked, Entry
<1>2. /\ lockItem(lib, item, cap).library \in {lib, SetLocked(lib, item, TRUE)}
      /\ item \notin DOMAIN lib => lockItem(lib, item, cap).library = lib
  BY DEF lockItem, Ok, Rejected
<1>3. /\ unlockItem(lib, item, cap).library \in {lib, SetLocked(lib, item, FALSE)}
      /\ item \notin DOMAIN lib => unlockItem(lib, item, cap).library = lib
  BY DEF unlockItem, Ok, Rejected
<1> QED BY <1>1, <1>2, <1>3

-----------------------------------------------------------------------------
(* The operators                                                           *)

(* Every message that disconnect() leaves in a queue was in it, and is not *)
(* from the peer.                                                          *)
LEMMA OthersThanKeeps ==
    ASSUME NEW S, NEW queue \in Seq(S), NEW d, NEW rest \in OthersThan(queue, d)
    PROVE  /\ rest \in Seq(S)
           /\ \A i \in DOMAIN rest :
                 \E j \in DOMAIN queue : rest[i] = queue[j] /\ queue[j].from # d
<1> DEFINE kept == {i \in DOMAIN queue : queue[i].from # d}
           n == Cardinality(kept)
<1>1. PICK at \in [1..n -> kept] : rest = [i \in DOMAIN at |-> queue[at[i]]]
  BY DEF OthersThan
<1>2. n \in Nat
  <2>1. DOMAIN queue = 1..Len(queue) /\ Len(queue) \in Nat BY LenProperties
  <2>2. IsFiniteSet(1..Len(queue)) BY <2>1, FS_Interval
  <2>3. kept \subseteq 1..Len(queue) BY <2>1
  <2>4. IsFiniteSet(kept) BY <2>2, <2>3, FS_Subset, Zenon
  <2> QED BY <2>4, FS_CardinalityType
<1>3. \A i \in 1..n : at[i] \in DOMAIN queue /\ queue[at[i]].from # d /\ queue[at[i]] \in S
  BY <1>1, ElementOfSeq, LenProperties
<1> HIDE DEF n, kept
<1>4. rest = [i \in 1..n |-> queue[at[i]]] BY <1>1
<1>5. rest \in Seq(S) BY <1>2, <1>3, <1>4, IsASeq
<1> QED BY <1>3, <1>4, <1>5

(* The queues after disconnect() hold nothing they did not hold before.    *)
LEMMA DisconnectedKeeps ==
    ASSUME NEW s \in Session, NEW queues, DOMAIN queues = Device,
           \A d \in Device : queues[d] \in Seq(Message(d)),
           NEW after \in Disconnected(queues, s)
    PROVE  /\ DOMAIN after = Device
           /\ \A d \in Device : after[d] \in Seq(Message(d))
           /\ \A d \in Device : \A i \in DOMAIN after[d] :
                 \E j \in DOMAIN queues[d] : after[d][i] = queues[d][j]
<1>1. Peer[s] \in Device BY SessionAssumption
<1>2. CASE after = queues BY <1>2
<1>3. ASSUME NEW queue \in OthersThan(queues[Peer[s]], Owner[s]),
             after = [queues EXCEPT ![Peer[s]] = queue]
      PROVE  /\ DOMAIN after = Device
             /\ \A d \in Device : after[d] \in Seq(Message(d))
             /\ \A d \in Device : \A i \in DOMAIN after[d] :
                   \E j \in DOMAIN queues[d] : after[d][i] = queues[d][j]
  <2>1. /\ queue \in Seq(Message(Peer[s]))
        /\ \A i \in DOMAIN queue : \E j \in DOMAIN queues[Peer[s]] : queue[i] = queues[Peer[s]][j]
    BY <1>1, OthersThanKeeps
  <2> QED BY <1>1, <1>3, <2>1
<1> QED BY <1>2, <1>3 DEF Disconnected

(* What the policies choose from are items.                                *)
LEMMA CandidatesAreItems ==
    ASSUME TypeOK, NEW s \in Session
    PROVE  candidates(s) \subseteq Item /\ candidates(s) \subseteq swappableItems(session[s].working)
BY DEF TypeOK, IsSession, IsLibrary, candidates, selectOffer, swappableItems

-----------------------------------------------------------------------------
(* Types                                                                   *)

SessionsTyped == DOMAIN session = Session /\ \A s \in Session : IsSession(session[s])

InboxTyped == DOMAIN inbox = Device /\ \A d \in Device : inbox[d] \in Seq(Message(d))

LEMMA StageNames ==
    /\ {"discovered", "sending", "sent", "waiting", "saving", "reconciling", "recording",
        "completed", "aborted", "rejected"} \subseteq Stages
    /\ {"revocation", "offer", "accept"} \subseteq Rounds
BY DEF Stages, Rounds, Ended

LEMMA SessionTyped == ASSUME TypeOK, NEW s \in Session PROVE IsSession(session[s])
BY DEF TypeOK

(* One call of swap() changes its own variables only.                      *)
LEMMA BecomeTyped ==
    ASSUME TypeOK, NEW s \in Session, NEW r, IsSession(r), Become(s, r)
    PROVE  SessionsTyped'
BY DEF TypeOK, Become, SessionsTyped

(* The catch block leaves everything well typed.                           *)
LEMMA FailTyped ==
    ASSUME TypeOK, NEW s \in Session, NEW stage \in Stages,
           NEW queues, DOMAIN queues = Device, \A d \in Device : queues[d] \in Seq(Message(d)),
           Fail(s, queues, stage)
    PROVE  SessionsTyped' /\ InboxTyped'
<1>1. IsSession([session[s] EXCEPT !.stage = stage]) BY SessionTyped DEF IsSession
<1>2. SessionsTyped' BY <1>1, BecomeTyped DEF Fail
<1>3. inbox' \in Disconnected(queues, s) BY DEF Fail
<1>4. InboxTyped' BY <1>3, DisconnectedKeeps DEF InboxTyped
<1> QED BY <1>2, <1>4

(* What a session sends is a message of its peer's inbox.                  *)
LEMMA DeliveredTyped ==
    ASSUME TypeOK, NEW s \in Session
    PROVE  /\ DOMAIN Delivered(s) = Device
           /\ \A d \in Device : Delivered(s)[d] \in Seq(Message(d))
           /\ \A d \in Device \ {Peer[s]} : Delivered(s)[d] = inbox[d]
           /\ Delivered(s)[Peer[s]] = Append(inbox[Peer[s]], Outbound(s))
<1>1. Owner[s] \in Device \ {Peer[s]} /\ Peer[s] \in Device BY SessionAssumption
<1>2. Outbound(s) \in Message(Peer[s])
  <2>1. CASE session[s].round = "revocation"
    <3>1. Outbound(s) = [from |-> Owner[s], kind |-> "revocation", entries |-> session[s].listed]
      BY <2>1 DEF Outbound
    <3>2. session[s].listed \in SUBSET Revocation BY DEF TypeOK, IsSession
    <3> QED BY <1>1, <3>1, <3>2 DEF Message
  <2>2. CASE session[s].round = "offer"
    <3>1. Outbound(s) = [from |-> Owner[s], kind |-> "offer", items |-> candidates(s)]
      BY <2>2 DEF Outbound
    <3> QED BY <1>1, <3>1, CandidatesAreItems DEF Message
  <2>3. CASE session[s].round = "accept"
    <3>1. Outbound(s) = [from |-> Owner[s], kind |-> "accept", items |-> session[s].accepted]
      BY <2>3 DEF Outbound
    <3>2. session[s].accepted \in SUBSET Item BY DEF TypeOK, IsSession
    <3> QED BY <1>1, <3>1, <3>2 DEF Message
  <2> QED BY <2>1, <2>2, <2>3 DEF TypeOK, IsSession, Rounds
<1>3. Append(inbox[Peer[s]], Outbound(s)) \in Seq(Message(Peer[s]))
  BY <1>1, <1>2, AppendProperties DEF TypeOK
<1> QED BY <1>1, <1>3 DEF Delivered, TypeOK

(* Every behaviour starts with typed values.                               *)
LEMMA InitTyped == Init => TypeOK
<1> SUFFICES ASSUME Init PROVE TypeOK OBVIOUS
<1>1. PICK state \in InitialStates :
         library = state.library /\ log = state.log
           /\ suppressed = state.suppressed /\ faults = state.faults
           /\ edits = state.edits
  BY DEF Init
<1>2. IsSession(NotStarted)
  BY EmptyLibraryIsLibrary DEF IsSession, NotStarted, Stages, Rounds
<1>3. SessionsTyped BY <1>2 DEF Init, SessionsTyped
<1>4. /\ DOMAIN library = Device /\ \A d \in Device : IsLibrary(library[d])
      /\ log \in [Device -> SUBSET Revocation] /\ suppressed \in [Device -> SUBSET Item]
      /\ faults \subseteq FaultKinds /\ edits \in Nat
  BY <1>1, InitialAssumption
<1>5. repository \in [Device -> SUBSET Item] BY <1>4 DEF Init, IsLibrary
<1>6. InboxTyped BY EmptySeq DEF Init, InboxTyped
<1>7. DOMAIN waiters = Device /\ \A d \in Device : waiters[d] \in Seq({s \in Session : Owner[s] = d})
  BY EmptySeq DEF Init
<1>8. DOMAIN edit = Device /\ \A d \in Device : IsEdit(edit[d])
  BY EmptyLibraryIsLibrary DEF Init, NoEdit, IsEdit
<1> QED BY <1>3, <1>4, <1>5, <1>6, <1>7, <1>8 DEF TypeOK, SessionsTyped, InboxTyped

(* The steps that only move a session on.                                  *)
LEMMA MovesTyped ==
    ASSUME TypeOK, NEW s \in Session,
           Start(s) \/ BeginNegotiation(s) \/ Receive(s) \/ CompleteTransfer(s)
    PROVE  TypeOK'
<1>1. Owner[s] \in Device BY SessionAssumption
<1>2. CASE Start(s)
  <2> DEFINE r == [session[s] EXCEPT !.stage = "discovered", !.snapshot = library[Owner[s]],
                                     !.working = library[Owner[s]]]
  <2>1. r \in [stage : Stages, round : Rounds, snapshot : {library[Owner[s]]},
               working : {library[Owner[s]]}, listed : SUBSET Revocation,
               known : SUBSET Item, offered : SUBSET Item, accepted : SUBSET Item,
               sent : SUBSET Item, evicted : SUBSET Item, pending : SUBSET Item]
    BY SessionTyped, StageNames DEF IsSession
  <2>2. IsSession(r) BY <1>1, <2>1 DEF IsSession, TypeOK
  <2>3. SessionsTyped' BY <1>2, <2>2, BecomeTyped DEF Start
  <2> QED BY <1>2, <2>3 DEF Start, TypeOK, SessionsTyped, Stored, Network, Message
<1>3. CASE BeginNegotiation(s)
  <2>1. log[Owner[s]] \in SUBSET Revocation /\ Revoked(log[Owner[s]]) \in SUBSET Item
    BY <1>1 DEF TypeOK, Revoked, Revocation
  <2>2. IsSession([session[s] EXCEPT !.stage = "sending", !.round = "revocation",
                                     !.listed = log[Owner[s]], !.known = Revoked(log[Owner[s]])])
    BY <2>1, SessionTyped, StageNames, ZenonT(60) DEF IsSession
  <2>3. IsSession([session[s] EXCEPT !.stage = "sending", !.round = "offer"])
    BY SessionTyped, StageNames DEF IsSession
  <2>4. ASSUME Owner[s] \in Gossips PROVE SessionsTyped'
    <3>1. Become(s, [session[s] EXCEPT !.stage = "sending", !.round = "revocation",
                                       !.listed = log[Owner[s]], !.known = Revoked(log[Owner[s]])])
      BY <1>3, <2>4 DEF BeginNegotiation, Become
    <3> QED BY <2>2, <3>1, BecomeTyped
  <2>5. ASSUME Owner[s] \notin Gossips PROVE SessionsTyped'
    <3>1. Become(s, [session[s] EXCEPT !.stage = "sending", !.round = "offer"])
      BY <1>3, <2>5 DEF BeginNegotiation, Become
    <3> QED BY <2>3, <3>1, BecomeTyped
  <2>6. SessionsTyped' BY <2>4, <2>5
  <2> QED BY <1>3, <2>6 DEF BeginNegotiation, TypeOK, SessionsTyped, Stored, Network, Message
<1>4. CASE Receive(s)
  <2>1. IsSession([session[s] EXCEPT !.stage = "waiting"]) BY SessionTyped, StageNames DEF IsSession
  <2>2. SessionsTyped' BY <1>4, <2>1, BecomeTyped DEF Receive
  <2>3. Append(waiters[Owner[s]], s) \in Seq({t \in Session : Owner[t] = Owner[s]})
    BY <1>1, AppendProperties DEF TypeOK
  <2>4. /\ DOMAIN waiters' = Device
        /\ \A d \in Device : waiters'[d] \in Seq({t \in Session : Owner[t] = d})
    BY <1>4, <2>3 DEF Receive, TypeOK
  <2> QED BY <1>4, <2>2, <2>4 DEF Receive, TypeOK, SessionsTyped, Stored, Message
<1>5. CASE CompleteTransfer(s)
  <2>1. IsSession([session[s] EXCEPT !.stage = "reconciling"]) BY SessionTyped, StageNames DEF IsSession
  <2>2. SessionsTyped' BY <1>5, <2>1, BecomeTyped DEF CompleteTransfer
  <2> QED BY <1>5, <2>2 DEF CompleteTransfer, TypeOK, SessionsTyped, Stored, Network, Message
<1> QED BY <1>2, <1>3, <1>4, <1>5

(* Sending, and every step that ends in the catch block.                   *)
LEMMA SendingTyped ==
    ASSUME TypeOK, NEW s \in Session,
           Send(s) \/ SendRejects(s) \/ Throttle(s) \/ Timeout(s) \/ StorageRejects(s)
    PROVE  TypeOK'
<1>1. {"aborted", "rejected", "sent"} \subseteq Stages BY DEF Stages, Ended
<1>2. InboxTyped BY DEF InboxTyped, TypeOK
<1>3. CASE Send(s)
  <2>1. candidates(s) \in SUBSET Item BY CandidatesAreItems
  <2>2. IsSession([session[s] EXCEPT !.stage = "sent",
                      !.offered = IF session[s].round = "offer" THEN candidates(s) ELSE @])
    <3>1. (IF session[s].round = "offer" THEN candidates(s) ELSE session[s].offered) \in SUBSET Item
      BY <2>1, SessionTyped DEF IsSession
    <3> QED BY <1>1, <3>1, SessionTyped DEF IsSession
  <2>3. SessionsTyped' BY <1>3, <2>2, BecomeTyped DEF Send
  <2>4. InboxTyped' BY <1>3, <1>2, DeliveredTyped DEF Send, InboxTyped
  <2> QED BY <1>3, <2>3, <2>4 DEF Send, TypeOK, SessionsTyped, InboxTyped, Stored
<1>4. CASE SendRejects(s)
  <2>1. PICK queues \in {inbox, Delivered(s)} : Fail(s, queues, "aborted")
    BY <1>4 DEF SendRejects
  <2>2. DOMAIN queues = Device /\ \A d \in Device : queues[d] \in Seq(Message(d))
    BY <2>1, <1>2, DeliveredTyped DEF InboxTyped
  <2>3. SessionsTyped' /\ InboxTyped' BY <1>1, <2>1, <2>2, FailTyped
  <2> QED BY <1>4, <2>3 DEF SendRejects, TypeOK, SessionsTyped, InboxTyped, Stored
<1>5. CASE Throttle(s)
  <2>1. SessionsTyped' /\ InboxTyped'
    BY <1>1, <1>2, <1>5, FailTyped DEF InboxTyped, Throttle, Abort
  <2> QED BY <1>5, <2>1 DEF Throttle, TypeOK, SessionsTyped, InboxTyped, Stored
<1>6. CASE Timeout(s)
  <2>1. SessionsTyped' /\ InboxTyped'
    BY <1>1, <1>2, <1>6, FailTyped DEF InboxTyped, Timeout, Abort
  <2> QED BY <1>6, <2>1 DEF Timeout, TypeOK, SessionsTyped, InboxTyped, Stored
<1>7. CASE StorageRejects(s)
  <2>1. SessionsTyped' /\ InboxTyped'
    BY <1>1, <1>2, <1>7, FailTyped DEF InboxTyped, StorageRejects, Abort
  <2> QED BY <1>7, <2>1 DEF StorageRejects, TypeOK, SessionsTyped, InboxTyped, Stored
<1> QED BY <1>3, <1>4, <1>5, <1>6, <1>7

(* The storage steps at the end of a swap.                                 *)
LEMMA StorageTyped ==
    ASSUME TypeOK, NEW s \in Session, Save(s) \/ RecordOutcome(s) \/ Complete(s)
    PROVE  TypeOK'
<1>1. Owner[s] \in Device BY SessionAssumption
<1>2. ASSUME NEW item \in session[s].pending,
             Become(s, [session[s] EXCEPT !.pending = @ \ {item}])
      PROVE  item \in Item /\ SessionsTyped'
  <2>1. IsSession([session[s] EXCEPT !.pending = @ \ {item}]) BY SessionTyped DEF IsSession
  <2>2. item \in Item BY SessionTyped DEF IsSession
  <2> QED BY <1>2, <2>1, <2>2, BecomeTyped
<1>3. CASE Save(s)
  <2>1. PICK item \in session[s].pending :
           /\ repository' = [repository EXCEPT ![Owner[s]] = @ \cup {item}]
           /\ Become(s, [session[s] EXCEPT !.pending = @ \ {item}])
    BY <1>3 DEF Save
  <2>2. item \in Item /\ SessionsTyped' BY <1>2, <2>1
  <2>3. repository' \in [Device -> SUBSET Item] BY <2>1, <2>2 DEF TypeOK
  <2> QED BY <1>3, <2>2, <2>3 DEF Save, TypeOK, SessionsTyped, Network, Message
<1>4. CASE RecordOutcome(s)
  <2>1. PICK item \in session[s].pending :
           /\ suppressed' = [suppressed EXCEPT ![Owner[s]] = @ \cup {item}]
           /\ Become(s, [session[s] EXCEPT !.pending = @ \ {item}])
    BY <1>4 DEF RecordOutcome
  <2>2. item \in Item /\ SessionsTyped' BY <1>2, <2>1
  <2>3. suppressed' \in [Device -> SUBSET Item] BY <2>1, <2>2 DEF TypeOK
  <2> QED BY <1>4, <2>2, <2>3 DEF RecordOutcome, TypeOK, SessionsTyped, Network, Message
<1>5. CASE Complete(s)
  <2>1. IsSession([session[s] EXCEPT !.stage = "completed"])
    BY SessionTyped, StageNames DEF IsSession
  <2>2. SessionsTyped' BY <1>5, <2>1, BecomeTyped DEF Complete
  <2>3. IsLibrary(session[s].working) BY DEF TypeOK, IsSession
  <2>4. DOMAIN library' = Device /\ \A d \in Device : IsLibrary(library'[d])
    BY <1>5, <2>3 DEF Complete, TypeOK
  <2> QED BY <1>5, <2>2, <2>4 DEF Complete, TypeOK, SessionsTyped, Network, Message
<1> QED BY <1>3, <1>4, <1>5

(* The naive policies only return items that they were given.              *)
LEMMA ChoicesAreItems ==
    ASSUME NEW lib, IsLibrary(lib), NEW items \in SUBSET Item, NEW slots
    PROVE  /\ \A S \in selectAccept(items, lib, slots) : S \subseteq items \ DOMAIN lib
           /\ \A S \in selectEvict(lib, items, slots) : S \subseteq swappableItems(lib)
BY DEF selectAccept, selectEvict

(* The merge with eviction yields a library, or aborts the session.        *)
LEMMA ReconcileTyped ==
    ASSUME TypeOK, NEW s \in Session, Reconcile(s)
    PROVE  TypeOK'
<1> DEFINE r == session[s]
           cap == Capacity[Owner[s]]
           result(evicted) == addAll(Without(r.working, evicted), r.accepted, 0, cap)
<1>1. cap \in CapacityType BY SessionAssumption, DeviceAssumption
<1>2. IsLibrary(r.working) /\ r.accepted \in SUBSET Item BY DEF TypeOK, IsSession
<1>3. PICK evicted \in selectEvict(r.working, r.accepted, cap.swappableSlots) :
         \/ /\ result(evicted).ok
            /\ Become(s, [r EXCEPT !.stage = "recording", !.working = result(evicted).library,
                                   !.evicted = evicted,
                                   !.pending = (r.offered \ r.sent) \cup evicted])
            /\ UNCHANGED inbox
         \/ ~result(evicted).ok /\ Abort(s)
  BY DEF Reconcile
<1>4. evicted \in SUBSET Item
  <2>1. evicted \subseteq swappableItems(r.working) BY <1>2, <1>3, ChoicesAreItems
  <2> QED BY <1>2, <2>1 DEF swappableItems, IsLibrary
<1>5. IsLibrary(Without(r.working, evicted)) BY <1>2, WithoutKeepsLocked
<1>6. IsLibrary(result(evicted).library)
  BY <1>1, <1>2, <1>5, AddAllKeepsLocked, PriorityAssumption
<1>7. ASSUME Become(s, [r EXCEPT !.stage = "recording", !.working = result(evicted).library,
                                 !.evicted = evicted,
                                 !.pending = (r.offered \ r.sent) \cup evicted]),
             UNCHANGED inbox
      PROVE  SessionsTyped' /\ InboxTyped'
  <2> DEFINE lib == result(evicted).library
             r2 == [r EXCEPT !.stage = "recording", !.working = lib, !.evicted = evicted,
                             !.pending = (r.offered \ r.sent) \cup evicted]
  <2> HIDE DEF result
  <2>1. r2 \in [stage : Stages, round : Rounds, snapshot : {session[s].snapshot},
               working : {lib}, listed : SUBSET Revocation, known : SUBSET Item,
               offered : SUBSET Item,
               accepted : SUBSET Item, sent : SUBSET Item, evicted : SUBSET Item,
               pending : SUBSET Item]
    BY <1>4, SessionTyped, StageNames DEF IsSession
  <2>2. IsSession(r2) BY <1>6, <2>1, SessionTyped DEF IsSession
  <2> QED BY <1>7, <2>2, BecomeTyped DEF InboxTyped, TypeOK, Message
<1>8. ASSUME Abort(s) PROVE SessionsTyped' /\ InboxTyped'
  BY <1>8, FailTyped DEF Abort, TypeOK, Stages, Ended
<1>9. SessionsTyped' /\ InboxTyped' BY <1>3, <1>7, <1>8
<1> QED BY <1>9 DEF Reconcile, TypeOK, SessionsTyped, InboxTyped, Stored

(* A receive() call takes the first message there is.                      *)
LEMMA RestTyped ==
    ASSUME TypeOK, NEW d \in Device, inbox[d] # <<>>, waiters[d] # <<>>
    PROVE  LET rest == [inbox EXCEPT ![d] = Tail(@)] IN
           /\ Head(waiters[d]) \in Session /\ Owner[Head(waiters[d])] = d
           /\ Head(inbox[d]) \in Message(d)
           /\ Head(inbox[d]) = inbox[d][1] /\ 1 \in DOMAIN inbox[d]
           /\ DOMAIN rest = Device /\ \A x \in Device : rest[x] \in Seq(Message(x))
           /\ \A x \in Device : \A i \in DOMAIN rest[x] :
                 \E j \in DOMAIN inbox[x] : rest[x][i] = inbox[x][j]
<1> DEFINE rest == [inbox EXCEPT ![d] = Tail(@)]
<1>1. /\ waiters[d] \in Seq({s \in Session : Owner[s] = d})
      /\ inbox[d] \in Seq(Message(d))
  BY DEF TypeOK
<1>2. Head(waiters[d]) \in {s \in Session : Owner[s] = d} BY <1>1, HeadTailProperties
<1>3. /\ Head(inbox[d]) \in Message(d) /\ Tail(inbox[d]) \in Seq(Message(d))
      /\ Len(Tail(inbox[d])) = Len(inbox[d]) - 1
      /\ \A i \in 1..Len(Tail(inbox[d])) : Tail(inbox[d])[i] = inbox[d][i + 1]
  BY <1>1, HeadTailProperties
<1>4. Head(inbox[d]) = inbox[d][1] /\ 1 \in DOMAIN inbox[d]
  BY <1>1, EmptySeq, LenProperties
<1>5. \A i \in DOMAIN Tail(inbox[d]) :
         i + 1 \in DOMAIN inbox[d] /\ Tail(inbox[d])[i] = inbox[d][i + 1]
  <2>1. DOMAIN Tail(inbox[d]) = 1..Len(Tail(inbox[d])) /\ DOMAIN inbox[d] = 1..Len(inbox[d])
        /\ Len(inbox[d]) \in Nat
    BY <1>1, <1>3, LenProperties
  <2> QED BY <1>3, <2>1
<1>6. DOMAIN inbox = Device /\ \A x \in Device : inbox[x] \in Seq(Message(x)) BY DEF TypeOK
<1>7. DOMAIN rest = Device /\ \A x \in Device : rest[x] \in Seq(Message(x))
  BY <1>3, <1>6
<1>8. \A x \in Device : \A i \in DOMAIN rest[x] :
         \E j \in DOMAIN inbox[x] : rest[x][i] = inbox[x][j]
  BY <1>5, <1>6
<1> QED BY <1>2, <1>3, <1>4, <1>7, <1>8

(* Handling a message leaves the session typed.                            *)
LEMMA HandlersTyped ==
    ASSUME TypeOK, NEW s \in Session, NEW m \in Message(Owner[s])
    PROVE  /\ m.kind = "revocation" /\ HandleRevocation(s, m) =>
                SessionsTyped' /\ log' \in [Device -> SUBSET Revocation]
           /\ m.kind = "offer" /\ HandleOffer(s, m) => SessionsTyped'
           /\ m.kind = "accept" /\ HandleAccept(s, m) => SessionsTyped'
<1>1. Owner[s] \in Device BY SessionAssumption
<1>2. ASSUME m.kind = "revocation", HandleRevocation(s, m)
      PROVE  SessionsTyped' /\ log' \in [Device -> SUBSET Revocation]
  <2> DEFINE lib == Without(session[s].working, RemovedBy(s, m.entries))
             r == [session[s] EXCEPT !.stage = "sending", !.round = "offer",
                                     !.known = @ \cup Revoked(m.entries), !.working = lib]
  <2>1. m.entries \in SUBSET Revocation BY <1>2 DEF Message
  <2>2. Revoked(m.entries) \in SUBSET Item BY <2>1 DEF Revoked, Revocation
  <2>3. IsLibrary(lib) BY WithoutKeepsLocked DEF TypeOK, IsSession
  <2>4. Become(s, r) BY <1>2 DEF HandleRevocation, Become
  <2> HIDE DEF lib
  <2>5. r \in [stage : Stages, round : Rounds, snapshot : {session[s].snapshot},
               working : {lib}, listed : SUBSET Revocation, known : SUBSET Item,
               offered : SUBSET Item, accepted : SUBSET Item,
               sent : SUBSET Item, evicted : SUBSET Item, pending : SUBSET Item]
    BY <2>2, SessionTyped, StageNames DEF IsSession
  <2>6. IsSession(r) BY <2>3, <2>5, SessionTyped DEF IsSession
  <2>7. SessionsTyped' BY <2>4, <2>6, BecomeTyped
  <2>8. log' \in [Device -> SUBSET Revocation]
    BY <1>1, <1>2, <2>1 DEF HandleRevocation, TypeOK, Recorded
  <2> QED BY <2>7, <2>8
<1>3. ASSUME m.kind = "offer", HandleOffer(s, m) PROVE SessionsTyped'
  <2>1. m.items \in SUBSET Item BY <1>3 DEF Message
  <2>2. PICK accepted \in selectAccept(peerOffer(s, m.items), session[s].working,
                                       Capacity[Owner[s]].swappableSlots) :
           Become(s, [session[s] EXCEPT !.stage = "sending", !.round = "accept",
                                        !.accepted = accepted])
    BY <1>3 DEF HandleOffer
  <2>3. accepted \in SUBSET Item
    BY <2>1, <2>2 DEF selectAccept, peerOffer
  <2>4. IsSession([session[s] EXCEPT !.stage = "sending", !.round = "accept",
                                     !.accepted = accepted])
    BY <2>3, SessionTyped, StageNames DEF IsSession
  <2> QED BY <2>2, <2>4, BecomeTyped
<1>4. ASSUME m.kind = "accept", HandleAccept(s, m) PROVE SessionsTyped'
  <2>1. m.items \in SUBSET Item BY <1>4 DEF Message
  <2>2. IsSession([session[s] EXCEPT !.stage = "saving", !.pending = session[s].accepted,
                                     !.sent = session[s].offered \cap m.items])
    BY <2>1, SessionTyped, StageNames, ZenonT(60) DEF IsSession
  <2> QED BY <1>4, <2>2, BecomeTyped DEF HandleAccept
<1> QED BY <1>2, <1>3, <1>4

(* A message delivered to a waiting call, expected or not.                 *)
LEMMA DeliverTyped ==
    ASSUME TypeOK, NEW d \in Device, Deliver(d)
    PROVE  TypeOK'
<1> DEFINE s == Head(waiters[d])
           m == Head(inbox[d])
           rest == [inbox EXCEPT ![d] = Tail(@)]
<1>1. /\ s \in Session /\ Owner[s] = d /\ m \in Message(d)
      /\ DOMAIN rest = Device /\ \A x \in Device : rest[x] \in Seq(Message(x))
  BY RestTyped DEF Deliver
<1>2. DOMAIN waiters' = Device /\ \A x \in Device : waiters'[x] \in Seq({t \in Session : Owner[t] = x})
  <2>1. Tail(waiters[d]) \in Seq({t \in Session : Owner[t] = d})
    BY HeadTailProperties DEF Deliver, TypeOK
  <2> QED BY <2>1 DEF Deliver, TypeOK
<1>3. \/ /\ inbox' = rest
         /\ UNCHANGED <<session, Stored>>
      \/ /\ Fail(s, rest, "aborted")
         /\ UNCHANGED Stored
      \/ /\ m.kind = "revocation" /\ RecordRejects(s, m, rest)
      \/ /\ inbox' = rest
         /\ \/ m.kind = "revocation" /\ HandleRevocation(s, m)
            \/ m.kind = "offer" /\ HandleOffer(s, m)
            \/ m.kind = "accept" /\ HandleAccept(s, m)
  BY DEF Deliver
<1> HIDE DEF s, m, rest
<1>4. ASSUME Fail(s, rest, "aborted") PROVE SessionsTyped' /\ InboxTyped'
  BY <1>1, <1>4, FailTyped DEF Stages, Ended
<1>5. CASE inbox' = rest /\ UNCHANGED <<session, Stored>>
  <2>1. InboxTyped' BY <1>1, <1>5 DEF InboxTyped
  <2> QED BY <1>2, <1>5, <2>1 DEF TypeOK, Stored, InboxTyped
<1>6. CASE Fail(s, rest, "aborted") /\ UNCHANGED Stored
  BY <1>2, <1>4, <1>6 DEF TypeOK, Stored, SessionsTyped, InboxTyped
<1>7. CASE m.kind = "revocation" /\ RecordRejects(s, m, rest)
  <2>1. PICK recorded \in SUBSET m.entries : log' = [log EXCEPT ![Owner[s]] = Recorded(@, recorded)]
    BY <1>7 DEF RecordRejects
  <2>2. m.entries \in SUBSET Revocation BY <1>1, <1>7 DEF Message
  <2>3. log' \in [Device -> SUBSET Revocation] BY <1>1, <2>1, <2>2 DEF TypeOK, Recorded
  <2> QED BY <1>2, <1>4, <1>7, <2>3 DEF RecordRejects, TypeOK, SessionsTyped, InboxTyped
<1>8. CASE /\ inbox' = rest
           /\ \/ m.kind = "revocation" /\ HandleRevocation(s, m)
              \/ m.kind = "offer" /\ HandleOffer(s, m)
              \/ m.kind = "accept" /\ HandleAccept(s, m)
  <2>1. InboxTyped' BY <1>1, <1>8 DEF InboxTyped
  <2>2. SessionsTyped' /\ log' \in [Device -> SUBSET Revocation]
    BY <1>1, <1>8, HandlersTyped DEF HandleOffer, HandleAccept, Stored, TypeOK
  <2> QED BY <1>2, <1>8, <2>1, <2>2
       DEF HandleRevocation, HandleOffer, HandleAccept, TypeOK, SessionsTyped, InboxTyped, Stored
<1> QED BY <1>3, <1>5, <1>6, <1>7, <1>8

(* Ageing out of the suppression window.                                   *)
LEMMA ExpireTyped ==
    ASSUME TypeOK, NEW d \in Device, Expire(d)
    PROVE  TypeOK'
BY DEF Expire, TypeOK, Network, Message

(* The users' calls.                                                       *)
LEMMA EditTyped ==
    ASSUME TypeOK, NEW d \in Device, Edit(d)
    PROVE  TypeOK'
<1> DEFINE EditsTyped == DOMAIN edit = Device /\ \A x \in Device : IsEdit(edit[x])
           LibrariesTyped == DOMAIN library = Device /\ \A x \in Device : IsLibrary(library[x])
<1>1. /\ IsEdit(edit[d]) /\ IsLibrary(library[d]) /\ Capacity[d] \in CapacityType
      /\ IsLibrary(edit[d].result) /\ edit[d].items \in SUBSET Item
  BY DeviceAssumption DEF TypeOK, IsEdit
<1>2. ASSUME NEW result, IsLibrary(result), Install(d, result) PROVE LibrariesTyped'
  BY <1>2 DEF Install, TypeOK
<1>3. ASSUME NEW step \in {"none", "revoking", "deleting", "saving"}, NEW items \in SUBSET Item,
             NEW result, IsLibrary(result),
             edit' = [edit EXCEPT ![d] = [step |-> step, items |-> items, result |-> result]]
      PROVE  EditsTyped'
  <2>1. IsEdit([step |-> step, items |-> items, result |-> result]) BY <1>3 DEF IsEdit
  <2> QED BY <1>3, <2>1 DEF TypeOK
<1>4. ASSUME Resolve(d) PROVE EditsTyped'
  BY <1>3, <1>4, EmptyLibraryIsLibrary DEF Resolve, NoEdit
<1>5. ASSUME Called PROVE edits' \in Nat BY <1>5 DEF Called, TypeOK
<1>6. ASSUME LibrariesTyped', EditsTyped', edits' \in Nat,
             repository' \in [Device -> SUBSET Item], log' \in [Device -> SUBSET Revocation],
             UNCHANGED SwapState
      PROVE  TypeOK'
  BY <1>6 DEF TypeOK, SwapState, Network, Message
<1>7. LibrariesTyped /\ EditsTyped /\ edits \in Nat BY DEF TypeOK
<1>8. repository \in [Device -> SUBSET Item] /\ log \in [Device -> SUBSET Revocation] BY DEF TypeOK
<1> HIDE DEF EditsTyped, LibrariesTyped
<1>9. (UNCHANGED edit => EditsTyped') /\ (UNCHANGED library => LibrariesTyped')
  BY <1>7 DEF EditsTyped, LibrariesTyped
<1>10. ASSUME NEW item \in Item, lock(d, item) \/ unlock(d, item) PROVE TypeOK'
  <2>1. PICK result : IsLibrary(result) /\ Install(d, result)
    BY <1>1, <1>10, LockingYieldsLibrary DEF lock, unlock
  <2>2. LibrariesTyped' BY <1>2, <2>1
  <2> QED BY <1>5, <1>6, <1>8, <1>9, <1>10, <2>2 DEF lock, unlock
<1>11. ASSUME NEW item \in Item, add(d, item) PROVE TypeOK'
  <2> DEFINE result == addItem(library[d], item, 0, Capacity[d])
  <2>1. IsLibrary(result.library)
    BY <1>1, AddAllKeepsLocked, PriorityAssumption DEF addItem
  <2>2. Await(d, "saving", {item}, result.library) BY <1>11 DEF add
  <2> HIDE DEF result
  <2>3. EditsTyped' BY <1>3, <2>1, <2>2 DEF Await
  <2> QED BY <1>5, <1>6, <1>8, <1>9, <1>11, <2>3 DEF add
<1>12. ASSUME NEW item \in Item, remove(d, item) PROVE TypeOK'
  <2>1. IsLibrary(Without(library[d], {item})) BY <1>1, WithoutKeepsLocked
  <2>2. EditsTyped' BY <1>3, <1>12, <2>1 DEF remove, Await
  <2> QED BY <1>5, <1>6, <1>8, <1>9, <1>12, <2>2 DEF remove
<1>13. ASSUME NEW entry \in Revocation, revokeContent(d, entry) PROVE TypeOK'
  <2>1. entry.item \in Item BY DEF Revocation
  <2>2. EditsTyped' BY <1>3, <1>13, <2>1, EmptyLibraryIsLibrary DEF revokeContent, Await
  <2>3. log' \in [Device -> SUBSET Revocation] BY <1>8, <1>13 DEF revokeContent, Recorded
  <2> QED BY <1>5, <1>6, <1>8, <1>9, <1>13, <2>2, <2>3 DEF revokeContent
<1>14. CASE RemoveRevoked(d)
  <2>1. IsLibrary(Without(library[d], edit[d].items)) BY <1>1, WithoutKeepsLocked
  <2>2. EditsTyped' BY <1>1, <1>3, <1>4, <1>14, <2>1 DEF RemoveRevoked, Await
  <2> QED BY <1>6, <1>7, <1>8, <1>9, <1>14, <2>2 DEF RemoveRevoked
<1>15. CASE Added(d) \/ Removed(d)
  <2>1. EditsTyped' /\ LibrariesTyped' BY <1>1, <1>2, <1>4, <1>15 DEF Added, Removed
  <2>2. repository' \in [Device -> SUBSET Item] BY <1>1, <1>8, <1>15 DEF Added, Removed
  <2> QED BY <1>6, <1>7, <1>8, <1>15, <2>1, <2>2 DEF Added, Removed
<1>16. CASE EditRejects(d)
  BY <1>4, <1>6, <1>7, <1>8, <1>9, <1>16 DEF EditRejects
<1> QED BY <1>10, <1>11, <1>12, <1>13, <1>14, <1>15, <1>16 DEF Edit

(* They concern no session and no message.                                 *)
LEMMA EditKeeps ==
    ASSUME NEW d \in Device, Edit(d)
    PROVE  UNCHANGED <<session, inbox>>
BY DEF Edit, lock, unlock, add, remove, revokeContent, RemoveRevoked, Added, Removed, EditRejects,
       SwapState, Network

(* Every step keeps the types.                                             *)
LEMMA NextTyped == TypeOK /\ [Next]_vars => TypeOK'
<1>1. ASSUME TypeOK, UNCHANGED vars PROVE TypeOK' BY <1>1 DEF TypeOK, vars, Message
<1>2. ASSUME TypeOK, NEW s \in Session, Start(s) \/ Step(s) PROVE TypeOK'
  BY <1>2, MovesTyped, SendingTyped, StorageTyped, ReconcileTyped DEF Step
<1>3. ASSUME TypeOK, NEW d \in Device, Deliver(d) \/ Expire(d) \/ Edit(d) PROVE TypeOK'
  BY <1>3, DeliverTyped, ExpireTyped, EditTyped
<1> QED BY <1>1, <1>2, <1>3 DEF Next

(* Whatever is sent, lost, late or refused: sessions, inboxes, waiting     *)
(* calls, logs and storage keep the values of their kind; in particular    *)
(* nothing is ever sent to its own sender, and a device's queue of waiting *)
(* receive() calls holds its own calls only.                               *)
THEOREM TypeCorrect == Spec => []TypeOK
BY InitTyped, NextTyped, PTL DEF Spec

-----------------------------------------------------------------------------
(* Every swap runs the state machine                                       *)

(* A session that has not called swap() yet is in the initial state.       *)
LEMMA MachineInit == Init => \A s \in Session : Machine(s)!Init
BY DEF Init, NotStarted, Phase, Negotiated, Machine!Init

(* A call of swap() changes no other session.                              *)
LEMMA BecomeChanges ==
    ASSUME TypeOK, NEW s \in Session, NEW r, Become(s, r)
    PROVE  session'[s] = r /\ \A t \in Session \ {s} : session'[t] = session[t]
BY DEF TypeOK, Become

(* What a step does to the sessions: s gets these variables, no other      *)
(* session changes.                                                        *)
Turns(s, stage, round, snapshot, working, listed, known,
      offered, accepted, sent, evicted, pending) ==
    /\ session'[s].stage = stage /\ session'[s].round = round
    /\ session'[s].snapshot = snapshot /\ session'[s].working = working
    /\ session'[s].listed = listed /\ session'[s].known = known
    /\ session'[s].offered = offered /\ session'[s].accepted = accepted
    /\ session'[s].sent = sent /\ session'[s].evicted = evicted
    /\ session'[s].pending = pending
    /\ \A t \in Session \ {s} : session'[t] = session[t]

(* s only reaches another stage.                                           *)
Reaches(s, stage) ==
    Turns(s, stage, session[s].round, session[s].snapshot, session[s].working,
          session[s].listed, session[s].known,
          session[s].offered, session[s].accepted, session[s].sent,
          session[s].evicted, session[s].pending)

(* s starts sending its message of a round.                                *)
Begins(s, round, working, known, accepted) ==
    Turns(s, "sending", round, session[s].snapshot, working, session[s].listed, known,
          session[s].offered, accepted, session[s].sent, session[s].evicted, session[s].pending)

(* s finishes with one of the items it has to store.                       *)
Ticks(s, item) ==
    Turns(s, session[s].stage, session[s].round, session[s].snapshot, session[s].working,
          session[s].listed, session[s].known,
          session[s].offered, session[s].accepted, session[s].sent,
          session[s].evicted, session[s].pending \ {item})

(* The catch block only changes the stage.                                 *)
LEMMA FailChanges ==
    ASSUME TypeOK, NEW s \in Session, NEW queues, NEW stage, Fail(s, queues, stage)
    PROVE  Reaches(s, stage)
<1>1. session'[s] = [session[s] EXCEPT !.stage = stage]
  BY BecomeChanges DEF Fail
<1>2. \A t \in Session \ {s} : session'[t] = session[t] BY BecomeChanges DEF Fail
<1> QED BY <1>1, <1>2 DEF TypeOK, IsSession, Reaches, Turns

(* What the steps of swap() before and between the messages change.        *)
LEMMA MoveChanges ==
    ASSUME TypeOK, NEW s \in Session
    PROVE  /\ Start(s) =>
                Turns(s, "discovered", session[s].round, library[Owner[s]], library[Owner[s]],
                      session[s].listed, session[s].known,
                      session[s].offered, session[s].accepted, session[s].sent,
                      session[s].evicted, session[s].pending)
           /\ BeginNegotiation(s) =>
                IF Owner[s] \in Gossips
                THEN Turns(s, "sending", "revocation", session[s].snapshot, session[s].working,
                           log[Owner[s]], Revoked(log[Owner[s]]),
                           session[s].offered, session[s].accepted, session[s].sent,
                           session[s].evicted, session[s].pending)
                ELSE Begins(s, "offer", session[s].working, session[s].known,
                            session[s].accepted)
           /\ Send(s) =>
                Turns(s, "sent", session[s].round, session[s].snapshot, session[s].working,
                      session[s].listed, session[s].known,
                      IF session[s].round = "offer" THEN candidates(s) ELSE session[s].offered,
                      session[s].accepted, session[s].sent,
                      session[s].evicted, session[s].pending)
           /\ Receive(s) => Reaches(s, "waiting")
           /\ CompleteTransfer(s) => Reaches(s, "reconciling")
           /\ Complete(s) => Reaches(s, "completed")
<1>0. IsSession(session[s]) BY DEF TypeOK
<1>1. ASSUME Start(s)
      PROVE  Turns(s, "discovered", session[s].round, library[Owner[s]], library[Owner[s]],
                      session[s].listed, session[s].known,
                   session[s].offered, session[s].accepted, session[s].sent,
                   session[s].evicted, session[s].pending)
  <2>1. /\ session'[s] = [session[s] EXCEPT !.stage = "discovered", !.snapshot = library[Owner[s]],
                                            !.working = library[Owner[s]]]
        /\ \A t \in Session \ {s} : session'[t] = session[t]
    BY <1>1, BecomeChanges DEF Start
  <2> QED BY <1>0, <2>1 DEF IsSession, Turns
<1>2. ASSUME BeginNegotiation(s), Owner[s] \in Gossips
      PROVE  Turns(s, "sending", "revocation", session[s].snapshot, session[s].working,
                   log[Owner[s]], Revoked(log[Owner[s]]),
                   session[s].offered, session[s].accepted, session[s].sent,
                   session[s].evicted, session[s].pending)
  <2>1. Become(s, [session[s] EXCEPT !.stage = "sending", !.round = "revocation",
                                     !.listed = log[Owner[s]], !.known = Revoked(log[Owner[s]])])
    BY <1>2 DEF BeginNegotiation, Become
  <2>2. /\ session'[s] = [session[s] EXCEPT !.stage = "sending", !.round = "revocation",
                                            !.listed = log[Owner[s]],
                                            !.known = Revoked(log[Owner[s]])]
        /\ \A t \in Session \ {s} : session'[t] = session[t]
    BY <2>1, BecomeChanges
  <2> QED BY <1>0, <2>2 DEF IsSession, Begins, Turns
<1>3. ASSUME BeginNegotiation(s), Owner[s] \notin Gossips
      PROVE  Begins(s, "offer", session[s].working, session[s].known, session[s].accepted)
  <2>1. Become(s, [session[s] EXCEPT !.stage = "sending", !.round = "offer"])
    BY <1>3 DEF BeginNegotiation, Become
  <2>2. /\ session'[s] = [session[s] EXCEPT !.stage = "sending", !.round = "offer"]
        /\ \A t \in Session \ {s} : session'[t] = session[t]
    BY <2>1, BecomeChanges
  <2> QED BY <1>0, <2>2 DEF IsSession, Begins, Turns
<1>4. ASSUME Send(s)
      PROVE  Turns(s, "sent", session[s].round, session[s].snapshot, session[s].working,
                      session[s].listed, session[s].known,
                   IF session[s].round = "offer" THEN candidates(s) ELSE session[s].offered,
                   session[s].accepted, session[s].sent,
                   session[s].evicted, session[s].pending)
  <2> DEFINE offered == IF session[s].round = "offer" THEN candidates(s) ELSE session[s].offered
  <2>1. /\ session'[s] = [session[s] EXCEPT !.stage = "sent", !.offered = offered]
        /\ \A t \in Session \ {s} : session'[t] = session[t]
    BY <1>4, BecomeChanges DEF Send
  <2> HIDE DEF offered
  <2>2. /\ session'[s].stage = "sent" /\ session'[s].offered = offered
        /\ session'[s].round = session[s].round /\ session'[s].snapshot = session[s].snapshot
        /\ session'[s].working = session[s].working /\ session'[s].listed = session[s].listed
        /\ session'[s].known = session[s].known /\ session'[s].accepted = session[s].accepted
        /\ session'[s].sent = session[s].sent /\ session'[s].evicted = session[s].evicted
        /\ session'[s].pending = session[s].pending
    BY <1>0, <2>1 DEF IsSession
  <2> QED BY <2>1, <2>2 DEF Turns, offered
<1>5. ASSUME NEW stage, Become(s, [session[s] EXCEPT !.stage = stage])
      PROVE  Reaches(s, stage)
  <2>1. /\ session'[s] = [session[s] EXCEPT !.stage = stage]
        /\ \A t \in Session \ {s} : session'[t] = session[t]
    BY <1>5, BecomeChanges
  <2> QED BY <1>0, <2>1 DEF IsSession, Reaches, Turns
<1> QED BY <1>1, <1>2, <1>3, <1>4, <1>5 DEF Receive, CompleteTransfer, Complete

(* What the handlers of the three messages change.                         *)
LEMMA HandlerChanges ==
    ASSUME TypeOK, NEW s \in Session, NEW m
    PROVE  /\ HandleRevocation(s, m) =>
                Begins(s, "offer", Without(session[s].working, RemovedBy(s, m.entries)),
                       session[s].known \cup Revoked(m.entries), session[s].accepted)
           /\ HandleOffer(s, m) =>
                \E accepted \in selectAccept(peerOffer(s, m.items), session[s].working,
                                             Capacity[Owner[s]].swappableSlots) :
                   Begins(s, "accept", session[s].working, session[s].known, accepted)
           /\ HandleAccept(s, m) =>
                Turns(s, "saving", session[s].round, session[s].snapshot, session[s].working,
                      session[s].listed, session[s].known,
                      session[s].offered, session[s].accepted,
                      session[s].offered \cap m.items, session[s].evicted, session[s].accepted)
<1>0. IsSession(session[s]) BY DEF TypeOK
<1>1. ASSUME HandleRevocation(s, m)
      PROVE  Begins(s, "offer", Without(session[s].working, RemovedBy(s, m.entries)),
                    session[s].known \cup Revoked(m.entries), session[s].accepted)
  <2> DEFINE lib == Without(session[s].working, RemovedBy(s, m.entries))
             known == session[s].known \cup Revoked(m.entries)
  <2>1. /\ session'[s] = [session[s] EXCEPT !.stage = "sending", !.round = "offer",
                                            !.known = known, !.working = lib]
        /\ \A t \in Session \ {s} : session'[t] = session[t]
    BY <1>1, BecomeChanges DEF HandleRevocation
  <2> HIDE DEF lib, known
  <2>2. Begins(s, "offer", lib, known, session[s].accepted)
    BY <1>0, <2>1 DEF IsSession, Begins, Turns
  <2> QED BY <2>2 DEF lib, known
<1>2. ASSUME NEW accepted,
             Become(s, [session[s] EXCEPT !.stage = "sending", !.round = "accept",
                                          !.accepted = accepted])
      PROVE  Begins(s, "accept", session[s].working, session[s].known, accepted)
  <2>1. /\ session'[s] = [session[s] EXCEPT !.stage = "sending", !.round = "accept",
                                            !.accepted = accepted]
        /\ \A t \in Session \ {s} : session'[t] = session[t]
    BY <1>2, BecomeChanges
  <2> QED BY <1>0, <2>1 DEF IsSession, Begins, Turns
<1>3. ASSUME HandleAccept(s, m)
      PROVE  Turns(s, "saving", session[s].round, session[s].snapshot, session[s].working,
                      session[s].listed, session[s].known,
                   session[s].offered, session[s].accepted,
                   session[s].offered \cap m.items, session[s].evicted, session[s].accepted)
  <2>1. /\ session'[s] = [session[s] EXCEPT !.stage = "saving", !.pending = session[s].accepted,
                                            !.sent = session[s].offered \cap m.items]
        /\ \A t \in Session \ {s} : session'[t] = session[t]
    BY <1>3, BecomeChanges DEF HandleAccept
  <2> QED BY <1>0, <2>1 DEF IsSession, Turns
<1> QED BY <1>1, <1>2, <1>3 DEF HandleOffer

(* What the steps on the device's own storage change.                      *)
LEMMA StorageChanges ==
    ASSUME TypeOK, NEW s \in Session
    PROVE  /\ Save(s) => \E item \in session[s].pending :
                /\ Ticks(s, item)
                /\ repository' = [repository EXCEPT ![Owner[s]] = @ \cup {item}]
           /\ RecordOutcome(s) => \E item \in session[s].pending : Ticks(s, item)
<1>1. ASSUME NEW item, Become(s, [session[s] EXCEPT !.pending = @ \ {item}])
      PROVE  Ticks(s, item)
  <2>1. /\ session'[s] = [session[s] EXCEPT !.pending = @ \ {item}]
        /\ \A t \in Session \ {s} : session'[t] = session[t]
    BY <1>1, BecomeChanges
  <2> QED BY <2>1 DEF TypeOK, IsSession, Ticks, Turns
<1> QED BY <1>1 DEF Save, RecordOutcome

(* The merge with eviction: the new library is the old one, less some      *)
(* swappable items, with what was accepted, and locks what it locked.      *)
LEMMA ReconcileChanges ==
    ASSUME TypeOK, NEW s \in Session, Reconcile(s)
    PROVE  \/ Abort(s)
           \/ \E evicted \in SUBSET swappableItems(session[s].working) : \E lib :
                /\ IsLibrary(lib)
                /\ DOMAIN lib \subseteq DOMAIN session[s].working \cup session[s].accepted
                /\ lockedItems(lib) = lockedItems(session[s].working)
                /\ Turns(s, "recording", session[s].round, session[s].snapshot, lib,
                      session[s].listed, session[s].known,
                         session[s].offered, session[s].accepted, session[s].sent, evicted,
                         (session[s].offered \ session[s].sent) \cup evicted)
                /\ UNCHANGED inbox
<1> DEFINE r == session[s]
           cap == Capacity[Owner[s]]
           result(evicted) == addAll(Without(r.working, evicted), r.accepted, 0, cap)
<1>1. PICK evicted \in selectEvict(r.working, r.accepted, cap.swappableSlots) :
         \/ /\ result(evicted).ok
            /\ Become(s, [r EXCEPT !.stage = "recording", !.working = result(evicted).library,
                                   !.evicted = evicted,
                                   !.pending = (r.offered \ r.sent) \cup evicted])
            /\ UNCHANGED inbox
         \/ ~result(evicted).ok /\ Abort(s)
  BY DEF Reconcile
<1> DEFINE lib == result(evicted).library
           less == Without(r.working, evicted)
<1>2. cap \in CapacityType BY SessionAssumption, DeviceAssumption
<1>3. IsLibrary(r.working) /\ r.accepted \in SUBSET Item BY DEF TypeOK, IsSession
<1>4. evicted \subseteq swappableItems(r.working) BY <1>1, <1>3, ChoicesAreItems
<1>5. /\ IsLibrary(less) /\ DOMAIN less = DOMAIN r.working \ evicted
      /\ lockedItems(less) = lockedItems(r.working) \ evicted
  BY <1>3, WithoutKeepsLocked
<1>6. lockedItems(less) = lockedItems(r.working)
  BY <1>4, <1>5 DEF lockedItems, swappableItems
<1>7. /\ IsLibrary(lib) /\ DOMAIN lib \subseteq DOMAIN less \cup r.accepted
      /\ lockedItems(lib) = lockedItems(less)
  <2>1. lib = addAll(less, r.accepted, 0, cap).library OBVIOUS
  <2>2. 0 \in Priority BY PriorityAssumption
  <2> DEFINE accepted == r.accepted
             added == addAll(less, accepted, 0, cap).library
  <2>3. IsLibrary(less) /\ accepted \in SUBSET Item /\ cap \in CapacityType BY <1>2, <1>3, <1>5
  <2> HIDE DEF less, accepted, cap
  <2>4. /\ IsLibrary(added) /\ DOMAIN added \subseteq DOMAIN less \cup accepted
        /\ lockedItems(added) = lockedItems(less)
    BY <2>2, <2>3, AddAllKeepsLocked
  <2> QED BY <2>1, <2>4 DEF accepted, cap
<1>8. ASSUME Become(s, [r EXCEPT !.stage = "recording", !.working = lib,
                                 !.evicted = evicted,
                                 !.pending = (r.offered \ r.sent) \cup evicted])
      PROVE  Turns(s, "recording", r.round, r.snapshot, lib, r.listed, r.known,
                   r.offered, r.accepted, r.sent, evicted, (r.offered \ r.sent) \cup evicted)
  <2> DEFINE pending == (r.offered \ r.sent) \cup evicted
  <2> HIDE DEF result, lib, pending
  <2>1. /\ session'[s] = [session[s] EXCEPT !.stage = "recording", !.working = lib,
                                            !.evicted = evicted, !.pending = pending]
        /\ \A t \in Session \ {s} : session'[t] = session[t]
    BY <1>8, BecomeChanges DEF pending
  <2>2. IsSession(session[s]) BY DEF TypeOK
  <2>3. Turns(s, "recording", r.round, r.snapshot, lib, r.listed, r.known,
              r.offered, r.accepted, r.sent, evicted, pending)
    BY <2>1, <2>2 DEF IsSession, Turns
  <2> QED BY <2>3 DEF pending
<1> QED BY <1>1, <1>4, <1>5, <1>6, <1>7, <1>8

(* A session that does not change makes no transition, and neither does    *)
(* one whose variables change within a phase.                              *)
LEMMA MachineStutters ==
    ASSUME NEW s \in Session, Phase(s)' = Phase(s),
           \/ ~Negotiated(s)
           \/ /\ session'[s].sent = session[s].sent
              /\ session'[s].accepted = session[s].accepted
              /\ Phase(s) = "completed" => session'[s].evicted = session[s].evicted
    PROVE  UNCHANGED Machine(s)!vars
BY DEF Machine!vars, Negotiated

(* Giving up is ABORT, in every phase that is not terminal.                *)
LEMMA MachineAborts ==
    ASSUME TypeOK, NEW s \in Session, NEW queues,
           session[s].stage \in {"discovered", "sending", "sent", "waiting", "saving", "reconciling"},
           Fail(s, queues, "aborted")
    PROVE  Machine(s)!Next
<1>1. session'[s].stage = "aborted" BY FailChanges DEF Reaches, Turns
<1>2. Phase(s) \notin {"aborted", "completed"} BY DEF Phase
<1>3. Phase(s)' = "aborted" BY <1>1 DEF Phase
<1>4. Machine(s)!ABORT
  BY <1>2, <1>3 DEF Machine!ABORT, Machine!Terminal, Negotiated
<1> QED BY <1>4 DEF Machine!Next

(* What one call of swap() does is a transition of its own machine.        *)
LEMMA StepTransition ==
    ASSUME TypeOK, NEW s \in Session, Start(s) \/ Step(s)
    PROVE  Machine(s)!Next \/ UNCHANGED Machine(s)!vars
<1>1. CASE Start(s)
  <2>1. session[s].stage = "idle" /\ session'[s].stage = "discovered"
    BY <1>1, MoveChanges DEF Start, Turns
  <2>2. Machine(s)!PEER_DISCOVERED
    BY <2>1 DEF Machine!PEER_DISCOVERED, Phase, Negotiated
  <2> QED BY <2>2 DEF Machine!Next
<1>2. CASE BeginNegotiation(s)
  <2>1. session[s].stage = "discovered" /\ session'[s].stage = "sending"
    BY <1>2, MoveChanges DEF BeginNegotiation, Begins, Turns
  <2>2. Machine(s)!BEGIN_NEGOTIATION
    BY <2>1 DEF Machine!BEGIN_NEGOTIATION, Phase, Negotiated
  <2> QED BY <2>2 DEF Machine!Next
<1>3. CASE Send(s) \/ Receive(s)
  <2>1. session[s].stage \in {"sending", "sent"} BY <1>3 DEF Send, Receive
  <2>2. session'[s].stage \in {"sent", "waiting"} BY <1>3, MoveChanges DEF Reaches, Turns
  <2>3. Phase(s) = "negotiating" /\ Phase(s)' = "negotiating" BY <2>1, <2>2 DEF Phase
  <2> QED BY <2>3, MachineStutters DEF Negotiated
<1>4. CASE SendRejects(s) \/ Throttle(s) \/ Timeout(s)
  <2>1. PICK queues : Fail(s, queues, "aborted") BY <1>4 DEF SendRejects, Throttle, Timeout, Abort
  <2>2. session[s].stage \in {"discovered", "sending", "waiting"}
    BY <1>4 DEF SendRejects, Throttle, Timeout
  <2> QED BY <2>1, <2>2, MachineAborts
<1>5. CASE Save(s) \/ RecordOutcome(s)
  <2>1. PICK item : Ticks(s, item) BY <1>5, StorageChanges
  <2>2. Phase(s)' = Phase(s) BY <2>1 DEF Phase, Ticks, Turns
  <2> QED BY <2>1, <2>2, MachineStutters DEF Ticks, Turns
<1>6. CASE CompleteTransfer(s)
  <2>1. /\ session[s].stage = "saving" /\ session'[s].stage = "reconciling"
        /\ session'[s].sent = session[s].sent /\ session'[s].accepted = session[s].accepted
    BY <1>6, MoveChanges DEF CompleteTransfer, Reaches, Turns
  <2>2. Phase(s) = "negotiated" /\ Phase(s)' = "transferred" BY <2>1 DEF Phase
  <2>3. Machine(s)!TRANSFER_COMPLETE(session[s].sent, session[s].accepted)
    BY <2>1, <2>2 DEF Machine!TRANSFER_COMPLETE, Negotiated
  <2> QED BY <2>2, <2>3 DEF Machine!Next, Negotiated
<1>7. CASE Reconcile(s)
  <2>1. session[s].stage = "reconciling" BY <1>7 DEF Reconcile
  <2>2. CASE Abort(s) BY <2>1, <2>2, MachineAborts DEF Abort
  <2>3. CASE ~Abort(s)
    <3>1. /\ session'[s].stage = "recording"
          /\ session'[s].sent = session[s].sent /\ session'[s].accepted = session[s].accepted
      BY <1>7, <2>3, ReconcileChanges DEF Turns
    <3>2. session'[s].evicted \in SUBSET Item
      BY <1>7, ReconcileTyped DEF TypeOK, IsSession
    <3>3. Phase(s) = "transferred" /\ Phase(s)' = "completed" BY <2>1, <3>1 DEF Phase
    <3>4. Machine(s)!RECONCILE_COMPLETE(session'[s].evicted)
      BY <3>1, <3>3 DEF Machine!RECONCILE_COMPLETE, Negotiated
    <3> QED BY <3>2, <3>4 DEF Machine!Next
  <2> QED BY <2>2, <2>3
<1>8. CASE Complete(s)
  <2>1. /\ session[s].stage = "recording" /\ session'[s].stage = "completed"
        /\ session'[s].sent = session[s].sent /\ session'[s].accepted = session[s].accepted
        /\ session'[s].evicted = session[s].evicted
    BY <1>8, MoveChanges DEF Complete, Reaches, Turns
  <2>2. Phase(s)' = Phase(s) BY <2>1 DEF Phase
  <2> QED BY <2>1, <2>2, MachineStutters
<1>9. CASE StorageRejects(s)
  <2>1. CASE session[s].stage = "saving" /\ Abort(s)
    BY <2>1, MachineAborts DEF Abort
  <2>2. CASE session[s].stage = "recording" /\ Fail(s, inbox, "rejected")
    <3>1. /\ session'[s].stage = "rejected"
          /\ session'[s].sent = session[s].sent /\ session'[s].accepted = session[s].accepted
          /\ session'[s].evicted = session[s].evicted
      BY <2>2, FailChanges DEF Reaches, Turns
    <3>2. Phase(s)' = Phase(s) BY <2>2, <3>1 DEF Phase
    <3> QED BY <3>1, <3>2, MachineStutters
  <2> QED BY <1>9, <2>1, <2>2 DEF StorageRejects
<1> QED BY <1>1, <1>2, <1>3, <1>4, <1>5, <1>6, <1>7, <1>8, <1>9 DEF Step

(* A receive() call of s, at d, resolves with m, and leaves rest.          *)
Resolves(d, s, m, rest) ==
    /\ Owner[s] = d
    /\ \E i \in DOMAIN inbox[d] : m = inbox[d][i]
    /\ DOMAIN rest = Device /\ \A x \in Device : rest[x] \in Seq(Message(x))
    /\ \A x \in Device : \A i \in DOMAIN rest[x] :
          \E j \in DOMAIN inbox[x] : rest[x][i] = inbox[x][j]
    /\ \/ inbox' = rest /\ UNCHANGED <<session, Stored>>
       \/ session[s].stage = "waiting" /\ Fail(s, rest, "aborted") /\ UNCHANGED Stored
       \/ /\ session[s].stage = "waiting" /\ session[s].round = "revocation"
          /\ m.kind = "revocation" /\ RecordRejects(s, m, rest)
       \/ /\ session[s].stage = "waiting" /\ session[s].round = m.kind
          /\ inbox' = rest
          /\ \/ m.kind = "revocation" /\ HandleRevocation(s, m)
             \/ m.kind = "offer" /\ HandleOffer(s, m)
             \/ m.kind = "accept" /\ HandleAccept(s, m)

(* What it resolves to concerns the first waiting call only.               *)
LEMMA DeliverCases ==
    ASSUME TypeOK, NEW d \in Device, Deliver(d)
    PROVE  \E s \in Session, m \in Message(d) : \E rest : Resolves(d, s, m, rest)
<1> DEFINE s == Head(waiters[d])
           m == Head(inbox[d])
           rest == [inbox EXCEPT ![d] = Tail(@)]
<1>1. /\ s \in Session /\ Owner[s] = d /\ m \in Message(d)
      /\ m = inbox[d][1] /\ 1 \in DOMAIN inbox[d]
      /\ DOMAIN rest = Device /\ \A x \in Device : rest[x] \in Seq(Message(x))
      /\ \A x \in Device : \A i \in DOMAIN rest[x] :
            \E j \in DOMAIN inbox[x] : rest[x][i] = inbox[x][j]
  BY RestTyped DEF Deliver
<1>2. \/ inbox' = rest /\ UNCHANGED <<session, Stored>>
      \/ session[s].stage = "waiting" /\ Fail(s, rest, "aborted") /\ UNCHANGED Stored
      \/ /\ session[s].stage = "waiting" /\ session[s].round = "revocation"
         /\ m.kind = "revocation" /\ RecordRejects(s, m, rest)
      \/ /\ session[s].stage = "waiting" /\ session[s].round = m.kind
         /\ inbox' = rest
         /\ \/ m.kind = "revocation" /\ HandleRevocation(s, m)
            \/ m.kind = "offer" /\ HandleOffer(s, m)
            \/ m.kind = "accept" /\ HandleAccept(s, m)
  BY DEF Deliver, Expected
<1>3. \E i \in DOMAIN inbox[d] : m = inbox[d][i] BY <1>1
<1> HIDE DEF s, m, rest
<1>4. Resolves(d, s, m, rest) BY <1>1, <1>2, <1>3, Zenon DEF Resolves
<1> QED BY <1>1, <1>4, Zenon

(* So is what a delivered message makes of the waiting call.               *)
LEMMA DeliverTransition ==
    ASSUME TypeOK, NEW d \in Device, Deliver(d)
    PROVE  \E s \in Session :
             /\ Machine(s)!Next \/ UNCHANGED Machine(s)!vars
             /\ \A t \in Session \ {s} : session'[t] = session[t]
<1>0. PICK s \in Session, m \in Message(d) : \E rest : Resolves(d, s, m, rest)
  BY DeliverCases
<1>1. PICK rest : Resolves(d, s, m, rest) BY <1>0
<1>2. CASE UNCHANGED session
  <2>1. Phase(s)' = Phase(s) BY <1>2 DEF Phase
  <2> QED BY <1>2, <2>1, MachineStutters
<1>3. CASE session[s].stage = "waiting" /\ Fail(s, rest, "aborted")
  BY <1>3, MachineAborts, FailChanges DEF Reaches, Turns
<1>4. CASE /\ session[s].stage = "waiting"
           /\ HandleRevocation(s, m) \/ HandleOffer(s, m)
  <2>1. session'[s].stage = "sending" /\ \A t \in Session \ {s} : session'[t] = session[t]
    BY <1>4, HandlerChanges DEF Begins, Turns
  <2>2. Phase(s) = "negotiating" /\ Phase(s)' = "negotiating" BY <1>4, <2>1 DEF Phase
  <2> QED BY <2>1, <2>2, MachineStutters DEF Negotiated
<1>5. CASE session[s].stage = "waiting" /\ m.kind = "accept" /\ HandleAccept(s, m)
  <2>1. /\ session'[s].stage = "saving" /\ session'[s].sent = session[s].offered \cap m.items
        /\ session'[s].accepted = session[s].accepted
        /\ \A t \in Session \ {s} : session'[t] = session[t]
    BY <1>5, HandlerChanges DEF Turns
  <2>2. Phase(s) = "negotiating" /\ Phase(s)' = "negotiated" BY <1>5, <2>1 DEF Phase
  <2>3. session'[s].sent \in SUBSET Item /\ session'[s].accepted \in SUBSET Item
    BY <2>1 DEF TypeOK, IsSession
  <2>4. Machine(s)!NEGOTIATION_COMPLETE(session'[s].sent, session'[s].accepted)
    BY <2>2 DEF Machine!NEGOTIATION_COMPLETE, Negotiated
  <2>5. Machine(s)!Next BY <2>3, <2>4 DEF Machine!Next
  <2> QED BY <2>1, <2>5
<1> QED BY <1>1, <1>2, <1>3, <1>4, <1>5 DEF Resolves, RecordRejects

(* A step of one session leaves the others alone.                          *)
LEMMA OthersUnchanged ==
    ASSUME TypeOK, NEW s \in Session, Start(s) \/ Step(s)
    PROVE  \A t \in Session \ {s} : session'[t] = session[t]
<1>1. CASE Start(s) \/ BeginNegotiation(s) \/ Send(s) \/ Receive(s) \/ CompleteTransfer(s) \/ Complete(s)
  BY <1>1, MoveChanges DEF Begins, Reaches, Turns
<1>2. CASE SendRejects(s) \/ Throttle(s) \/ Timeout(s) \/ StorageRejects(s)
  BY <1>2, FailChanges DEF SendRejects, Throttle, Timeout, StorageRejects, Abort, Reaches, Turns
<1>3. CASE Save(s) \/ RecordOutcome(s) BY <1>3, StorageChanges DEF Ticks, Turns
<1>4. CASE Reconcile(s) BY <1>4, ReconcileChanges, FailChanges DEF Abort, Reaches, Turns
<1> QED BY <1>1, <1>2, <1>3, <1>4 DEF Step

(* Which steps of a call touch the repository, the library and the log.    *)
LEMMA StepStores ==
    ASSUME NEW s \in Session, Start(s) \/ Step(s)
    PROVE  /\ UNCHANGED log
           /\ Complete(s) \/ UNCHANGED library
           /\ Save(s) \/ UNCHANGED repository
BY DEF Step, Start, Throttle, BeginNegotiation, Send, SendRejects, Receive, Timeout, Save,
       CompleteTransfer, Reconcile, RecordOutcome, Complete, StorageRejects, Stored

(* Every step is one transition of one machine, or of none.                *)
LEMMA NextTransition ==
    TypeOK /\ [Next]_vars => \A s \in Session : [Machine(s)!Next]_(Machine(s)!vars)
<1> SUFFICES ASSUME TypeOK, [Next]_vars, NEW s \in Session
             PROVE  Machine(s)!Next \/ UNCHANGED Machine(s)!vars
  BY Zenon
<1>1. ASSUME session'[s] = session[s] PROVE UNCHANGED Machine(s)!vars
  <2>1. Phase(s)' = Phase(s) BY <1>1 DEF Phase
  <2> QED BY <1>1, <2>1, MachineStutters
<1>2. CASE UNCHANGED vars BY <1>1, <1>2 DEF vars
<1>3. ASSUME NEW t \in Session, Start(t) \/ Step(t)
      PROVE  Machine(s)!Next \/ UNCHANGED Machine(s)!vars
  <2>1. CASE t = s BY <1>3, <2>1, StepTransition
  <2>2. CASE t # s BY <1>1, <1>3, <2>2, OthersUnchanged
  <2> QED BY <2>1, <2>2
<1>4. ASSUME NEW d \in Device, Deliver(d)
      PROVE  Machine(s)!Next \/ UNCHANGED Machine(s)!vars
  <2>1. PICK t \in Session :
           /\ Machine(t)!Next \/ UNCHANGED Machine(t)!vars
           /\ \A u \in Session \ {t} : session'[u] = session[u]
    BY <1>4, DeliverTransition
  <2>2. CASE t = s BY <2>1, <2>2
  <2>3. CASE t # s BY <1>1, <2>1, <2>3
  <2> QED BY <2>2, <2>3
<1>5. ASSUME NEW d \in Device, Expire(d) \/ Edit(d) PROVE UNCHANGED Machine(s)!vars
  BY <1>1, <1>5, EditKeeps DEF Expire
<1> QED BY <1>2, <1>3, <1>4, <1>5 DEF Next

(* swap() only makes transitions that the reducer accepts, in the order    *)
(* the state machine asks for, whatever the peer, the network and the      *)
(* storage do: unwrapTransition never throws.                              *)
THEOREM StateMachineFollowed == Spec => FollowsStateMachine
BY InitTyped, NextTyped, MachineInit, NextTransition, PTL DEF Spec, FollowsStateMachine

-----------------------------------------------------------------------------
(* The rounds of one session                                               *)

(* What may be swapped away of less is part of what may be of the whole.   *)
LEMMA SwappableWithout ==
    ASSUME NEW lib, NEW items
    PROVE  swappableItems(Without(lib, items)) \subseteq swappableItems(lib)
BY DEF swappableItems, Without

(* Until it accepts, a session works on no other swappable items than      *)
(* those it was called with.  It accepts in its last round only, nothing   *)
(* it knows is revoked, and what it stores is what it accepted.            *)
RoundsInOrder(s) ==
    /\ session[s].stage = "idle" => swappableItems(session[s].snapshot) = {}
    /\ session[s].stage \in {"idle", "discovered"} => session[s].round = "revocation"
    /\ session[s].stage \in {"saving", "reconciling", "recording", "completed", "rejected"}
         => session[s].round = "accept"
    /\ session[s].round # "accept" =>
         /\ session[s].accepted = {}
         /\ swappableItems(session[s].working) \subseteq swappableItems(session[s].snapshot)
    /\ Revoked(session[s].listed) \subseteq session[s].known
    /\ session[s].accepted \cap session[s].known = {}
    /\ session[s].stage = "saving" => session[s].pending \subseteq session[s].accepted

RoundInv == \A s \in Session : RoundsInOrder(s)

(* It holds before anything is called.                                     *)
LEMMA RoundInit == Init => RoundInv
<1>1. swappableItems(EmptyLibrary) = {} BY EmptyLibraryIsLibrary DEF swappableItems
<1>2. Revoked({}) = {} BY DEF Revoked
<1>3. SUFFICES ASSUME Init, NEW s \in Session PROVE RoundsInOrder(s)
  BY DEF RoundInv
<1>4. session[s] = NotStarted BY <1>3 DEF Init
<1> QED BY <1>1, <1>2, <1>4 DEF NotStarted, RoundsInOrder

(* Ending a session in the catch block does not disturb it.                *)
LEMMA RoundFails ==
    ASSUME TypeOK, NEW s \in Session, RoundsInOrder(s), NEW queues, NEW stage,
           \/ stage = "aborted"
           \/ stage = "rejected" /\ session[s].stage = "recording",
           Fail(s, queues, stage)
    PROVE  RoundsInOrder(s)'
BY FailChanges DEF Reaches, Turns, RoundsInOrder

(* Neither do the steps between the messages.                              *)
LEMMA RoundSteps ==
    ASSUME TypeOK, NEW s \in Session, RoundsInOrder(s), Start(s) \/ Step(s)
    PROVE  RoundsInOrder(s)'
<1>1. CASE Start(s) BY <1>1, MoveChanges DEF Start, Turns, RoundsInOrder
<1>2. CASE BeginNegotiation(s)
  <2>1. session[s].stage = "discovered" /\ session[s].accepted = {} /\ session[s].round = "revocation"
    BY <1>2 DEF BeginNegotiation, RoundsInOrder
  <2>2. CASE Owner[s] \in Gossips
    BY <1>2, <2>1, <2>2, MoveChanges DEF Turns, RoundsInOrder
  <2>3. CASE Owner[s] \notin Gossips
    BY <1>2, <2>1, <2>3, MoveChanges DEF Begins, Turns, RoundsInOrder
  <2> QED BY <2>2, <2>3
<1>3. CASE Send(s) BY <1>3, MoveChanges DEF Send, Turns, RoundsInOrder
<1>4. CASE Receive(s) BY <1>4, MoveChanges DEF Receive, Reaches, Turns, RoundsInOrder
<1>5. CASE CompleteTransfer(s)
  BY <1>5, MoveChanges DEF CompleteTransfer, Reaches, Turns, RoundsInOrder
<1>6. CASE Complete(s) BY <1>6, MoveChanges DEF Complete, Reaches, Turns, RoundsInOrder
<1>7. CASE SendRejects(s) \/ Throttle(s) \/ Timeout(s) \/ StorageRejects(s)
  BY <1>7, RoundFails DEF SendRejects, Throttle, Timeout, StorageRejects, Abort
<1>8. CASE Save(s) \/ RecordOutcome(s)
  BY <1>8, StorageChanges DEF Ticks, Turns, RoundsInOrder
<1>9. CASE Reconcile(s)
  BY <1>9, ReconcileChanges, RoundFails DEF Reconcile, Abort, Turns, RoundsInOrder
<1> QED BY <1>1, <1>2, <1>3, <1>4, <1>5, <1>6, <1>7, <1>8, <1>9 DEF Step

(* Nor does a message.                                                     *)
LEMMA RoundDelivers ==
    ASSUME TypeOK, RoundInv, NEW d \in Device, Deliver(d)
    PROVE  RoundInv'
<1>0. PICK s \in Session, m \in Message(d) : \E rest : Resolves(d, s, m, rest)
  BY DeliverCases
<1>1. PICK rest : Resolves(d, s, m, rest) BY <1>0
<1>2. RoundsInOrder(s) BY DEF RoundInv
<1>3. CASE UNCHANGED session BY <1>3 DEF RoundInv, RoundsInOrder
<1>4. ASSUME \A t \in Session \ {s} : session'[t] = session[t], RoundsInOrder(s)' PROVE RoundInv'
  BY <1>4 DEF RoundInv, RoundsInOrder
<1>5. CASE Fail(s, rest, "aborted")
  BY <1>2, <1>4, <1>5, RoundFails, FailChanges DEF Reaches, Turns
<1>6. CASE session[s].round = "revocation" /\ HandleRevocation(s, m)
  <2> DEFINE lib == Without(session[s].working, RemovedBy(s, m.entries))
  <2>1. swappableItems(lib) \subseteq swappableItems(session[s].working) BY SwappableWithout
  <2> HIDE DEF lib
  <2>2. Begins(s, "offer", lib, session[s].known \cup Revoked(m.entries), session[s].accepted)
    BY <1>6, HandlerChanges DEF lib
  <2>3. RoundsInOrder(s)' BY <1>2, <1>6, <2>1, <2>2 DEF Begins, Turns, RoundsInOrder
  <2> QED BY <1>4, <2>2, <2>3 DEF Begins, Turns
<1>7. CASE HandleOffer(s, m)
  <2>1. PICK accepted \in selectAccept(peerOffer(s, m.items), session[s].working,
                                       Capacity[Owner[s]].swappableSlots) :
           Begins(s, "accept", session[s].working, session[s].known, accepted)
    BY <1>7, HandlerChanges
  <2>2. accepted \cap session[s].known = {} BY <2>1 DEF selectAccept, peerOffer
  <2>3. RoundsInOrder(s)' BY <1>2, <2>1, <2>2 DEF Begins, Turns, RoundsInOrder
  <2> QED BY <1>4, <2>1, <2>3 DEF Begins, Turns
<1>8. CASE session[s].round = "accept" /\ HandleAccept(s, m)
  BY <1>2, <1>4, <1>8, HandlerChanges DEF Turns, RoundsInOrder
<1> QED BY <1>1, <1>3, <1>5, <1>6, <1>7, <1>8 DEF Resolves, RecordRejects

(* So it is an invariant.                                                  *)
LEMMA RoundNext == TypeOK /\ RoundInv /\ [Next]_vars => RoundInv'
<1>1. ASSUME RoundInv, UNCHANGED session PROVE RoundInv'
  BY <1>1 DEF RoundInv, RoundsInOrder
<1>2. ASSUME TypeOK, RoundInv, NEW s \in Session, Start(s) \/ Step(s) PROVE RoundInv'
  BY <1>2, RoundSteps, OthersUnchanged, SMTT(30) DEF RoundInv, RoundsInOrder
<1>3. ASSUME TypeOK, RoundInv, NEW d \in Device, Deliver(d) PROVE RoundInv'
  BY <1>3, RoundDelivers
<1>4. ASSUME NEW d \in Device, Expire(d) \/ Edit(d) PROVE UNCHANGED session
  BY <1>4, EditKeeps DEF Expire
<1> QED BY <1>1, <1>2, <1>3, <1>4 DEF Next, vars

-----------------------------------------------------------------------------
(* What a session keeps from its beginning                                 *)

HasBegun(s) == session[s].stage \notin {"idle", "discovered"}

(* A call keeps the library it was called with, the list it began with,    *)
(* and what it accepted.                                                   *)
LEMMA StepKeeps ==
    ASSUME TypeOK, NEW s \in Session, Start(s) \/ Step(s)
    PROVE  /\ Start(s) \/ session'[s].snapshot = session[s].snapshot
           /\ HasBegun(s) => HasBegun(s)' /\ session'[s].listed = session[s].listed
           /\ session'[s].accepted = session[s].accepted
<1>1. CASE Start(s) BY <1>1, MoveChanges DEF Start, Turns, HasBegun
<1>2. CASE BeginNegotiation(s)
  BY <1>2, MoveChanges DEF BeginNegotiation, Begins, Turns, HasBegun
<1>3. CASE Send(s) \/ Receive(s) \/ CompleteTransfer(s) \/ Complete(s)
  BY <1>3, MoveChanges DEF Reaches, Turns, HasBegun
<1>4. CASE SendRejects(s) \/ Throttle(s) \/ Timeout(s) \/ StorageRejects(s)
  BY <1>4, FailChanges DEF SendRejects, Throttle, Timeout, StorageRejects, Abort, Reaches, Turns, HasBegun
<1>5. CASE Save(s) \/ RecordOutcome(s) BY <1>5, StorageChanges DEF Ticks, Turns, HasBegun
<1>6. CASE Reconcile(s)
  BY <1>6, ReconcileChanges, FailChanges DEF Abort, Reaches, Turns, HasBegun
<1> QED BY <1>1, <1>2, <1>3, <1>4, <1>5, <1>6 DEF Step

(* So does a message, but what it makes the call accept is in the offer.   *)
LEMMA DeliverKeeps ==
    ASSUME TypeOK, NEW d \in Device, Deliver(d), NEW u \in Session
    PROVE  /\ session'[u].snapshot = session[u].snapshot
           /\ HasBegun(u) => HasBegun(u)' /\ session'[u].listed = session[u].listed
           /\ \/ session'[u].accepted = session[u].accepted
              \/ \E i \in DOMAIN inbox[Owner[u]] :
                    /\ inbox[Owner[u]][i].kind = "offer"
                    /\ session'[u].accepted \subseteq inbox[Owner[u]][i].items
<1>0. PICK s \in Session, m \in Message(d) : \E rest : Resolves(d, s, m, rest)
  BY DeliverCases
<1>1. PICK rest : Resolves(d, s, m, rest) BY <1>0
<1>2. CASE session'[u] = session[u] BY <1>2 DEF HasBegun
<1>3. CASE Fail(s, rest, "aborted")
  BY <1>2, <1>3, FailChanges DEF Reaches, Turns, HasBegun
<1>4. CASE HandleRevocation(s, m)
  BY <1>2, <1>4, HandlerChanges DEF Begins, Turns, HasBegun
<1>5. CASE m.kind = "offer" /\ HandleOffer(s, m)
  <2>1. PICK accepted \in selectAccept(peerOffer(s, m.items), session[s].working,
                                       Capacity[Owner[s]].swappableSlots) :
           Begins(s, "accept", session[s].working, session[s].known, accepted)
    BY <1>5, HandlerChanges
  <2>2. accepted \subseteq m.items BY <2>1 DEF selectAccept, peerOffer
  <2>3. CASE u = s
    <3>1. \E i \in DOMAIN inbox[Owner[u]] : m = inbox[Owner[u]][i] BY <1>1, <2>3 DEF Resolves
    <3>2. /\ session'[s].snapshot = session[s].snapshot /\ session'[s].listed = session[s].listed
          /\ session'[s].stage = "sending" /\ session'[s].accepted = accepted
      BY <2>1 DEF Begins, Turns
    <3> QED BY <1>5, <2>2, <2>3, <3>1, <3>2 DEF HasBegun
  <2>4. CASE u # s BY <1>2, <2>1, <2>4 DEF Begins, Turns
  <2> QED BY <2>3, <2>4
<1>6. CASE HandleAccept(s, m)
  BY <1>2, <1>6, HandlerChanges DEF Turns, HasBegun
<1> QED BY <1>1, <1>2, <1>3, <1>4, <1>5, <1>6 DEF Resolves, RecordRejects

(* In short.                                                               *)
LEMMA BeginningsKept ==
    ASSUME TypeOK, RoundInv, [Next]_vars, NEW t \in Session
    PROVE  /\ swappableItems(session[t].snapshot) \subseteq swappableItems(session'[t].snapshot)
           /\ HasBegun(t) => HasBegun(t)' /\ session'[t].listed = session[t].listed
<1>1. CASE session'[t] = session[t] BY <1>1 DEF HasBegun
<1>2. ASSUME NEW s \in Session, Start(s) \/ Step(s)
      PROVE  /\ swappableItems(session[t].snapshot) \subseteq swappableItems(session'[t].snapshot)
             /\ HasBegun(t) => HasBegun(t)' /\ session'[t].listed = session[t].listed
  <2>1. CASE t # s BY <1>1, <1>2, <2>1, OthersUnchanged
  <2>2. CASE t = s
    <3>1. Start(s) => swappableItems(session[s].snapshot) = {}
      BY DEF Start, RoundInv, RoundsInOrder
    <3> QED BY <1>2, <2>2, <3>1, StepKeeps
  <2> QED BY <2>1, <2>2
<1>3. ASSUME NEW d \in Device, Deliver(d)
      PROVE  /\ swappableItems(session[t].snapshot) \subseteq swappableItems(session'[t].snapshot)
             /\ HasBegun(t) => HasBegun(t)' /\ session'[t].listed = session[t].listed
  BY <1>3, DeliverKeeps
<1>4. ASSUME NEW d \in Device, Expire(d) \/ Edit(d) PROVE UNCHANGED session
  BY <1>4, EditKeeps DEF Expire
<1>5. CASE UNCHANGED vars BY <1>1, <1>5 DEF vars
<1> QED BY <1>1, <1>2, <1>3, <1>4, <1>5 DEF Next

-----------------------------------------------------------------------------
(* What is on its way                                                     *)

(* Sending adds one message, to one inbox.                                 *)
LEMMA DeliveredAdds ==
    ASSUME TypeOK, NEW s \in Session, NEW e \in Device, NEW i \in DOMAIN Delivered(s)[e]
    PROVE  \/ \E j \in DOMAIN inbox[e] : Delivered(s)[e][i] = inbox[e][j]
           \/ Delivered(s)[e][i] = Outbound(s) /\ e = Peer[s]
<1>1. CASE e # Peer[s] BY <1>1, DeliveredTyped
<1>2. CASE e = Peer[s]
  <2> DEFINE q == inbox[e]
             m == Outbound(s)
  <2>1. Delivered(s)[e] = Append(q, m) BY <1>2, DeliveredTyped
  <2>2. q \in Seq(Message(e)) BY DEF TypeOK
  <2>3. Append(q, m) \in Seq(Message(e)) BY <2>1, DeliveredTyped
  <2>4. m \in Message(e)
    <3>1. Len(q) + 1 \in DOMAIN Append(q, m) /\ Append(q, m)[Len(q) + 1] = m
      BY <2>2, AppendProperties
    <3> QED BY <2>3, <3>1, ElementOfSeq, LenProperties
  <2>5. Len(q) \in Nat /\ DOMAIN q = 1..Len(q) BY <2>2, LenProperties
  <2>6. /\ DOMAIN Append(q, m) = 1..Len(q) + 1
        /\ \A j \in 1..Len(q) : Append(q, m)[j] = q[j]
        /\ Append(q, m)[Len(q) + 1] = m
    BY <2>2, <2>4, AppendProperties, LenProperties
  <2> HIDE DEF q, m
  <2>7. (i \in DOMAIN q /\ Append(q, m)[i] = q[i]) \/ Append(q, m)[i] = m
    BY <2>1, <2>5, <2>6
  <2> QED BY <1>2, <2>1, <2>7 DEF q, m
<1> QED BY <1>1, <1>2

(* What a step of one call puts into an inbox is the message it was to     *)
(* send, to the device it talks to; it then waits for the answer, or fails.*)
LEMMA InboxGrows ==
    ASSUME TypeOK, NEW s \in Session, Start(s) \/ Step(s),
           NEW e \in Device, NEW i \in DOMAIN inbox'[e]
    PROVE  \/ \E j \in DOMAIN inbox[e] : inbox'[e][i] = inbox[e][j]
           \/ /\ inbox'[e][i] = Outbound(s) /\ e = Peer[s] /\ session[s].stage = "sending"
              /\ Send(s) \/ SendRejects(s)
<1>0. DOMAIN inbox = Device /\ \A d \in Device : inbox[d] \in Seq(Message(d)) BY DEF TypeOK
<1>1. CASE UNCHANGED inbox BY <1>1
<1>3. CASE Send(s) BY <1>1, <1>3, DeliveredAdds DEF Send
<1>4. CASE SendRejects(s)
  <2>1. PICK queues \in {inbox, Delivered(s)} : inbox' \in Disconnected(queues, s)
    BY <1>4 DEF SendRejects, Fail
  <2>2. DOMAIN queues = Device /\ \A d \in Device : queues[d] \in Seq(Message(d))
    BY <1>0, <2>1, DeliveredTyped
  <2>3. \E j \in DOMAIN queues[e] : inbox'[e][i] = queues[e][j] BY <2>1, <2>2, DisconnectedKeeps
  <2>4. session[s].stage = "sending" BY <1>4 DEF SendRejects
  <2> QED BY <1>4, <2>1, <2>3, <2>4, DeliveredAdds
<1>5. ASSUME NEW stage, Fail(s, inbox, stage)
      PROVE  \E j \in DOMAIN inbox[e] : inbox'[e][i] = inbox[e][j]
  BY <1>0, <1>5, DisconnectedKeeps DEF Fail
<1>6. CASE Throttle(s) \/ Timeout(s) \/ StorageRejects(s) \/ Reconcile(s)
  BY <1>1, <1>5, <1>6 DEF Throttle, Timeout, StorageRejects, Reconcile, Abort
<1>7. CASE \/ Start(s) \/ BeginNegotiation(s) \/ Receive(s) \/ Save(s) \/ CompleteTransfer(s)
           \/ RecordOutcome(s) \/ Complete(s)
  BY <1>1, <1>7 DEF Start, BeginNegotiation, Receive, Save, CompleteTransfer, RecordOutcome,
                    Complete, Network
<1> QED BY <1>3, <1>4, <1>6, <1>7 DEF Step

(* A delivery puts nothing into an inbox.                                  *)
LEMMA InboxShrinks ==
    ASSUME TypeOK, NEW d \in Device, Deliver(d), NEW e \in Device, NEW i \in DOMAIN inbox'[e]
    PROVE  \E j \in DOMAIN inbox[e] : inbox'[e][i] = inbox[e][j]
<1>0. PICK s \in Session, m \in Message(d) : \E rest : Resolves(d, s, m, rest)
  BY DeliverCases
<1>1. PICK rest : Resolves(d, s, m, rest) BY <1>0
<1>2. CASE inbox' = rest BY <1>1, <1>2 DEF Resolves
<1>3. CASE Fail(s, rest, "aborted")
  <2>1. \E k \in DOMAIN rest[e] : inbox'[e][i] = rest[e][k]
    BY <1>1, <1>3, DisconnectedKeeps DEF Resolves, Fail
  <2> QED BY <1>1, <2>1 DEF Resolves
<1> QED BY <1>1, <1>2, <1>3 DEF Resolves, RecordRejects

-----------------------------------------------------------------------------
(* Locked items stay home                                                  *)

(* What was swappable when a device that talks to d called swap().         *)
Shown(d) == UNION {swappableItems(session[t].snapshot) : t \in {t \in Session : Peer[t] = d}}

(* Nothing else is on its way to d in an offer, or accepted by d.          *)
HomeInv ==
    /\ \A d \in Device : \A i \in DOMAIN inbox[d] :
          inbox[d][i].kind = "offer" => inbox[d][i].items \subseteq Shown(d)
    /\ \A s \in Session : session[s].accepted \subseteq Shown(Owner[s])

LEMMA HomeInit == Init => HomeInv
BY EmptySeq DEF Init, NotStarted, HomeInv

(* A snapshot is never taken back.                                         *)
LEMMA ShownGrows ==
    ASSUME TypeOK, RoundInv, [Next]_vars, NEW d
    PROVE  Shown(d) \subseteq Shown(d)'
<1>1. \A t \in Session :
         swappableItems(session[t].snapshot) \subseteq swappableItems(session'[t].snapshot)
  BY BeginningsKept
<1> QED BY <1>1 DEF Shown

(* What s offers it was called with.                                       *)
LEMMA OfferIsShown ==
    ASSUME TypeOK, RoundInv, NEW s \in Session, NEW m, m = Outbound(s), m.kind = "offer"
    PROVE  m.items \subseteq Shown(Peer[s])
<1>0. session[s].round \in Rounds BY DEF TypeOK, IsSession
<1>1. CASE session[s].round = "revocation"
  <2>1. m = [from |-> Owner[s], kind |-> "revocation", entries |-> session[s].listed]
    BY <1>1 DEF Outbound
  <2> QED BY <2>1
<1>2. CASE session[s].round = "accept"
  <2>1. m = [from |-> Owner[s], kind |-> "accept", items |-> session[s].accepted]
    BY <1>2 DEF Outbound
  <2> QED BY <2>1
<1>3. CASE session[s].round = "offer"
  <2>1. m = [from |-> Owner[s], kind |-> "offer", items |-> candidates(s)]
    BY <1>3 DEF Outbound
  <2>2. candidates(s) \subseteq swappableItems(session[s].working) BY CandidatesAreItems
  <2>3. swappableItems(session[s].working) \subseteq swappableItems(session[s].snapshot)
    BY <1>3 DEF RoundInv, RoundsInOrder
  <2>4. swappableItems(session[s].snapshot) \subseteq Shown(Peer[s]) BY DEF Shown
  <2> QED BY <2>1, <2>2, <2>3, <2>4
<1> QED BY <1>0, <1>1, <1>2, <1>3 DEF Rounds

LEMMA HomeNext == TypeOK /\ RoundInv /\ HomeInv /\ [Next]_vars => HomeInv'
<1> SUFFICES ASSUME TypeOK, RoundInv, HomeInv, [Next]_vars PROVE HomeInv' OBVIOUS
<1>0. \A d \in Device : Shown(d) \subseteq Shown(d)' BY ShownGrows
<1>1. \A s \in Session : Owner[s] \in Device BY SessionAssumption
<1>2. ASSUME \A d \in Device : \A i \in DOMAIN inbox'[d] :
                \/ \E j \in DOMAIN inbox[d] : inbox'[d][i] = inbox[d][j]
                \/ inbox'[d][i].kind = "offer" => inbox'[d][i].items \subseteq Shown(d),
             \A s \in Session :
                \/ session'[s].accepted = session[s].accepted
                \/ session'[s].accepted \subseteq Shown(Owner[s])
      PROVE  HomeInv'
  <2>1. \A d \in Device : \A i \in DOMAIN inbox'[d] :
           inbox'[d][i].kind = "offer" => inbox'[d][i].items \subseteq Shown(d)
    BY <1>2 DEF HomeInv
  <2>2. \A s \in Session : session'[s].accepted \subseteq Shown(Owner[s])
    BY <1>2 DEF HomeInv
  <2>3. \A d \in Device : \A i \in DOMAIN inbox'[d] :
           inbox'[d][i].kind = "offer" => inbox'[d][i].items \subseteq Shown(d)'
    BY <1>0, <2>1
  <2>4. \A s \in Session : session'[s].accepted \subseteq Shown(Owner[s])' BY <1>0, <1>1, <2>2
  <2> QED BY <2>3, <2>4 DEF HomeInv
<1>3. ASSUME NEW s \in Session, Start(s) \/ Step(s) PROVE HomeInv'
  <2>1. ASSUME NEW d \in Device, NEW i \in DOMAIN inbox'[d]
        PROVE  \/ \E j \in DOMAIN inbox[d] : inbox'[d][i] = inbox[d][j]
               \/ inbox'[d][i].kind = "offer" => inbox'[d][i].items \subseteq Shown(d)
    BY <1>3, InboxGrows, OfferIsShown
  <2>2. \A t \in Session : session'[t].accepted = session[t].accepted
    BY <1>3, StepKeeps, OthersUnchanged
  <2> QED BY <1>2, <2>1, <2>2
<1>4. ASSUME NEW d \in Device, Deliver(d) PROVE HomeInv'
  <2>1. \A e \in Device : \A i \in DOMAIN inbox'[e] :
           \E j \in DOMAIN inbox[e] : inbox'[e][i] = inbox[e][j]
    BY <1>4, InboxShrinks
  <2>2. ASSUME NEW u \in Session
        PROVE  \/ session'[u].accepted = session[u].accepted
               \/ session'[u].accepted \subseteq Shown(Owner[u])
    BY <1>1, <1>4, DeliverKeeps DEF HomeInv
  <2> QED BY <1>2, <2>1, <2>2
<1>5. ASSUME UNCHANGED <<session, inbox>> PROVE HomeInv' BY <1>2, <1>5
<1>6. ASSUME NEW d \in Device, Expire(d) \/ Edit(d) PROVE UNCHANGED <<session, inbox>>
  BY <1>6, EditKeeps DEF Expire, Network
<1> QED BY <1>3, <1>4, <1>5, <1>6 DEF Next, vars

(* Only a swap's save() stores an item while the user's call does not end, *)
(* and only one that the swap accepted.                                    *)
LEMMA StoredWasAccepted ==
    ASSUME TypeOK, RoundInv, [Next]_vars, NEW d \in Device, edit'[d] = edit[d],
           NEW x \in repository'[d] \ repository[d]
    PROVE  \E s \in Session : Owner[s] = d /\ x \in session[s].accepted
<1>1. repository' # repository OBVIOUS
<1>2. PICK s \in Session : Save(s)
  <2>1. ~UNCHANGED vars BY <1>1 DEF vars
  <2>2. \A e \in Device : ~(Deliver(e) \/ Expire(e))
    BY <1>1 DEF Deliver, Expire, Stored, RecordRejects, HandleRevocation, HandleOffer, HandleAccept
  <2>3. \A s \in Session : Start(s) \/ Step(s) => Save(s)
    BY <1>1, StepStores
  <2>4. ASSUME NEW e \in Device, Edit(e) PROVE FALSE
    <3>1. Added(e) \/ Removed(e)
      BY <1>1, <2>4 DEF Edit, lock, unlock, add, remove, revokeContent, RemoveRevoked, EditRejects
    <3>2. edit'[e] = NoEdit /\ edit[e].step # "none" BY <3>1 DEF Added, Removed, Resolve, TypeOK
    <3>3. e # d BY <3>2 DEF NoEdit
    <3> QED BY <3>1, <3>3 DEF Added, Removed, TypeOK
  <2> QED BY <2>1, <2>2, <2>3, <2>4 DEF Next
<1>3. session[s].pending \subseteq session[s].accepted
  BY <1>2 DEF Save, RoundInv, RoundsInOrder
<1>4. PICK item \in session[s].pending : repository' = [repository EXCEPT ![Owner[s]] = @ \cup {item}]
  BY <1>2, StorageChanges
<1>5. x = item /\ Owner[s] = d BY <1>4 DEF TypeOK
<1> QED BY <1>3, <1>4, <1>5

(* Whatever a swap stores was swappable at a device that talks to this one *)
(* when that device called swap(): whatever its user locks or unlocks, and *)
(* however many swaps overlap and take each other's messages.              *)
THEOREM LockedItemsStayHome == Spec => LockedStaysHome
<1>1. ASSUME TypeOK, RoundInv, HomeInv, [Next]_vars, NEW d \in Device, edit'[d] = edit[d]
      PROVE  (repository'[d] \ repository[d]) \subseteq Shown(d)
  BY <1>1, StoredWasAccepted DEF HomeInv
<1>2. TypeOK /\ RoundInv /\ HomeInv /\ [Next]_vars =>
        \A d \in Device :
           edit'[d] = edit[d] =>
             (repository'[d] \ repository[d])
               \subseteq UNION {swappableItems(session[t].snapshot) :
                                t \in {t \in Session : Peer[t] = d}}
  BY <1>1 DEF Shown
<1> QED BY <1>2, InitTyped, NextTyped, RoundInit, RoundNext, HomeInit, HomeNext,
           PTL DEF Spec, LockedStaysHome

-----------------------------------------------------------------------------
(* Messages between the two sides of a pair                                *)

(* What t has put into its offer, and accepted of the other, is settled.   *)
PastOffer(t) ==
    \/ session[t].stage = "aborted" \/ session[t].round = "accept"
    \/ session[t].round = "offer" /\ session[t].stage # "sending"

Answered(t) == session[t].round = "accept" /\ session[t].stage # "sending"

(* A message from t tells what t has settled.                              *)
IsTrue(m, t) ==
    /\ m.kind = "offer" =>
         PastOffer(t) /\ (session[t].stage # "aborted" => m.items = session[t].offered)
    /\ m.kind = "accept" => Answered(t) /\ m.items = session[t].accepted

(* s has accepted some of what t offered, and knows t's answer.            *)
Agrees(s, t) ==
    /\ session[s].round = "accept" =>
         /\ PastOffer(t)
         /\ session[t].stage # "aborted" => session[s].accepted \subseteq session[t].offered
    /\ Negotiated(s) => Answered(t) /\ session[s].sent = session[t].accepted

SentInv ==
    \A s, t \in Session : Counterparts(s, t) =>
        /\ Agrees(s, t)
        /\ \A i \in DOMAIN inbox[Owner[s]] : IsTrue(inbox[Owner[s]][i], t)

(* What is settled stays so.                                               *)
Settled(t) ==
    /\ PastOffer(t) =>
         /\ PastOffer(t)'
         /\ session'[t].stage # "aborted" =>
              session[t].stage # "aborted" /\ session'[t].offered = session[t].offered
    /\ Answered(t) => Answered(t)' /\ session'[t].accepted = session[t].accepted

(* A session enters its last round, and learns the answer, from a message. *)
NoNews(s) ==
    /\ session'[s].round = "accept" =>
         session[s].round = "accept" /\ session'[s].accepted = session[s].accepted
    /\ Negotiated(s)' => Negotiated(s) /\ session'[s].sent = session[s].sent

LEMMA SettledWhenUnchanged ==
    ASSUME NEW s \in Session, session'[s] = session[s]
    PROVE  Settled(s) /\ NoNews(s)
BY DEF Settled, NoNews, PastOffer, Answered, Negotiated, Phase

LEMMA SettledWhenFailing ==
    ASSUME TypeOK, NEW s \in Session, NEW queues, NEW stage,
           \/ stage = "aborted"
           \/ stage = "rejected" /\ session[s].stage = "recording",
           Fail(s, queues, stage)
    PROVE  Settled(s) /\ NoNews(s)
BY FailChanges DEF Reaches, Turns, Settled, NoNews, PastOffer, Answered, Negotiated, Phase

LEMMA StepSettles ==
    ASSUME TypeOK, RoundInv, NEW s \in Session, Start(s) \/ Step(s)
    PROVE  Settled(s) /\ NoNews(s)
<1>0. RoundsInOrder(s) BY DEF RoundInv
<1>1. CASE Start(s)
  BY <1>0, <1>1, MoveChanges DEF Start, Turns, RoundsInOrder,
     Settled, NoNews, PastOffer, Answered, Negotiated, Phase
<1>2. CASE BeginNegotiation(s)
  <2>1. session[s].stage = "discovered" /\ session[s].round = "revocation"
    BY <1>0, <1>2 DEF BeginNegotiation, RoundsInOrder
  <2>2. session'[s].stage = "sending" /\ session'[s].round \in {"revocation", "offer"}
    BY <1>2, MoveChanges DEF Begins, Turns
  <2> QED BY <2>1, <2>2 DEF Settled, NoNews, PastOffer, Answered, Negotiated, Phase
<1>3. CASE Send(s)
  <2>1. /\ session[s].stage = "sending" /\ session'[s].stage = "sent"
        /\ session'[s].round = session[s].round
        /\ session'[s].accepted = session[s].accepted
        /\ session[s].round # "offer" => session'[s].offered = session[s].offered
    BY <1>3, MoveChanges DEF Send, Turns
  <2> QED BY <2>1 DEF Settled, NoNews, PastOffer, Answered, Negotiated, Phase
<1>4. CASE Receive(s) \/ CompleteTransfer(s) \/ Complete(s)
  BY <1>4, MoveChanges DEF Receive, CompleteTransfer, Complete, Reaches, Turns,
     Settled, NoNews, PastOffer, Answered, Negotiated, Phase
<1>5. CASE SendRejects(s) \/ Throttle(s) \/ Timeout(s) \/ StorageRejects(s)
  BY <1>5, SettledWhenFailing DEF SendRejects, Throttle, Timeout, StorageRejects, Abort
<1>6. CASE Save(s) \/ RecordOutcome(s)
  BY <1>6, StorageChanges DEF Ticks, Turns, Settled, NoNews, PastOffer, Answered, Negotiated, Phase
<1>7. CASE Reconcile(s)
  <2>1. CASE Abort(s) BY <2>1, SettledWhenFailing DEF Abort
  <2>2. CASE ~Abort(s)
    <3>1. session[s].stage = "reconciling" /\ session'[s].stage = "recording"
          /\ session'[s].round = session[s].round /\ session'[s].offered = session[s].offered
          /\ session'[s].accepted = session[s].accepted /\ session'[s].sent = session[s].sent
      BY <1>7, <2>2, ReconcileChanges DEF Reconcile, Turns
    <3> QED BY <3>1 DEF Settled, NoNews, PastOffer, Answered, Negotiated, Phase
  <2> QED BY <2>1, <2>2
<1> QED BY <1>1, <1>2, <1>3, <1>4, <1>5, <1>6, <1>7 DEF Step

(* A true message stays true.                                              *)
LEMMA TruthKeeps ==
    ASSUME NEW t \in Session, Settled(t), NEW m, IsTrue(m, t)
    PROVE  IsTrue(m, t)'
BY DEF IsTrue, Settled

LEMMA AgreementKeeps ==
    ASSUME NEW s \in Session, NEW t \in Session, Settled(t), NoNews(s), Agrees(s, t)
    PROVE  Agrees(s, t)'
BY DEF Agrees, Settled, NoNews

(* A delivery settles too, and what it makes the waiting call agree to is  *)
(* what the message tells.                                                 *)
LEMMA DeliverAgrees ==
    ASSUME InPairs, TypeOK, RoundInv, SentInv, NEW d \in Device, Deliver(d), NEW u \in Session
    PROVE  Settled(u) /\ \A t \in Session : Counterparts(u, t) /\ Settled(t) => Agrees(u, t)'
<1>0. PICK s \in Session, m \in Message(d) : \E rest : Resolves(d, s, m, rest)
  BY DeliverCases
<1>1. PICK rest : Resolves(d, s, m, rest) BY <1>0
<1>2. ASSUME NoNews(u), NEW t \in Session, Counterparts(u, t), Settled(t) PROVE Agrees(u, t)'
  BY <1>2, AgreementKeeps DEF SentInv
<1>3. ASSUME session'[u] = session[u]
      PROVE  Settled(u) /\ \A t \in Session : Counterparts(u, t) /\ Settled(t) => Agrees(u, t)'
  BY <1>2, <1>3, SettledWhenUnchanged
<1>4. ASSUME NEW t \in Session, Counterparts(s, t) PROVE IsTrue(m, t) /\ Agrees(s, t) /\ Agrees(t, s)
  <2>1. Agrees(s, t) /\ \A i \in DOMAIN inbox[Owner[s]] : IsTrue(inbox[Owner[s]][i], t)
    BY <1>4 DEF SentInv
  <2>2. IsTrue(m, t) BY <1>1, <2>1 DEF Resolves
  <2>3. Counterparts(t, s) BY <1>4 DEF Counterparts
  <2> QED BY <2>1, <2>2, <2>3 DEF SentInv
<1>5. CASE UNCHANGED session BY <1>3, <1>5
<1>6. CASE Fail(s, rest, "aborted")
  <2>1. CASE u = s BY <1>2, <1>6, <2>1, SettledWhenFailing
  <2>2. CASE u # s BY <1>3, <1>6, <2>2, FailChanges DEF Reaches, Turns
  <2> QED BY <2>1, <2>2
<1>7. CASE /\ session[s].stage = "waiting" /\ session[s].round = "revocation"
           /\ HandleRevocation(s, m)
  <2>1. /\ session'[s].stage = "sending" /\ session'[s].round = "offer"
        /\ \A t \in Session \ {s} : session'[t] = session[t]
    BY <1>7, HandlerChanges DEF Begins, Turns
  <2>2. CASE u = s
    <3>1. Settled(s) /\ NoNews(s)
      BY <1>7, <2>1 DEF Settled, NoNews, PastOffer, Answered, Negotiated, Phase
    <3> QED BY <1>2, <2>2, <3>1
  <2>3. CASE u # s BY <1>3, <2>1, <2>3
  <2> QED BY <2>2, <2>3
<1>8. CASE /\ session[s].stage = "waiting" /\ session[s].round = "offer" /\ m.kind = "offer"
           /\ HandleOffer(s, m)
  <2>1. PICK accepted \in selectAccept(peerOffer(s, m.items), session[s].working,
                                       Capacity[Owner[s]].swappableSlots) :
           Begins(s, "accept", session[s].working, session[s].known, accepted)
    BY <1>8, HandlerChanges
  <2>2. accepted \subseteq m.items BY <2>1 DEF selectAccept, peerOffer
  <2>3. /\ session'[s].stage = "sending" /\ session'[s].round = "accept"
        /\ session'[s].accepted = accepted /\ session'[s].offered = session[s].offered
        /\ \A t \in Session \ {s} : session'[t] = session[t]
    BY <2>1 DEF Begins, Turns
  <2>4. CASE u = s
    <3>1. Settled(s) BY <1>8, <2>3 DEF Settled, PastOffer, Answered
    <3>2. ASSUME NEW t \in Session, Counterparts(s, t), Settled(t) PROVE Agrees(s, t)'
      <4>1. ~Negotiated(s)' BY <2>3 DEF Negotiated, Phase
      <4>2. IsTrue(m, t) BY <1>4, <3>2
      <4> QED BY <1>8, <2>2, <2>3, <3>2, <4>1, <4>2 DEF IsTrue, Settled, Agrees
    <3> QED BY <2>4, <3>1, <3>2
  <2>5. CASE u # s BY <1>3, <2>3, <2>5
  <2> QED BY <2>4, <2>5
<1>9. CASE /\ session[s].stage = "waiting" /\ session[s].round = "accept" /\ m.kind = "accept"
           /\ HandleAccept(s, m)
  <2>1. /\ session'[s].stage = "saving" /\ session'[s].round = "accept"
        /\ session'[s].sent = session[s].offered \cap m.items
        /\ session'[s].accepted = session[s].accepted /\ session'[s].offered = session[s].offered
        /\ \A t \in Session \ {s} : session'[t] = session[t]
    BY <1>9, HandlerChanges DEF Turns
  <2>2. CASE u = s
    <3>1. Settled(s) BY <1>9, <2>1 DEF Settled, PastOffer, Answered
    <3>2. ASSUME NEW t \in Session, Counterparts(s, t), Settled(t) PROVE Agrees(s, t)'
      <4>1. IsTrue(m, t) /\ Agrees(s, t) /\ Agrees(t, s) BY <1>4, <3>2
      <4>2. Answered(t) /\ m.items = session[t].accepted BY <1>9, <4>1 DEF IsTrue
      <4>3. session[t].accepted \subseteq session[s].offered
        BY <1>9, <4>1, <4>2 DEF Agrees, Answered
      <4>4. session'[s].sent = session[t].accepted BY <2>1, <4>2, <4>3
      <4> QED BY <1>9, <2>1, <3>2, <4>1, <4>2, <4>4 DEF Settled, Agrees
    <3> QED BY <2>2, <3>1, <3>2
  <2>3. CASE u # s BY <1>3, <2>1, <2>3
  <2> QED BY <2>2, <2>3
<1> QED BY <1>1, <1>5, <1>6, <1>7, <1>8, <1>9 DEF Resolves, RecordRejects

(* The message a call sends is true of it.                                 *)
LEMMA SentIsTrue ==
    ASSUME TypeOK, NEW s \in Session, Send(s) \/ SendRejects(s), NEW m, m = Outbound(s)
    PROVE  IsTrue(m, s)'
<1>1. CASE session[s].round = "revocation"
  <2>1. m = [from |-> Owner[s], kind |-> "revocation", entries |-> session[s].listed]
    BY <1>1 DEF Outbound
  <2> QED BY <2>1 DEF IsTrue
<1>2. /\ session'[s].round = session[s].round /\ session'[s].accepted = session[s].accepted
      /\ \/ session'[s].stage = "aborted"
         \/ /\ session'[s].stage = "sent"
            /\ session[s].round = "offer" => session'[s].offered = candidates(s)
  <2>1. CASE Send(s) BY <2>1, MoveChanges DEF Turns
  <2>2. CASE SendRejects(s) BY <2>2, FailChanges DEF SendRejects, Reaches, Turns
  <2> QED BY <2>1, <2>2
<1>3. CASE session[s].round = "offer"
  <2>1. m = [from |-> Owner[s], kind |-> "offer", items |-> candidates(s)]
    BY <1>3 DEF Outbound
  <2>2. m.kind = "offer" /\ m.items = candidates(s) BY <2>1
  <2> QED BY <1>2, <1>3, <2>2 DEF IsTrue, PastOffer
<1>4. CASE session[s].round = "accept"
  <2>1. m = [from |-> Owner[s], kind |-> "accept", items |-> session[s].accepted]
    BY <1>4 DEF Outbound
  <2>2. m.kind = "accept" /\ m.items = session[s].accepted BY <2>1
  <2> QED BY <1>2, <1>4, <2>2 DEF IsTrue, Answered
<1> QED BY <1>1, <1>3, <1>4 DEF TypeOK, IsSession, Rounds

(* The device s talks to has no other call that could send it anything.    *)
LEMMA OnlyCounterpart ==
    ASSUME InPairs, NEW s \in Session, NEW t \in Session, Counterparts(s, t),
           NEW u \in Session, Peer[u] = Owner[s]
    PROVE  u = t
<1>1. Peer[s] = Owner[u] BY DEF InPairs
<1> QED BY <1>1 DEF InPairs, OnePerDevice, Counterparts

LEMMA SentInit == Init => SentInv
<1> SUFFICES ASSUME Init, NEW s \in Session, NEW t \in Session, Counterparts(s, t)
             PROVE  /\ Agrees(s, t)
                    /\ \A i \in DOMAIN inbox[Owner[s]] : IsTrue(inbox[Owner[s]][i], t)
  BY DEF SentInv
<1>1. Agrees(s, t) BY DEF Init, NotStarted, Agrees, Negotiated, Phase
<1>2. DOMAIN inbox[Owner[s]] = {} BY SessionAssumption, EmptySeq DEF Init
<1> QED BY <1>1, <1>2

LEMMA SentNext == InPairs /\ TypeOK /\ RoundInv /\ SentInv /\ [Next]_vars => SentInv'
<1> SUFFICES ASSUME InPairs, TypeOK, RoundInv, SentInv, [Next]_vars,
                    NEW s \in Session, NEW t \in Session, Counterparts(s, t)
             PROVE  /\ Agrees(s, t)'
                    /\ (\A i \in DOMAIN inbox[Owner[s]] : IsTrue(inbox[Owner[s]][i], t))'
  BY DEF SentInv, Counterparts
<1>0. /\ Owner[s] \in Device /\ Agrees(s, t)
      /\ \A i \in DOMAIN inbox[Owner[s]] : IsTrue(inbox[Owner[s]][i], t)
  BY SessionAssumption DEF SentInv
<1>1. ASSUME Settled(t),
             \A i \in DOMAIN inbox'[Owner[s]] :
                \/ \E j \in DOMAIN inbox[Owner[s]] : inbox'[Owner[s]][i] = inbox[Owner[s]][j]
                \/ /\ inbox'[Owner[s]][i] = Outbound(t)
                   /\ Send(t) \/ SendRejects(t)
      PROVE  (\A i \in DOMAIN inbox[Owner[s]] : IsTrue(inbox[Owner[s]][i], t))'
  <2> SUFFICES ASSUME NEW i \in DOMAIN inbox'[Owner[s]], NEW m, m = inbox'[Owner[s]][i]
               PROVE  IsTrue(m, t)'
    BY DEF IsTrue
  <2>1. CASE \E j \in DOMAIN inbox[Owner[s]] : m = inbox[Owner[s]][j]
    BY <1>0, <1>1, <2>1, TruthKeeps
  <2>2. CASE m = Outbound(t) /\ (Send(t) \/ SendRejects(t)) BY <2>2, SentIsTrue
  <2> QED BY <1>1, <2>1, <2>2
<1>2. CASE UNCHANGED <<session, inbox>>
  <2>1. Settled(t) /\ NoNews(s) BY <1>2, SettledWhenUnchanged
  <2> QED BY <1>0, <1>1, <1>2, <2>1, AgreementKeeps
<1>3. ASSUME NEW u \in Session, Start(u) \/ Step(u)
      PROVE  /\ Agrees(s, t)'
             /\ (\A i \in DOMAIN inbox[Owner[s]] : IsTrue(inbox[Owner[s]][i], t))'
  <2>1. Settled(t) BY <1>3, StepSettles, OthersUnchanged, SettledWhenUnchanged
  <2>2. NoNews(s) BY <1>3, StepSettles, OthersUnchanged, SettledWhenUnchanged
  <2>3. \A i \in DOMAIN inbox'[Owner[s]] :
          \/ \E j \in DOMAIN inbox[Owner[s]] : inbox'[Owner[s]][i] = inbox[Owner[s]][j]
          \/ /\ inbox'[Owner[s]][i] = Outbound(t)
             /\ Send(t) \/ SendRejects(t)
    BY <1>0, <1>3, InboxGrows, OnlyCounterpart
  <2> QED BY <1>0, <1>1, <2>1, <2>2, <2>3, AgreementKeeps
<1>4. ASSUME NEW d \in Device, Deliver(d)
      PROVE  /\ Agrees(s, t)'
             /\ (\A i \in DOMAIN inbox[Owner[s]] : IsTrue(inbox[Owner[s]][i], t))'
  <2>1. Settled(t) BY <1>4, DeliverAgrees
  <2>2. Agrees(s, t)' BY <1>4, <2>1, DeliverAgrees
  <2>3. \A i \in DOMAIN inbox'[Owner[s]] :
          \E j \in DOMAIN inbox[Owner[s]] : inbox'[Owner[s]][i] = inbox[Owner[s]][j]
    BY <1>0, <1>4, InboxShrinks
  <2> QED BY <1>1, <2>1, <2>2, <2>3
<1>5. ASSUME NEW d \in Device, Expire(d) \/ Edit(d) PROVE UNCHANGED <<session, inbox>>
  BY <1>5, EditKeeps DEF Expire, Network
<1> QED BY <1>2, <1>3, <1>4, <1>5 DEF Next, vars

(* Two devices that swap with one another agree on what moves: from the    *)
(* moment one of them has the answer to its offer, what it counts as sent  *)
(* is exactly what the other accepted, whatever either goes on to do.      *)
THEOREM SidesAgree == InPairs => (Spec => []SentWasAccepted)
<1>1. SentInv => SentWasAccepted BY DEF SentInv, Agrees, SentWasAccepted
<1>2. InPairs => InPairs' BY DEF InPairs, OnePerDevice
<1> QED BY <1>1, <1>2, InitTyped, NextTyped, RoundInit, RoundNext, SentInit, SentNext, PTL DEF Spec

-----------------------------------------------------------------------------
(* Revocations are applied                                                 *)

Takedowns(t) == Revoked({e \in session[t].listed : e.authorized})

(* A list of revocations from t is the one t began with.                   *)
IsListing(m, t) == m.kind = "revocation" => m.entries = session[t].listed /\ HasBegun(t)

(* Once s has the list of t it knows all that it names, and works on       *)
(* nothing that it takes down.                                             *)
Cleared(s, t) ==
    session[s].round # "revocation" /\ Owner[s] \in Gossips =>
        /\ HasBegun(t)
        /\ Revoked(session[t].listed) \subseteq session[s].known
        /\ DOMAIN session[s].working \cap Takedowns(t) = {}

TakeInv ==
    \A s, t \in Session : Counterparts(s, t) =>
        /\ Cleared(s, t)
        /\ \A i \in DOMAIN inbox[Owner[s]] : IsListing(inbox[Owner[s]][i], t)

(* A session that gets no list, and adds to the library it works on        *)
(* nothing but what it accepted.                                           *)
AddsAccepted(s) ==
    session'[s].round # "revocation" /\ Owner[s] \in Gossips =>
        /\ session[s].round # "revocation"
        /\ session[s].known \subseteq session'[s].known
        /\ DOMAIN session'[s].working \subseteq DOMAIN session[s].working \cup session[s].accepted

LEMMA ClearedKeeps ==
    ASSUME NEW s \in Session, NEW t \in Session, RoundsInOrder(s), Cleared(s, t), AddsAccepted(s),
           HasBegun(t) => HasBegun(t)' /\ session'[t].listed = session[t].listed
    PROVE  Cleared(s, t)'
<1> SUFFICES ASSUME session'[s].round # "revocation", Owner[s] \in Gossips
             PROVE  /\ HasBegun(t)'
                    /\ Revoked(session'[t].listed) \subseteq session'[s].known
                    /\ DOMAIN session'[s].working \cap Takedowns(t)' = {}
  BY DEF Cleared
<1>1. /\ HasBegun(t) /\ Revoked(session[t].listed) \subseteq session[s].known
      /\ DOMAIN session[s].working \cap Takedowns(t) = {}
      /\ session[s].known \subseteq session'[s].known
      /\ DOMAIN session'[s].working \subseteq DOMAIN session[s].working \cup session[s].accepted
  BY DEF Cleared, AddsAccepted
<1>2. Takedowns(t)' = Takedowns(t) /\ Takedowns(t) \subseteq Revoked(session[t].listed)
  BY <1>1 DEF Takedowns, Revoked
<1>3. session[s].accepted \cap session[s].known = {} BY DEF RoundsInOrder
<1> QED BY <1>1, <1>2, <1>3

(* Every step that a call of swap() makes is such a step.                  *)
LEMMA StepAdds ==
    ASSUME TypeOK, RoundInv, NEW s \in Session, Start(s) \/ Step(s)
    PROVE  AddsAccepted(s)
<1>0. RoundsInOrder(s) BY DEF RoundInv
<1>1. CASE Start(s) BY <1>0, <1>1, MoveChanges DEF Start, Turns, RoundsInOrder, AddsAccepted
<1>2. CASE BeginNegotiation(s) BY <1>2, MoveChanges DEF Turns, AddsAccepted, BeginNegotiation, Begins
<1>3. CASE Send(s) \/ Receive(s) \/ CompleteTransfer(s) \/ Complete(s)
  BY <1>3, MoveChanges DEF Reaches, Turns, AddsAccepted
<1>4. CASE SendRejects(s) \/ Throttle(s) \/ Timeout(s) \/ StorageRejects(s)
  BY <1>4, FailChanges DEF SendRejects, Throttle, Timeout, StorageRejects, Abort, Reaches, Turns,
                           AddsAccepted
<1>5. CASE Save(s) \/ RecordOutcome(s) BY <1>5, StorageChanges DEF Ticks, Turns, AddsAccepted
<1>6. CASE Reconcile(s)
  BY <1>6, ReconcileChanges, FailChanges DEF Abort, Reaches, Turns, AddsAccepted
<1> QED BY <1>1, <1>2, <1>3, <1>4, <1>5, <1>6 DEF Step

(* So is a delivery, unless it brings a list.                              *)
LEMMA DeliverAdds ==
    ASSUME TypeOK, NEW d \in Device, Deliver(d), NEW u \in Session
    PROVE  \/ AddsAccepted(u)
           \/ \E i \in DOMAIN inbox[Owner[u]] :
                /\ inbox[Owner[u]][i].kind = "revocation"
                /\ HandleRevocation(u, inbox[Owner[u]][i])
<1>0. PICK s \in Session, m \in Message(d) : \E rest : Resolves(d, s, m, rest)
  BY DeliverCases
<1>1. PICK rest : Resolves(d, s, m, rest) BY <1>0
<1>2. CASE session'[u] = session[u] BY <1>2 DEF AddsAccepted
<1>3. CASE Fail(s, rest, "aborted") BY <1>2, <1>3, FailChanges DEF Reaches, Turns, AddsAccepted
<1>4. CASE m.kind = "revocation" /\ HandleRevocation(s, m)
  <2>1. CASE u = s BY <1>1, <1>4, <2>1 DEF Resolves
  <2>2. CASE u # s BY <1>2, <1>4, <2>2, HandlerChanges DEF Begins, Turns
  <2> QED BY <2>1, <2>2
<1>5. CASE /\ session[s].round = m.kind
           /\ (m.kind = "offer" /\ HandleOffer(s, m)) \/ (m.kind = "accept" /\ HandleAccept(s, m))
  BY <1>2, <1>5, HandlerChanges DEF Begins, Turns, AddsAccepted
<1> QED BY <1>1, <1>2, <1>3, <1>4, <1>5 DEF Resolves, RecordRejects

(* The list takes effect at once.                                          *)
LEMMA ListClears ==
    ASSUME TypeOK, NEW s \in Session, NEW t \in Session, t # s, NEW m, m.kind = "revocation",
           IsListing(m, t), HandleRevocation(s, m)
    PROVE  Cleared(s, t)'
<1>1. Begins(s, "offer", Without(session[s].working, RemovedBy(s, m.entries)),
             session[s].known \cup Revoked(m.entries), session[s].accepted)
  BY HandlerChanges
<1>2. session'[t] = session[t] /\ m.entries = session[t].listed /\ HasBegun(t)
  BY <1>1 DEF Begins, Turns, IsListing
<1>3. HasBegun(t)' /\ Takedowns(t)' = Takedowns(t) BY <1>2 DEF HasBegun, Takedowns
<1>4. Revoked(session'[t].listed) \subseteq session'[s].known
  BY <1>1, <1>2 DEF Begins, Turns
<1>5. session'[s].working = Without(session[s].working, RemovedBy(s, session[t].listed))
  BY <1>1, <1>2 DEF Begins, Turns
<1>6. DOMAIN session'[s].working \cap Takedowns(t) = {}
  BY <1>5 DEF Without, RemovedBy, Takedowns
<1> QED BY <1>3, <1>4, <1>6 DEF Cleared

(* The list a call sends is the one it began with.                         *)
LEMMA SentIsListing ==
    ASSUME TypeOK, NEW t \in Session, session[t].stage = "sending", NEW m, m = Outbound(t)
    PROVE  IsListing(m, t)
<1>0. session[t].round \in Rounds /\ HasBegun(t) BY DEF TypeOK, IsSession, HasBegun
<1>1. CASE session[t].round = "revocation"
  <2>1. m = [from |-> Owner[t], kind |-> "revocation", entries |-> session[t].listed]
    BY <1>1 DEF Outbound
  <2>2. m.entries = session[t].listed BY <2>1
  <2> QED BY <1>0, <2>2 DEF IsListing
<1>2. CASE session[t].round = "offer"
  <2>1. m = [from |-> Owner[t], kind |-> "offer", items |-> candidates(t)]
    BY <1>2 DEF Outbound
  <2> QED BY <2>1 DEF IsListing
<1>3. CASE session[t].round = "accept"
  <2>1. m = [from |-> Owner[t], kind |-> "accept", items |-> session[t].accepted]
    BY <1>3 DEF Outbound
  <2> QED BY <2>1 DEF IsListing
<1> QED BY <1>0, <1>1, <1>2, <1>3 DEF Rounds

LEMMA TakeInit == Init => TakeInv
<1> SUFFICES ASSUME Init, NEW s \in Session, NEW t \in Session, Counterparts(s, t)
             PROVE  /\ Cleared(s, t)
                    /\ \A i \in DOMAIN inbox[Owner[s]] : IsListing(inbox[Owner[s]][i], t)
  BY DEF TakeInv
<1>1. Cleared(s, t) BY DEF Init, NotStarted, Cleared
<1>2. DOMAIN inbox[Owner[s]] = {} BY SessionAssumption, EmptySeq DEF Init
<1> QED BY <1>1, <1>2

LEMMA TakeNext == InPairs /\ TypeOK /\ RoundInv /\ TakeInv /\ [Next]_vars => TakeInv'
<1> SUFFICES ASSUME InPairs, TypeOK, RoundInv, TakeInv, [Next]_vars,
                    NEW s \in Session, NEW t \in Session, Counterparts(s, t)
             PROVE  /\ Cleared(s, t)'
                    /\ (\A i \in DOMAIN inbox[Owner[s]] : IsListing(inbox[Owner[s]][i], t))'
  BY DEF TakeInv, Counterparts
<1>0. /\ Owner[s] \in Device /\ Cleared(s, t) /\ RoundsInOrder(s) /\ t # s
      /\ \A i \in DOMAIN inbox[Owner[s]] : IsListing(inbox[Owner[s]][i], t)
  BY SessionAssumption DEF TakeInv, RoundInv, Counterparts
<1>1. HasBegun(t) => HasBegun(t)' /\ session'[t].listed = session[t].listed BY BeginningsKept
<1>2. ASSUME NEW m, IsListing(m, t) PROVE IsListing(m, t)' BY <1>1, <1>2 DEF IsListing
<1>3. ASSUME AddsAccepted(s) PROVE Cleared(s, t)' BY <1>0, <1>1, <1>3, ClearedKeeps
<1>4. ASSUME \A i \in DOMAIN inbox'[Owner[s]] :
                \/ \E j \in DOMAIN inbox[Owner[s]] : inbox'[Owner[s]][i] = inbox[Owner[s]][j]
                \/ inbox'[Owner[s]][i] = Outbound(t) /\ session[t].stage = "sending"
      PROVE  (\A i \in DOMAIN inbox[Owner[s]] : IsListing(inbox[Owner[s]][i], t))'
  <2> SUFFICES ASSUME NEW i \in DOMAIN inbox'[Owner[s]], NEW m, m = inbox'[Owner[s]][i]
               PROVE  IsListing(m, t)'
    BY DEF IsListing
  <2> QED BY <1>0, <1>2, <1>4, SentIsListing
<1>5. ASSUME NEW u \in Session, Start(u) \/ Step(u)
      PROVE  /\ Cleared(s, t)'
             /\ (\A i \in DOMAIN inbox[Owner[s]] : IsListing(inbox[Owner[s]][i], t))'
  <2>1. AddsAccepted(s)
    <3>1. CASE u = s BY <1>5, <3>1, StepAdds
    <3>2. CASE u # s BY <1>5, <3>2, OthersUnchanged DEF AddsAccepted
    <3> QED BY <3>1, <3>2
  <2>2. \A i \in DOMAIN inbox'[Owner[s]] :
          \/ \E j \in DOMAIN inbox[Owner[s]] : inbox'[Owner[s]][i] = inbox[Owner[s]][j]
          \/ inbox'[Owner[s]][i] = Outbound(t) /\ session[t].stage = "sending"
    BY <1>0, <1>5, InboxGrows, OnlyCounterpart
  <2> QED BY <1>3, <1>4, <2>1, <2>2
<1>6. ASSUME NEW d \in Device, Deliver(d)
      PROVE  /\ Cleared(s, t)'
             /\ (\A i \in DOMAIN inbox[Owner[s]] : IsListing(inbox[Owner[s]][i], t))'
  <2>1. Cleared(s, t)'
    <3>1. CASE AddsAccepted(s) BY <1>3, <3>1
    <3>2. ASSUME NEW m, m.kind = "revocation", IsListing(m, t), HandleRevocation(s, m)
          PROVE  Cleared(s, t)'
      BY <1>0, <3>2, ListClears
    <3> QED BY <1>0, <1>6, <3>1, <3>2, DeliverAdds
  <2>2. \A i \in DOMAIN inbox'[Owner[s]] :
          \E j \in DOMAIN inbox[Owner[s]] : inbox'[Owner[s]][i] = inbox[Owner[s]][j]
    BY <1>0, <1>6, InboxShrinks
  <2> QED BY <1>4, <2>1, <2>2
<1>7. CASE UNCHANGED <<session, inbox>>
  <2>1. AddsAccepted(s) BY <1>7 DEF AddsAccepted
  <2> QED BY <1>3, <1>4, <1>7, <2>1
<1>8. ASSUME NEW d \in Device, Expire(d) \/ Edit(d) PROVE UNCHANGED <<session, inbox>>
  BY <1>8, EditKeeps DEF Expire, Network
<1> QED BY <1>5, <1>6, <1>7, <1>8 DEF Next, vars

(* In a pair, whatever a device accepts is named neither by its own log as *)
(* it was when its swap began, nor by the peer's as it was when the peer's *)
(* began, whatever either operator takes down meanwhile.                   *)
THEOREM RevokedItemsStayOut == InPairs => (Spec => []RevokedNotTakenIn)
<1>1. ASSUME RoundInv, TakeInv PROVE RevokedNotTakenIn
  <2> SUFFICES ASSUME NEW s \in Session, NEW t \in Session,
                      s = t \/ (Counterparts(s, t) /\ Owner[s] \in Gossips)
               PROVE  session[s].accepted \cap Revoked(session[t].listed) = {}
    BY DEF RevokedNotTakenIn
  <2>1. RoundsInOrder(s) BY <1>1 DEF RoundInv
  <2>2. CASE s = t BY <2>1, <2>2 DEF RoundsInOrder
  <2>3. CASE Counterparts(s, t) /\ Owner[s] \in Gossips
    <3>1. Cleared(s, t) BY <1>1, <2>3 DEF TakeInv
    <3> QED BY <2>1, <2>3, <3>1 DEF RoundsInOrder, Cleared
  <2> QED BY <2>2, <2>3
<1>2. InPairs => InPairs' BY DEF InPairs, OnePerDevice
<1> QED BY <1>1, <1>2, InitTyped, NextTyped, RoundInit, RoundNext, TakeInit, TakeNext, PTL DEF Spec

(* Only completing makes a session completed.                              *)
LEMMA CompletedByComplete ==
    ASSUME TypeOK, [Next]_vars, NEW s \in Session,
           session[s].stage # "completed", session'[s].stage = "completed"
    PROVE  Complete(s)
<1>0. session'[s] # session[s] OBVIOUS
<1>1. ASSUME Start(s) \/ Step(s), ~Complete(s) PROVE FALSE
  <2>1. CASE Start(s) \/ BeginNegotiation(s) \/ Send(s) \/ Receive(s) \/ CompleteTransfer(s)
    BY <2>1, MoveChanges DEF Begins, Reaches, Turns
  <2>2. CASE SendRejects(s) \/ Throttle(s) \/ Timeout(s) \/ StorageRejects(s)
    BY <2>2, FailChanges DEF SendRejects, Throttle, Timeout, StorageRejects, Abort, Reaches, Turns
  <2>3. CASE Save(s) \/ RecordOutcome(s) BY <2>3, StorageChanges DEF Ticks, Turns
  <2>4. CASE Reconcile(s) BY <2>4, ReconcileChanges, FailChanges DEF Abort, Reaches, Turns
  <2> QED BY <1>1, <2>1, <2>2, <2>3, <2>4 DEF Step
<1>2. ASSUME NEW u \in Session \ {s}, Start(u) \/ Step(u) PROVE FALSE
  BY <1>0, <1>2, OthersUnchanged
<1>3. ASSUME NEW d \in Device, Deliver(d) PROVE FALSE
  <2>0. PICK u \in Session, m \in Message(d) : \E rest : Resolves(d, u, m, rest)
    BY <1>3, DeliverCases
  <2>1. PICK rest : Resolves(d, u, m, rest) BY <2>0
  <2>2. CASE Fail(u, rest, "aborted") BY <1>0, <2>2, FailChanges DEF Reaches, Turns
  <2>3. CASE HandleRevocation(u, m) \/ HandleOffer(u, m) \/ HandleAccept(u, m)
    BY <1>0, <2>3, HandlerChanges DEF Begins, Turns
  <2> QED BY <1>0, <2>1, <2>2, <2>3 DEF Resolves, RecordRejects
<1>4. ASSUME NEW d \in Device, Expire(d) \/ Edit(d) PROVE FALSE
  BY <1>0, <1>4, EditKeeps DEF Expire
<1> QED BY <1>0, <1>1, <1>2, <1>3, <1>4 DEF Next, vars

(* The library with which a swap leaves its device holds nothing that an   *)
(* authorized entry of the peer's list takes down: what the device held is *)
(* removed when the list arrives, and nothing of it is accepted later.     *)
THEOREM TakedownsReachBothSides == InPairs => (Spec => RevocationApplied)
<1>1. ASSUME TypeOK, RoundInv, TakeInv, [Next]_vars, NEW s \in Session, NEW t \in Session,
             Counterparts(s, t), Owner[s] \in Gossips,
             session[s].stage # "completed", session'[s].stage = "completed"
      PROVE  DOMAIN library'[Owner[s]] \cap Revoked({e \in session[t].listed : e.authorized}) = {}
  <2>1. Complete(s) BY <1>1, CompletedByComplete
  <2>2. library'[Owner[s]] = session[s].working
    BY <1>1, <2>1, SessionAssumption DEF Complete, TypeOK
  <2>3. session[s].round = "accept" BY <1>1, <2>1 DEF Complete, RoundInv, RoundsInOrder
  <2>4. Cleared(s, t) BY <1>1 DEF TakeInv
  <2> QED BY <1>1, <2>2, <2>3, <2>4 DEF Cleared, Takedowns
<1>2. TypeOK /\ RoundInv /\ TakeInv /\ [Next]_vars =>
        \A s, t \in Session :
          /\ Counterparts(s, t) /\ Owner[s] \in Gossips
          /\ session[s].stage # "completed" /\ session'[s].stage = "completed"
          => DOMAIN library'[Owner[s]]
               \cap Revoked({e \in session[t].listed : e.authorized}) = {}
  BY <1>1
<1>3. InPairs => InPairs' BY DEF InPairs, OnePerDevice
<1> QED BY <1>2, <1>3, InitTyped, NextTyped, RoundInit, RoundNext, TakeInit, TakeNext,
           PTL DEF Spec, RevocationApplied

=============================================================================
