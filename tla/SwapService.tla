---------------------------- MODULE SwapService ----------------------------
(***************************************************************************)
(* SwapService.swap running on several devices: each session is one call   *)
(* of swap() on the device Owner[s], talking to the device Peer[s].  A     *)
(* session sends and then waits for a message in each round (revocation,   *)
(* offer, accept), stores what it accepted, reconciles its snapshot of the *)
(* library and adopts the result.                                          *)
(*                                                                         *)
(* TransportPort.receive() is not scoped to a peer: a device has one inbox *)
(* and one queue of waiting receive() calls, shared by all its sessions,   *)
(* and a receive() that timed out is never taken back.                     *)
(*                                                                         *)
(* The user and the operator of a device lock, unlock, add, remove and     *)
(* take down items meanwhile: a swap works on the library it was called    *)
(* with and on the revocations it listed when it began.                    *)
(***************************************************************************)
EXTENDS Library, Sequences

CONSTANTS
    Device, Session,
    Owner, Peer,        (* Session -> Device                                *)
    Gossips,            (* the devices that have a revocationLog configured *)
    Capacity,           (* Device -> capacity                               *)
    Unacceptable,       (* items whose token is oversized or unverifiable   *)
    MAX_OFFER_ITEMS,
    InitialStates       (* the possible [library, log, suppressed, faults,  *)
                        (* edits]                                           *)

ASSUME SessionAssumption ==
    /\ Owner \in [Session -> Device] /\ Peer \in [Session -> Device]
    /\ \A s \in Session : Owner[s] # Peer[s]
ASSUME DeviceAssumption ==
    /\ Gossips \subseteq Device
    /\ Capacity \in [Device -> CapacityType]

FaultKinds == {"loss", "send", "timeout", "storage", "throttle"}

(* A revocation is authorized for a token when one identity signed both.   *)
Revocation == [item : Item, authorized : BOOLEAN]

(* Without a revocationLog there is nothing to list.                       *)
ASSUME InitialAssumption ==
    \A state \in InitialStates :
        /\ DOMAIN state.library = Device
        /\ \A d \in Device : IsLibrary(state.library[d])
        /\ state.log \in [Device -> SUBSET Revocation]
        /\ \A d \in Device \ Gossips : state.log[d] = {}
        /\ state.suppressed \in [Device -> SUBSET Item]
        /\ state.faults \subseteq FaultKinds
        /\ state.edits \in Nat

VARIABLES
    session,    (* session[s]: the local variables of a call of swap()      *)
    library,    (* library[d]: the current library                          *)
    repository, (* repository[d]: hashes of the stored tokens               *)
    log,        (* log[d]: RevocationLogPort                                *)
    suppressed, (* suppressed[d]: hashes with a declined or evicted record  *)
                (* within the suppression window                            *)
    inbox,      (* inbox[d]: messages sent to d, not yet received           *)
    waiters,    (* waiters[d]: receive() calls not yet resolved             *)
    faults,     (* what may go wrong in this behaviour: it never changes    *)
    edit,       (* edit[d]: the call of d's user or operator that waits for *)
                (* storage                                                  *)
    edits       (* how many more calls the users make: a bound              *)

vars == <<session, library, repository, log, suppressed, inbox, waiters, faults, edit, edits>>

Rounds == {"revocation", "offer", "accept"}

(* "rejected": swap() failed after its state machine had completed.        *)
Ended == {"completed", "aborted", "rejected"}

Stages == {"idle", "discovered", "sending", "sent", "waiting", "saving",
           "reconciling", "recording"} \cup Ended

IsSession(r) ==
    /\ r \in [stage : Stages, round : Rounds, snapshot : {r.snapshot}, working : {r.working},
              listed : SUBSET Revocation, known : SUBSET Item, offered : SUBSET Item,
              accepted : SUBSET Item, sent : SUBSET Item, evicted : SUBSET Item,
              pending : SUBSET Item]
    /\ IsLibrary(r.snapshot) /\ IsLibrary(r.working)

NotStarted ==
    [stage |-> "idle", round |-> "revocation", snapshot |-> EmptyLibrary,
     working |-> EmptyLibrary, listed |-> {}, known |-> {}, offered |-> {},
     accepted |-> {}, sent |-> {}, evicted |-> {}, pending |-> {}]

(* "revoking": the takedown is recorded; "deleting" and "saving": the      *)
(* library to install is computed, and storage is awaited.                 *)
IsEdit(r) ==
    /\ r \in [step : {"none", "revoking", "deleting", "saving"},
              items : SUBSET Item, result : {r.result}]
    /\ IsLibrary(r.result)

NoEdit == [step |-> "none", items |-> {}, result |-> EmptyLibrary]

Message(d) ==
    [from : Device \ {d}, kind : {"revocation"}, entries : SUBSET Revocation]
        \cup [from : Device \ {d}, kind : {"offer", "accept"}, items : SUBSET Item]

TypeOK ==
    /\ DOMAIN session = Session /\ \A s \in Session : IsSession(session[s])
    /\ DOMAIN library = Device /\ \A d \in Device : IsLibrary(library[d])
    /\ repository \in [Device -> SUBSET Item]
    /\ log \in [Device -> SUBSET Revocation]
    /\ suppressed \in [Device -> SUBSET Item]
    /\ DOMAIN inbox = Device /\ \A d \in Device : inbox[d] \in Seq(Message(d))
    /\ DOMAIN waiters = Device
    /\ \A d \in Device : waiters[d] \in Seq({s \in Session : Owner[s] = d})
    /\ faults \subseteq FaultKinds
    /\ DOMAIN edit = Device /\ \A d \in Device : IsEdit(edit[d])
    /\ edits \in Nat

Init ==
    /\ session = [s \in Session |-> NotStarted]
    /\ \E state \in InitialStates :
         /\ library = state.library /\ log = state.log
         /\ suppressed = state.suppressed /\ faults = state.faults
         /\ edits = state.edits
    /\ repository = [d \in Device |-> DOMAIN library[d]]
    /\ inbox = [d \in Device |-> <<>>]
    /\ waiters = [d \in Device |-> <<>>]
    /\ edit = [d \in Device |-> NoEdit]

-----------------------------------------------------------------------------
(* Helpers *)

Become(s, r) == session' = [session EXCEPT ![s] = r]

(* What no step of the protocol changes: storage, the possible faults, and *)
(* what the users do.                                                      *)
Stored == <<library, repository, log, suppressed, faults, edit, edits>>

Network == <<inbox, waiters>>

(* The one queue left of queue without the messages of d.                  *)
OthersThan(queue, d) ==
    LET kept == {i \in DOMAIN queue : queue[i].from # d}
    IN  {[i \in DOMAIN at |-> queue[at[i]]] :
            at \in {f \in [1..Cardinality(kept) -> kept] :
                      \A i, j \in DOMAIN f : i < j => f[i] < f[j]}}

(* disconnect() may drop what is queued for the peer.                      *)
Disconnected(queues, s) ==
    {queues} \cup {[queues EXCEPT ![Peer[s]] = queue] :
                      queue \in OthersThan(queues[Peer[s]], Owner[s])}

(* The catch block, run when queues are the inboxes.                       *)
Fail(s, queues, stage) ==
    /\ Become(s, [session[s] EXCEPT !.stage = stage])
    /\ inbox' \in Disconnected(queues, s)

Abort(s) == Fail(s, inbox, "aborted")

-----------------------------------------------------------------------------
(* Starting *)

(* swap() is called with the library of the moment.                        *)
Start(s) ==
    /\ session[s].stage = "idle"
    /\ Become(s, [session[s] EXCEPT !.stage = "discovered", !.snapshot = library[Owner[s]],
                                    !.working = library[Owner[s]]])
    /\ UNCHANGED <<Stored, Network>>

Throttle(s) ==
    /\ "throttle" \in faults /\ session[s].stage = "discovered"
    /\ Abort(s)
    /\ UNCHANGED <<Stored, waiters>>

Revoked(entries) == {e.item : e \in entries}

(* The revocation log is listed once, here: what is recorded later is not  *)
(* known to this swap.                                                     *)
BeginNegotiation(s) ==
    /\ session[s].stage = "discovered"
    /\ Become(s, IF Owner[s] \in Gossips
                 THEN [session[s] EXCEPT !.stage = "sending", !.round = "revocation",
                                         !.listed = log[Owner[s]],
                                         !.known = Revoked(log[Owner[s]])]
                 ELSE [session[s] EXCEPT !.stage = "sending", !.round = "offer"])
    /\ UNCHANGED <<Stored, Network>>

-----------------------------------------------------------------------------
(* Sending and receiving *)

(* What the policy offers, less the items in the suppression window.       *)
candidates(s) == selectOffer(session[s].working) \ suppressed[Owner[s]]

Outbound(s) ==
    CASE session[s].round = "revocation" ->
            [from |-> Owner[s], kind |-> "revocation", entries |-> session[s].listed]
      [] session[s].round = "offer" ->
            [from |-> Owner[s], kind |-> "offer", items |-> candidates(s)]
      [] session[s].round = "accept" ->
            [from |-> Owner[s], kind |-> "accept", items |-> session[s].accepted]

(* Faulty variants: back to the sender; over the message before.           *)
Delivered_echo(s) == [inbox EXCEPT ![Owner[s]] = Append(@, Outbound(s))]

Delivered_latest(s) == [inbox EXCEPT ![Peer[s]] = <<Outbound(s)>>]

Delivered(s) == [inbox EXCEPT ![Peer[s]] = Append(@, Outbound(s))]

Send(s) ==
    /\ session[s].stage = "sending"
    /\ Become(s, [session[s] EXCEPT !.stage = "sent",
                     !.offered = IF session[s].round = "offer" THEN candidates(s) ELSE @])
    /\ \/ inbox' = Delivered(s)
       \/ "loss" \in faults /\ inbox' = inbox
    /\ UNCHANGED <<Stored, waiters>>

(* send() rejects, whether or not the message got through.                 *)
SendRejects(s) ==
    /\ "send" \in faults /\ session[s].stage = "sending"
    /\ \E queues \in {inbox, Delivered(s)} : Fail(s, queues, "aborted")
    /\ UNCHANGED <<Stored, waiters>>

Receive(s) ==
    /\ session[s].stage = "sent"
    /\ Become(s, [session[s] EXCEPT !.stage = "waiting"])
    /\ waiters' = [waiters EXCEPT ![Owner[s]] = Append(@, s)]
    /\ UNCHANGED <<Stored, inbox>>

(* Faulty variant: only the first round has a timer.                       *)
Timeout_first_round(s) ==
    /\ "timeout" \in faults /\ session[s].stage = "waiting"
    /\ session[s].round = "revocation"
    /\ Abort(s)
    /\ UNCHANGED <<Stored, waiters>>

(* The receive() call stays in the queue.                                  *)
Timeout(s) ==
    /\ "timeout" \in faults /\ session[s].stage = "waiting"
    /\ Abort(s)
    /\ UNCHANGED <<Stored, waiters>>

-----------------------------------------------------------------------------
(* Handling the message a receive() resolves with *)

(* Faulty variant: spares the locked items.                                *)
RemovedBy_unlocked(s, entries) ==
    swappableItems(session[s].working) \cap Revoked({e \in entries : e.authorized})

RemovedBy(s, entries) ==
    DOMAIN session[s].working \cap Revoked({e \in entries : e.authorized})

(* RevocationLogPort.record keeps the first entry of an item.              *)
Recorded(known, entries) == known \cup {e \in entries : e.item \notin Revoked(known)}

(* Faulty variant: only what it takes down is known as revoked.            *)
HandleRevocation_held(s, m) ==
    /\ log' = [log EXCEPT ![Owner[s]] = Recorded(@, m.entries)]
    /\ Become(s, [session[s] EXCEPT !.stage = "sending", !.round = "offer",
                                    !.known = @ \cup RemovedBy(s, m.entries),
                                    !.working = Without(@, RemovedBy(s, m.entries))])
    /\ UNCHANGED <<library, repository, suppressed, faults, edit, edits>>

(* Every entry is recorded, authorized for a held item or not; the         *)
(* authorized ones remove the item, locked or swappable.                   *)
HandleRevocation(s, m) ==
    /\ log' = [log EXCEPT ![Owner[s]] = Recorded(@, m.entries)]
    /\ Become(s, [session[s] EXCEPT !.stage = "sending", !.round = "offer",
                                    !.known = @ \cup Revoked(m.entries),
                                    !.working = Without(@, RemovedBy(s, m.entries))])
    /\ UNCHANGED <<library, repository, suppressed, faults, edit, edits>>

(* Recording one of the entries rejects: those before it stay recorded.    *)
RecordRejects(s, m, queues) ==
    /\ "storage" \in faults
    /\ \E recorded \in SUBSET m.entries \ {m.entries} :
         log' = [log EXCEPT ![Owner[s]] = Recorded(@, recorded)]
    /\ Fail(s, queues, "aborted")
    /\ UNCHANGED <<library, repository, suppressed, faults, edit, edits>>

peerOffer(s, items) == items \ (Unacceptable \cup session[s].known)

(* Oversized and unverifiable items are dropped, then the known revoked    *)
(* ones, then the accept policy chooses.                                   *)
HandleOffer(s, m) ==
    /\ \E accepted \in selectAccept(peerOffer(s, m.items), session[s].working,
                                    Capacity[Owner[s]].swappableSlots) :
         Become(s, [session[s] EXCEPT !.stage = "sending", !.round = "accept",
                                      !.accepted = accepted])
    /\ UNCHANGED Stored

(* Faulty variant: counts everything offered as sent.                      *)
HandleAccept_all(s, m) ==
    /\ Become(s, [session[s] EXCEPT !.stage = "saving", !.pending = session[s].accepted,
                                    !.sent = session[s].offered])
    /\ UNCHANGED Stored

HandleAccept(s, m) ==
    /\ Become(s, [session[s] EXCEPT !.stage = "saving", !.pending = session[s].accepted,
                                    !.sent = session[s].offered \cap m.items])
    /\ UNCHANGED Stored

Expected(s, m) ==
    /\ m.kind = session[s].round
    /\ m.kind = "offer" => Cardinality(m.items) <= MAX_OFFER_ITEMS

(* The first waiting receive() of d resolves with the first message of its *)
(* inbox, whoever sent it.  A session that has timed out ignores it; a     *)
(* message of the wrong kind, or too large an offer, aborts the session.   *)
Deliver(d) ==
    /\ inbox[d] # <<>> /\ waiters[d] # <<>>
    /\ waiters' = [waiters EXCEPT ![d] = Tail(@)]
    /\ LET s == Head(waiters[d])
           m == Head(inbox[d])
           rest == [inbox EXCEPT ![d] = Tail(@)]
       IN  \/ /\ session[s].stage # "waiting"
              /\ inbox' = rest
              /\ UNCHANGED <<session, Stored>>
           \/ /\ session[s].stage = "waiting" /\ ~Expected(s, m)
              /\ Fail(s, rest, "aborted")
              /\ UNCHANGED Stored
           \/ /\ session[s].stage = "waiting" /\ Expected(s, m)
              /\ m.kind = "revocation" /\ RecordRejects(s, m, rest)
           \/ /\ session[s].stage = "waiting" /\ Expected(s, m)
              /\ inbox' = rest
              /\ \/ m.kind = "revocation" /\ HandleRevocation(s, m)
                 \/ m.kind = "offer" /\ HandleOffer(s, m)
                 \/ m.kind = "accept" /\ HandleAccept(s, m)

-----------------------------------------------------------------------------
(* Transfer, reconciliation, outcome: local storage calls only             *)

Save(s) ==
    /\ session[s].stage = "saving"
    /\ \E item \in session[s].pending :
         /\ repository' = [repository EXCEPT ![Owner[s]] = @ \cup {item}]
         /\ Become(s, [session[s] EXCEPT !.pending = @ \ {item}])
    /\ UNCHANGED <<library, log, suppressed, faults, edit, edits, Network>>

CompleteTransfer(s) ==
    /\ session[s].stage = "saving" /\ session[s].pending = {}
    /\ Become(s, [session[s] EXCEPT !.stage = "reconciling"])
    /\ UNCHANGED <<Stored, Network>>

(* The byte budget, which no policy knows of, may reject an accepted item. *)
Reconcile(s) ==
    /\ session[s].stage = "reconciling"
    /\ LET r == session[s]
           cap == Capacity[Owner[s]]
       IN  \E evicted \in selectEvict(r.working, r.accepted, cap.swappableSlots) :
             LET result == addAll(Without(r.working, evicted), r.accepted, 0, cap) IN
             \/ /\ result.ok
                /\ Become(s, [r EXCEPT !.stage = "recording", !.working = result.library,
                                       !.evicted = evicted,
                                       !.pending = (r.offered \ r.sent) \cup evicted])
                /\ UNCHANGED inbox
             \/ ~result.ok /\ Abort(s)
    /\ UNCHANGED <<Stored, waiters>>

RecordOutcome(s) ==
    /\ session[s].stage = "recording"
    /\ \E item \in session[s].pending :
         /\ suppressed' = [suppressed EXCEPT ![Owner[s]] = @ \cup {item}]
         /\ Become(s, [session[s] EXCEPT !.pending = @ \ {item}])
    /\ UNCHANGED <<library, repository, log, faults, edit, edits, Network>>

(* swap() resolves, and its caller adopts the outcome's library.           *)
Complete(s) ==
    /\ session[s].stage = "recording" /\ session[s].pending = {}
    /\ Become(s, [session[s] EXCEPT !.stage = "completed"])
    /\ library' = [library EXCEPT ![Owner[s]] = session[s].working]
    /\ UNCHANGED <<repository, log, suppressed, faults, edit, edits, Network>>

(* Faulty variant: aborts a swap that has already completed.               *)
StorageRejects_abort(s) ==
    /\ "storage" \in faults /\ session[s].pending # {}
    /\ session[s].stage \in {"saving", "recording"} /\ Abort(s)
    /\ UNCHANGED <<Stored, waiters>>

(* A save, or a record in the encounter log, rejects.                      *)
StorageRejects(s) ==
    /\ "storage" \in faults /\ session[s].pending # {}
    /\ \/ session[s].stage = "saving" /\ Abort(s)
       \/ session[s].stage = "recording" /\ Fail(s, inbox, "rejected")
    /\ UNCHANGED <<Stored, waiters>>

(* A declined or evicted record ages past the suppression window.          *)
Expire(d) ==
    /\ \E item \in suppressed[d] : suppressed' = [suppressed EXCEPT ![d] = @ \ {item}]
    /\ UNCHANGED <<session, library, repository, log, faults, edit, edits, Network>>

-----------------------------------------------------------------------------
(* The user's and the operator's calls, beside the swaps.  A call that     *)
(* waits for storage installs the library it computed before; there is one *)
(* such call at a time on a device.                                        *)

(* What the swaps alone change.                                            *)
SwapState == <<session, suppressed, faults, Network>>

(* A user calls something once more.                                       *)
Called == edits > 0 /\ edits' = edits - 1

Install(d, result) == library' = [library EXCEPT ![d] = result]

Await(d, step, items, result) ==
    edit' = [edit EXCEPT ![d] = [step |-> step, items |-> items, result |-> result]]

Resolve(d) == edit' = [edit EXCEPT ![d] = NoEdit]

lock(d, item) ==
    /\ Called
    /\ LET result == lockItem(library[d], item, Capacity[d])
       IN  result.ok /\ Install(d, result.library)
    /\ UNCHANGED <<repository, log, edit, SwapState>>

unlock(d, item) ==
    /\ Called
    /\ LET result == unlockItem(library[d], item, Capacity[d])
       IN  result.ok /\ Install(d, result.library)
    /\ UNCHANGED <<repository, log, edit, SwapState>>

add(d, item) ==
    /\ Called /\ edit[d].step = "none"
    /\ LET result == addItem(library[d], item, 0, Capacity[d])
       IN  result.ok /\ Await(d, "saving", {item}, result.library)
    /\ UNCHANGED <<library, repository, log, SwapState>>

Added(d) ==
    /\ edit[d].step = "saving" /\ Resolve(d)
    /\ repository' = [repository EXCEPT ![d] = @ \cup edit[d].items]
    /\ Install(d, edit[d].result)
    /\ UNCHANGED <<log, edits, SwapState>>

remove(d, item) ==
    /\ Called /\ edit[d].step = "none" /\ item \in DOMAIN library[d]
    /\ Await(d, "deleting", {item}, Without(library[d], {item}))
    /\ UNCHANGED <<library, repository, log, SwapState>>

(* The operator's takedown is recorded first ...                           *)
revokeContent(d, entry) ==
    /\ Called /\ edit[d].step = "none" /\ d \in Gossips
    /\ log' = [log EXCEPT ![d] = Recorded(@, {entry})]
    /\ Await(d, "revoking", {entry.item}, EmptyLibrary)
    /\ UNCHANGED <<library, repository, SwapState>>

(* ... and an item the device holds by then is removed.                    *)
RemoveRevoked(d) ==
    /\ edit[d].step = "revoking"
    /\ IF edit[d].items \subseteq DOMAIN library[d]
       THEN Await(d, "deleting", edit[d].items, Without(library[d], edit[d].items))
       ELSE Resolve(d)
    /\ UNCHANGED <<library, repository, log, edits, SwapState>>

Removed(d) ==
    /\ edit[d].step = "deleting" /\ Resolve(d)
    /\ repository' = [repository EXCEPT ![d] = @ \ edit[d].items]
    /\ Install(d, edit[d].result)
    /\ UNCHANGED <<log, edits, SwapState>>

(* The save or the delete rejects, and nothing is installed.               *)
EditRejects(d) ==
    /\ "storage" \in faults /\ edit[d].step \in {"saving", "deleting"} /\ Resolve(d)
    /\ UNCHANGED <<library, repository, log, edits, SwapState>>

Edit(d) ==
    \/ \E item \in Item : lock(d, item) \/ unlock(d, item) \/ add(d, item) \/ remove(d, item)
    \/ \E entry \in Revocation : revokeContent(d, entry)
    \/ RemoveRevoked(d) \/ Added(d) \/ Removed(d) \/ EditRejects(d)

-----------------------------------------------------------------------------
(* Everything swap() does once it has been called                          *)
Step(s) ==
    \/ Throttle(s) \/ BeginNegotiation(s)
    \/ Send(s) \/ SendRejects(s) \/ Receive(s) \/ Timeout(s)
    \/ Save(s) \/ CompleteTransfer(s) \/ Reconcile(s)
    \/ RecordOutcome(s) \/ Complete(s) \/ StorageRejects(s)

Next ==
    \/ \E s \in Session : Start(s) \/ Step(s)
    \/ \E d \in Device : Deliver(d) \/ Expire(d) \/ Edit(d)

(* The event loop runs a started swap to its next await, fires its receive *)
(* timer, and hands over a message that has arrived for a waiting call.    *)
Fairness ==
    /\ \A s \in Session : WF_vars(Step(s))
    /\ \A d \in Device : WF_vars(Deliver(d))

Spec == Init /\ [][Next]_vars

FairSpec == Spec /\ Fairness

-----------------------------------------------------------------------------
(* Every swap runs the swap state machine                                  *)

Phase(s) ==
    LET stage == session[s].stage IN
    CASE stage \in {"idle", "discovered", "aborted"} -> stage
      [] stage \in {"sending", "sent", "waiting"} -> "negotiating"
      [] stage = "saving" -> "negotiated"
      [] stage = "reconciling" -> "transferred"
      [] stage \in {"recording", "completed", "rejected"} -> "completed"

Negotiated(s) == Phase(s) \in {"negotiated", "transferred", "completed"}

Machine(s) == INSTANCE SwapStateMachine WITH
    phase    <- Phase(s),
    outgoing <- IF Negotiated(s) THEN session[s].sent ELSE {},
    incoming <- IF Negotiated(s) THEN session[s].accepted ELSE {},
    evicted  <- IF Phase(s) = "completed" THEN session[s].evicted ELSE {}

(* swap() only ever makes transitions the reducer accepts, and what it     *)
(* transfers is what it negotiated: unwrapTransition never throws, and a   *)
(* swap that has completed or aborted never moves again.                   *)
FollowsStateMachine ==
    /\ \A s \in Session : Machine(s)!Init
    /\ [][\A s \in Session : [Machine(s)!Next]_(Machine(s)!vars)]_vars

-----------------------------------------------------------------------------
(* What the properties below ask of a deployment                           *)

(* Every device calls swap() once.                                         *)
OnePerDevice == \A s, t \in Session : Owner[s] = Owner[t] => s = t

(* A device is only talked to by the device it talks to.                   *)
InPairs == OnePerDevice /\ \A s, t \in Session : Peer[t] = Owner[s] => Peer[s] = Owner[t]

-----------------------------------------------------------------------------
(* Properties of the protocol                                              *)

Counterparts(s, t) == Owner[s] = Peer[t] /\ Owner[t] = Peer[s]

(* SwapOutcome.sent is "the subset of offered the peer actually accepted": *)
(* once a session has the answer, both sides agree on what moves, whether  *)
(* or not the other side goes on to finish.                                *)
SentWasAccepted ==
    \A s, t \in Session :
        Counterparts(s, t) /\ Negotiated(s) => session[s].sent = session[t].accepted

(* A locked item is never offered, so no swap makes another device store   *)
(* it: what a swap stores was swappable at the device it came from when    *)
(* that device called swap(), whatever its user locks meanwhile.           *)
LockedStaysHome ==
    [][\A d \in Device :
          edit'[d] = edit[d] =>
            (repository'[d] \ repository[d])
              \subseteq UNION {swappableItems(session[t].snapshot) :
                               t \in {t \in Session : Peer[t] = d}}]_vars

(* A device never takes in content it already knows is revoked: nothing    *)
(* that its own log named when the swap began, and nothing that its peer's *)
(* log named when the peer began.                                          *)
RevokedNotTakenIn ==
    \A s, t \in Session :
        s = t \/ (Counterparts(s, t) /\ Owner[s] \in Gossips)
          => session[s].accepted \cap Revoked(session[t].listed) = {}

(* The library a swap leaves its device with holds no item that an         *)
(* authorized entry of the peer's log takes down, whether the item was     *)
(* held, locked or just accepted.                                          *)
RevocationApplied ==
    [][\A s, t \in Session :
          /\ Counterparts(s, t) /\ Owner[s] \in Gossips
          /\ session[s].stage # "completed" /\ session'[s].stage = "completed"
          => DOMAIN library'[Owner[s]]
               \cap Revoked({e \in session[t].listed : e.authorized}) = {}]_vars

(* Whatever is lost, refused or late, a swap that was started ends: every  *)
(* receive() has a timer, which fires unless the wait ends before.         *)
EverySwapEnds ==
    \A s \in Session :
        ("timeout" \in faults /\ session[s].stage # "idle") ~> session[s].stage \in Ended

(* When nothing fails, two devices that start a swap with one another both *)
(* complete it: sending before receiving in every round cannot deadlock.   *)
UndisturbedSwapsComplete ==
    \A s, t \in Session :
        (Counterparts(s, t) /\ faults = {}
           /\ session[s].stage # "idle" /\ session[t].stage # "idle")
            ~> (session[s].stage = "completed" /\ session[t].stage = "completed")
=============================================================================
