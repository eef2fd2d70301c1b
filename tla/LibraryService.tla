--------------------------- MODULE LibraryService ---------------------------
(***************************************************************************)
(* One device's LibraryService: the single holder of the current Library,  *)
(* above a persistent MetadataRepository.  Its callers run concurrently in *)
(* one event loop: ingestion adds items, the operator takes items down and *)
(* changes the capacity, the user locks and unlocks, and swaps compute a   *)
(* new library from the snapshot they were started with and hand it back   *)
(* through adoptLibrary.  Every await is a point where the others may run. *)
(*                                                                         *)
(* A call in progress is op[c].  Its field lib is the library the call     *)
(* works on: the result it has computed and will install (add, takedown),  *)
(* or the working library of a swap.                                       *)
(***************************************************************************)
EXTENDS Library

CONSTANTS
    Caller,             (* at most one asynchronous call each               *)
    MaxTotalSlots,      (* NODE_MAX_TOTAL_SLOTS                             *)
    Capacities,         (* capacities the operator may ask for              *)
    ConfiguredCapacity  (* the capacity in the node's configuration         *)

(* validateCapacityBounds                                                  *)
ValidCapacity(cap) ==
    /\ cap.maxLockableSlots + cap.swappableSlots \in 1..MaxTotalSlots
    /\ cap.maxTotalBytes # 0

ASSUME SlotsAssumption == MaxTotalSlots \in Nat \ {0}
ASSUME CapacityAssumption ==
    /\ Capacities \subseteq CapacityType
    /\ ConfiguredCapacity \in CapacityType /\ ValidCapacity(ConfiguredCapacity)

VARIABLES
    status,      (* "up", "down", or "failed": LibraryService.create threw   *)
    library,     (* LibraryService.library                                   *)
    capacity,    (* LibraryService.capacity                                  *)
    repository,  (* hashes of the tokens stored in MetadataRepositoryPort    *)
    op,          (* op[c]: the call caller c has in progress                 *)
    takenDown    (* history: hashes the operator's takedowns have deleted    *)

vars == <<status, library, capacity, repository, op, takenDown>>

SwapStages == {"negotiating", "transferring", "reconciled"}

Stages == {"none", "saving", "recording", "deleting", "installing"} \cup SwapStages

KnownCapacities == Capacities \cup {ConfiguredCapacity}

IsOp(o) ==
    /\ DOMAIN o = {"stage", "items", "unsaved", "lib", "cap"}
    /\ o.stage \in Stages
    /\ o.items \subseteq Item
    /\ o.unsaved \subseteq o.items
    /\ IsLibrary(o.lib)
    /\ o.cap \in KnownCapacities /\ ValidCapacity(o.cap)

NoOp == [stage |-> "none", items |-> {}, unsaved |-> {}, lib |-> EmptyLibrary,
         cap |-> ConfiguredCapacity]

TypeOK ==
    /\ status \in {"up", "down", "failed"}
    /\ IsLibrary(library)
    /\ capacity \in KnownCapacities /\ ValidCapacity(capacity)
    /\ repository \subseteq Item
    /\ takenDown \subseteq Item
    /\ DOMAIN op = Caller /\ \A c \in Caller : IsOp(op[c])

Init ==
    /\ status = "up"
    /\ library = EmptyLibrary
    /\ capacity = ConfiguredCapacity
    /\ repository = {}
    /\ op = [c \in Caller |-> NoOp]
    /\ takenDown = {}

-----------------------------------------------------------------------------
(* Synchronous calls *)

lock(item) ==
    /\ status = "up"
    /\ item \in DOMAIN library /\ ~library[item].locked
    /\ library' = lockItem(library, item, capacity).library
    /\ UNCHANGED <<status, capacity, repository, op, takenDown>>

unlock(item) ==
    /\ status = "up"
    /\ item \in lockedItems(library)
    /\ library' = unlockItem(library, item, capacity).library
    /\ UNCHANGED <<status, capacity, repository, op, takenDown>>

(* Faulty variant: the bounds are not validated.                           *)
setCapacity_unvalidated(cap) ==
    /\ status = "up"
    /\ capacity' = cap
    /\ UNCHANGED <<status, library, repository, op, takenDown>>

(* AdminService.setCapacity: nothing resident is evicted.                  *)
setCapacity(cap) ==
    /\ status = "up"
    /\ ValidCapacity(cap)
    /\ capacity' = cap
    /\ UNCHANGED <<status, library, repository, op, takenDown>>

-----------------------------------------------------------------------------
(* Asynchronous calls *)

Idle(c) == status = "up" /\ op[c] = NoOp

Continue(c, o) == op' = [op EXCEPT ![c] = o]

Finish(c) == Continue(c, NoOp)

(* The library the call computed replaces the current one, whatever        *)
(* happened since: applyResult after an await, and adoptLibrary.           *)
Install(c) ==
    /\ op[c].stage \in {"installing", "reconciled"}
    /\ library' = op[c].lib
    /\ Finish(c)
    /\ UNCHANGED <<status, capacity, repository, takenDown>>

(* LibraryService.add: the result is computed before the save is awaited.  *)
(* A rejected add changes nothing.                                         *)
add(c, item) ==
    /\ Idle(c)
    /\ LET result == addItem(library, item, 0, capacity) IN
         /\ result.ok
         /\ Continue(c, [NoOp EXCEPT !.stage = "saving",
                                    !.items = {item}, !.lib = result.library])
    /\ UNCHANGED <<status, library, capacity, repository, takenDown>>

(* Faulty variant: the result is installed without a save.                 *)
AddSave_skipped(c) ==
    /\ op[c].stage = "saving"
    /\ Continue(c, [op[c] EXCEPT !.stage = "installing"])
    /\ UNCHANGED <<status, library, capacity, repository, takenDown>>

AddSave(c) ==
    /\ op[c].stage = "saving"
    /\ repository' = repository \cup op[c].items
    /\ Continue(c, [op[c] EXCEPT !.stage = "installing"])
    /\ UNCHANGED <<status, library, capacity, takenDown>>

(* AdminService.revokeContent: the signed entry is recorded in the         *)
(* revocation log, then LibraryService.remove runs if the item is held.    *)
revokeContent(c, item) ==
    /\ Idle(c)
    /\ Continue(c, [NoOp EXCEPT !.stage = "recording", !.items = {item}])
    /\ UNCHANGED <<status, library, capacity, repository, takenDown>>

remove(c) ==
    /\ op[c].stage = "recording"
    /\ IF op[c].items \subseteq DOMAIN library
       THEN Continue(c, [op[c] EXCEPT !.stage = "deleting",
                                      !.lib = Without(library, op[c].items)])
       ELSE Finish(c)
    /\ UNCHANGED <<status, library, capacity, repository, takenDown>>

RemoveDelete(c) ==
    /\ op[c].stage = "deleting"
    /\ repository' = repository \ op[c].items
    /\ takenDown' = takenDown \cup op[c].items
    /\ Continue(c, [op[c] EXCEPT !.stage = "installing"])
    /\ UNCHANGED <<status, library, capacity>>

(* handleNewPeer starts a swap on the current snapshot.  The capacity and  *)
(* the policies, live getters, are read once, here.                        *)
swap(c) ==
    /\ Idle(c)
    /\ Continue(c, [NoOp EXCEPT !.stage = "negotiating",
                                !.lib = library, !.cap = capacity])
    /\ UNCHANGED <<status, library, capacity, repository, takenDown>>

(* The rounds with the peer: its authorised revocations leave the working  *)
(* library, then the accept policy chooses among what it offers.           *)
SwapNegotiate(c) ==
    /\ op[c].stage = "negotiating"
    /\ \E revoked \in SUBSET DOMAIN op[c].lib, offered \in SUBSET Item :
         LET working == Without(op[c].lib, revoked) IN
         \E accepted \in selectAccept(offered \ revoked, working, op[c].cap.swappableSlots) :
            Continue(c, [op[c] EXCEPT !.stage = "transferring", !.lib = working,
                                      !.items = accepted, !.unsaved = accepted])
    /\ UNCHANGED <<status, library, capacity, repository, takenDown>>

SwapSave(c) ==
    /\ op[c].stage = "transferring"
    /\ \E item \in op[c].unsaved :
         /\ repository' = repository \cup {item}
         /\ Continue(c, [op[c] EXCEPT !.unsaved = @ \ {item}])
    /\ UNCHANGED <<status, library, capacity, takenDown>>

SwapReconcile(c) ==
    /\ op[c].stage = "transferring" /\ op[c].unsaved = {}
    /\ \E evicted \in selectEvict(op[c].lib, op[c].items, op[c].cap.swappableSlots) :
         LET result == addAll(Without(op[c].lib, evicted), op[c].items, 0, op[c].cap) IN
         IF result.ok
         THEN Continue(c, [op[c] EXCEPT !.stage = "reconciled", !.lib = result.library])
         ELSE Finish(c)
    /\ UNCHANGED <<status, library, capacity, repository, takenDown>>

(* A storage call rejects, or the swap aborts: the library is not touched. *)
Fail(c) ==
    /\ op[c].stage \in {"saving", "recording", "deleting"} \cup SwapStages
    /\ Finish(c)
    /\ UNCHANGED <<status, library, capacity, repository, takenDown>>

-----------------------------------------------------------------------------
(* The process stops and starts again: only the repository survives.       *)

Crash ==
    /\ status = "up"
    /\ status' = "down"
    /\ library' = EmptyLibrary
    /\ op' = [c \in Caller |-> NoOp]
    /\ UNCHANGED <<capacity, repository, takenDown>>

(* LibraryService.create seeds every stored token into the swappable pool. *)
create ==
    /\ status # "up"
    /\ LET seeded == addAll(EmptyLibrary, repository, 0, ConfiguredCapacity) IN
         /\ status' = IF seeded.ok THEN "up" ELSE "failed"
         /\ library' = seeded.library
    /\ capacity' = ConfiguredCapacity
    /\ UNCHANGED <<repository, op, takenDown>>

Next ==
    \/ \E item \in Item : lock(item) \/ unlock(item)
    \/ \E cap \in Capacities : setCapacity(cap)
    \/ \E c \in Caller, item \in Item : add(c, item) \/ revokeContent(c, item)
    \/ \E c \in Caller :
         \/ AddSave(c) \/ remove(c) \/ RemoveDelete(c)
         \/ swap(c) \/ SwapNegotiate(c) \/ SwapSave(c) \/ SwapReconcile(c)
         \/ Install(c) \/ Fail(c)
    \/ Crash \/ create

Spec == Init /\ [][Next]_vars

-----------------------------------------------------------------------------
(* Properties *)

Bounded(lib) ==
    /\ \E cap \in KnownCapacities : lockedCount(lib) <= cap.maxLockableSlots
    /\ \E cap \in KnownCapacities : swappableCount(lib) <= cap.swappableSlots

(* Neither pool ever outgrows the largest capacity the device was given,   *)
(* although concurrent calls install results they computed from snapshots  *)
(* that are long stale (library.ts: "an operation that would overflow      *)
(* either pool's cap is rejected outright").                               *)
PoolsBounded == Bounded(library) /\ \A c \in Caller : Bounded(op[c].lib)

(* The byte budget holds in the same way, although neither the accept nor  *)
(* the eviction policy knows of it: only addItem enforces it.              *)
BytesBounded ==
    \E cap \in KnownCapacities :
        cap.maxTotalBytes = NoBudget \/ byteSize(DOMAIN library) <= cap.maxTotalBytes

(* Whatever the device holds would survive a restart: every held item has  *)
(* been stored, and only the operator's takedowns delete stored items      *)
(* (add and swap save before they install).                                *)
HeldIsDurable == DOMAIN library \subseteq repository \cup takenDown

(* A swap's reconciliation never evicts nor unlocks an item that was       *)
(* locked when the swap began, even when the pools are over capacity.      *)
SwapKeepsLocked ==
    [][\A c \in Caller :
          op[c].stage = "transferring" /\ op'[c].stage = "reconciled"
              => lockedItems(op'[c].lib) = lockedItems(op[c].lib)]_vars

(* library-service.ts: "A persisted repository should never already exceed *)
(* swappable capacity", so create never throws.                            *)
CreateSucceeds == status # "failed"

(* SPEC.md: a locked item leaves the lockable pool only when it is         *)
(* unlocked, taken down or revoked, or when the device restarts.           *)
LockHolds ==
    [][\A item \in lockedItems(library) :
          \/ item \notin DOMAIN library' \/ library'[item].locked
          \/ unlock(item)]_vars
=============================================================================
