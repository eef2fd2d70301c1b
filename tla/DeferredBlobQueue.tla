------------------------- MODULE DeferredBlobQueue --------------------------
(***************************************************************************)
(* The queue of blobs to fetch later, above the file-backed stores.  Its   *)
(* two calls, enqueue and processDue, overlap at every await.              *)
(*                                                                         *)
(* The code holds the queue in an array.  enqueue pushes to the array, a   *)
(* pass iterates over it while it grows, and at its end puts a new array   *)
(* in its place; saveAll serialises the array it was given some time after *)
(* it was called.  A call that still reads the current array is "live";    *)
(* once the array is replaced the call keeps the old one, which nobody     *)
(* changes any more.                                                       *)
(***************************************************************************)
EXTENDS Integers, Sequences, FiniteSets, FiniteSetsExt

CONSTANTS
    Blob,               (* content hashes                                   *)
    Caller,             (* at most one call each                            *)
    Overlapping,        (* whether a pass may start while another runs      *)
    BaseDelay, MaxDelay, MaxAttempts,   (* BackoffConfig                    *)
    MaxTime,            (* bound on the clock                               *)
    MaxQueue            (* bound on the entries, pushed or about to be      *)

ASSUME BackoffAssumption ==
    /\ BaseDelay \in Nat /\ MaxDelay \in Nat /\ MaxAttempts \in Nat \ {0}
ASSUME ScheduleAssumption == Overlapping \in BOOLEAN /\ {MaxTime, MaxQueue} \subseteq Nat

VARIABLES
    now,        (* ClockPort                                                *)
    entries,    (* this.entries                                             *)
    persisted,  (* the array in the queue's file                            *)
    stored,     (* stored[b]: the blob's file in the local store            *)
    op,         (* op[c]: the locals of the call c has in progress          *)
    promised,   (* history: blobs whose enqueue resolved, or that a restart *)
                (* found in the file                                        *)
    gaveUp,     (* history: blobs dropped after maxAttempts                 *)
    failures    (* history: failed fetches of a blob, up to MaxAttempts     *)

vars == <<now, entries, persisted, stored, op, promised, gaveUp, failures>>

Time == 0..MaxTime

QueuedBlobFetch ==
    [hash : Blob, attempts : 0..(MaxAttempts - 1), next : 0..(MaxTime + MaxDelay)]

PassStages == {"status", "fetching", "storing", "ending", "writing the rest"}

Stages == {"none", "checking", "pushing", "saving", "writing"} \cup PassStages

Queue == Seq(QueuedBlobFetch)

Call == [stage : Stages, blobs : SUBSET Blob, live : BOOLEAN, array : Queue,
         at : Nat, now : Time, remaining : Queue]

TypeOK ==
    /\ now \in Time
    /\ entries \in Queue /\ persisted \in Queue
    /\ stored \in [Blob -> {"absent", "partial", "complete"}]
    /\ op \in [Caller -> Call]
    /\ promised \subseteq Blob /\ gaveUp \subseteq Blob
    /\ failures \in [Blob -> 0..MaxAttempts]

NoOp ==
    [stage |-> "none", blobs |-> {}, live |-> FALSE, array |-> <<>>,
     at |-> 0, now |-> 0, remaining |-> <<>>]

Init ==
    /\ now = 0
    /\ entries = <<>> /\ persisted = <<>>
    /\ stored = [b \in Blob |-> "absent"]
    /\ op = [c \in Caller |-> NoOp]
    /\ promised = {} /\ gaveUp = {}
    /\ failures = [b \in Blob |-> 0]

-----------------------------------------------------------------------------
(* Helpers *)

Hashes(q) == {q[i].hash : i \in DOMAIN q}

(* BlobStorePort.has only looks whether the file exists.                   *)
Held == {b \in Blob : stored[b] # "absent"}

array(o) == IF o.live THEN entries ELSE o.array

Continue(c, o) == op' = [op EXCEPT ![c] = o]

Finish(c) == Continue(c, NoOp)

backoffDelayMs(attempts) ==
    LET delay == BaseDelay * 2 ^ (attempts - 1) IN
    IF delay <= MaxDelay THEN delay ELSE MaxDelay

(* Faulty variants: one attempt short, and one too many.                   *)
exhausted_early(attempts) == attempts + 1 >= MaxAttempts

exhausted_late(attempts) == attempts > MaxAttempts

exhausted(attempts) == attempts >= MaxAttempts

-----------------------------------------------------------------------------
(* enqueue *)

Enqueuing == {c \in Caller : op[c].stage \in {"checking", "pushing"}}

enqueue(c, b) ==
    /\ op[c] = NoOp /\ b \notin Hashes(entries)
    /\ Len(entries) + Cardinality(Enqueuing) < MaxQueue
    /\ Continue(c, [NoOp EXCEPT !.stage = "checking", !.blobs = {b}])
    /\ UNCHANGED <<now, entries, persisted, stored, promised, gaveUp, failures>>

(* localStore.has answers.                                                 *)
EnqueueChecked(c) ==
    /\ op[c].stage = "checking"
    /\ IF op[c].blobs \subseteq Held THEN Finish(c)
                              ELSE Continue(c, [op[c] EXCEPT !.stage = "pushing"])
    /\ UNCHANGED <<now, entries, persisted, stored, promised, gaveUp, failures>>

EnqueuePush(c) ==
    /\ op[c].stage = "pushing"
    /\ \E b \in op[c].blobs :
         entries' = Append(entries, [hash |-> b, attempts |-> 0, next |-> now])
    /\ Continue(c, [op[c] EXCEPT !.stage = "saving", !.live = TRUE])
    /\ gaveUp' = gaveUp \ op[c].blobs
    /\ UNCHANGED <<now, persisted, stored, promised, failures>>

-----------------------------------------------------------------------------
(* saveAll: make the directory, serialise into a temporary file, rename it *)

SaveSerialise(c) ==
    /\ op[c].stage \in {"saving", "ending"}
    /\ Continue(c, [NoOp EXCEPT !.blobs = op[c].blobs, !.array = array(op[c]),
                       !.stage = IF op[c].stage = "saving" THEN "writing" ELSE "writing the rest"])
    /\ UNCHANGED <<now, entries, persisted, stored, promised, gaveUp, failures>>

SaveRename(c) ==
    /\ op[c].stage \in {"writing", "writing the rest"}
    /\ persisted' = op[c].array
    /\ promised' = promised \cup op[c].blobs
    /\ Finish(c)
    /\ UNCHANGED <<now, entries, stored, gaveUp, failures>>

SaveRejects(c) ==
    /\ op[c].stage \in {"saving", "writing", "ending", "writing the rest"}
    /\ Finish(c)
    /\ UNCHANGED <<now, entries, persisted, stored, promised, gaveUp, failures>>

-----------------------------------------------------------------------------
(* processDue *)

(* The clock is read before the connection's status is awaited.            *)
processDue(c) ==
    /\ op[c] = NoOp
    /\ Overlapping \/ \A other \in Caller : op[other].stage \notin PassStages
    /\ Continue(c, [NoOp EXCEPT !.stage = "status", !.now = now])
    /\ UNCHANGED <<now, entries, persisted, stored, promised, gaveUp, failures>>

(* The loop from one await to the next: entries that are not due remain,   *)
(* the next due one is fetched; behind the last one, the entries that      *)
(* remain replace the array, and are saved.                                *)
Loop(c, o) ==
    LET queue == array(o)
        due == {i \in DOMAIN queue : i > o.at /\ queue[i].next <= o.now}
    IN  IF due # {}
        THEN /\ Continue(c, [o EXCEPT !.stage = "fetching", !.at = Min(due),
                                !.remaining = @ \o SubSeq(queue, o.at + 1, Min(due) - 1)])
             /\ UNCHANGED entries
        ELSE /\ entries' = o.remaining \o SubSeq(queue, o.at + 1, Len(queue))
             /\ op' = [other \in Caller |->
                         IF other = c
                         THEN [NoOp EXCEPT !.stage = "ending", !.live = TRUE]
                         ELSE [op[other] EXCEPT !.live = FALSE,
                                  !.array = IF op[other].live THEN entries ELSE @]]

(* Faulty variant: iterates over a copy of the array.                      *)
PassBegin_copied(c) ==
    /\ op[c].stage = "status"
    /\ \/ Loop(c, [op[c] EXCEPT !.array = entries])
       \/ Finish(c) /\ UNCHANGED entries
    /\ UNCHANGED <<now, persisted, stored, promised, gaveUp, failures>>

(* The connection's status gates the whole pass.                           *)
PassBegin(c) ==
    /\ op[c].stage = "status"
    /\ \/ Loop(c, [op[c] EXCEPT !.live = TRUE])
       \/ Finish(c) /\ UNCHANGED entries
    /\ UNCHANGED <<now, persisted, stored, promised, gaveUp, failures>>

entry(c) == array(op[c])[op[c].at]

(* The source has no such blob, or get rejects.                            *)
FetchFails(c) ==
    /\ op[c].stage = "fetching"
    /\ LET attempts == entry(c).attempts + 1
           retry == [entry(c) EXCEPT !.attempts = attempts,
                                     !.next = op[c].now + backoffDelayMs(attempts)]
       IN  /\ failures' = [failures EXCEPT ![entry(c).hash] = IF @ < MaxAttempts THEN @ + 1 ELSE @]
           /\ IF exhausted(attempts)
              THEN gaveUp' = gaveUp \cup {entry(c).hash} /\ Loop(c, op[c])
              ELSE /\ UNCHANGED gaveUp
                   /\ Loop(c, [op[c] EXCEPT !.remaining = Append(@, retry)])
    /\ UNCHANGED <<now, persisted, stored, promised>>

(* localStore.put opens the blob's file, emptying it, and writes to it.    *)
FetchSucceeds(c) ==
    /\ op[c].stage = "fetching"
    /\ stored' = [stored EXCEPT ![entry(c).hash] = "partial"]
    /\ Continue(c, [op[c] EXCEPT !.stage = "storing"])
    /\ UNCHANGED <<now, entries, persisted, promised, gaveUp, failures>>

PutDone(c) ==
    /\ op[c].stage = "storing"
    /\ stored' = [stored EXCEPT ![entry(c).hash] = "complete"]
    /\ Loop(c, op[c])
    /\ UNCHANGED <<now, persisted, promised, gaveUp, failures>>

(* put rejects, and processDue with it, before it replaces the array.      *)
PutRejects(c) ==
    /\ op[c].stage = "storing"
    /\ Finish(c)
    /\ UNCHANGED <<now, entries, persisted, stored, promised, gaveUp, failures>>

-----------------------------------------------------------------------------
(* The environment *)

(* The process stops, and create loads the file.                           *)
Restart ==
    /\ entries' = persisted
    /\ op' = [c \in Caller |-> NoOp]
    /\ promised' = Hashes(persisted)
    /\ UNCHANGED <<now, persisted, stored, gaveUp, failures>>

Tick ==
    /\ now < MaxTime /\ now' = now + 1
    /\ UNCHANGED <<entries, persisted, stored, op, promised, gaveUp, failures>>

Next ==
    \/ \E c \in Caller, b \in Blob : enqueue(c, b)
    \/ \E c \in Caller :
         \/ EnqueueChecked(c) \/ EnqueuePush(c)
         \/ SaveSerialise(c) \/ SaveRename(c) \/ SaveRejects(c)
         \/ processDue(c) \/ PassBegin(c)
         \/ FetchFails(c) \/ FetchSucceeds(c) \/ PutDone(c) \/ PutRejects(c)
    \/ Restart \/ Tick

Spec == Init /\ [][Next]_vars

-----------------------------------------------------------------------------
(* Properties *)

(* A blob the queue has accepted stays pending until the local store holds *)
(* it or the attempts are exhausted, although a pass replaces the whole    *)
(* queue while other calls push to it, and may fail at any of its awaits.  *)
NothingForgotten == promised \subseteq Hashes(entries) \cup Held \cup gaveUp

(* BackoffConfig: an entry is dropped "after this many failed attempts",   *)
(* never sooner, however often the device restarts meanwhile.              *)
NeverGivesUpEarly ==
    [][\A b \in gaveUp' \ gaveUp : failures'[b] = MaxAttempts]_vars
=============================================================================
