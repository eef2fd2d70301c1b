---------------------- MODULE DeferredBlobQueueProofs ----------------------
(***************************************************************************)
(* What TLAPS proves of DeferredBlobQueue, for every set of blobs and      *)
(* callers, every backoff and every bound: the types; that a blob is given *)
(* up only after all its attempts, however passes overlap; and that a blob *)
(* once accepted is not forgotten, when passes do not overlap.             *)
(*                                                                         *)
(* A pass replaces the whole queue by what it has set aside and what it    *)
(* has not reached.  Nothing is forgotten because, all along the pass,     *)
(* every entry of the queue is ahead of it, set aside, held or given up    *)
(* (Kept), and a call that has pushed an entry and not yet saved it finds  *)
(* its blob in the same places (Accepted).                                 *)
(***************************************************************************)
EXTENDS DeferredBlobQueue, TLAPS, SequenceTheorems, FiniteSetTheorems, WellFoundedInduction

-----------------------------------------------------------------------------
(* The invariants *)

InLoop(c) == op[c].stage \in {"fetching", "storing"}

(* A pass starts at the front, and its index is inside the array it        *)
(* iterates over.                                                          *)
Reading ==
    \A c \in Caller :
        /\ op[c].stage = "status" => op[c].at = 0
        /\ InLoop(c) => op[c].at \in DOMAIN array(op[c])

Entries(q) == {q[i] : i \in DOMAIN q}

(* The entry e is somewhere: queued, in the file, or in the locals of a    *)
(* call.                                                                   *)
Recorded(e) ==
    \/ e \in Entries(entries) \/ e \in Entries(persisted)
    \/ \E c \in Caller : e \in Entries(op[c].array) \/ e \in Entries(op[c].remaining)

(* No entry counts more attempts than its blob has had failed fetches.     *)
AttemptsCounted == \A e \in QueuedBlobFetch : Recorded(e) => e.attempts <= failures[e.hash]

(* Where a blob that was accepted may be.                                  *)
Known == Hashes(entries) \cup Held \cup gaveUp

(* One pass runs at a time, and none replaces the array of another.        *)
PassInv ==
    /\ \A c, d \in Caller : op[c].stage \in PassStages /\ op[d].stage \in PassStages => c = d
    /\ \A c \in Caller : InLoop(c) => op[c].live

(* The blobs of the entries from the k-th on.                              *)
From(k) == {entries[i].hash : i \in {j \in DOMAIN entries : j >= k}}

Kept ==
    \A c \in Caller :
        /\ InLoop(c) => Hashes(entries) \subseteq From(op[c].at) \cup Hashes(op[c].remaining)
                                                 \cup Held \cup gaveUp
        /\ op[c].stage = "storing" => entry(c).hash \in Held

Accepted ==
    /\ promised \subseteq Known
    /\ \A c \in Caller :
         /\ c \in Enqueuing => \E b \in Blob : op[c].blobs = {b}
         /\ op[c].stage \in {"saving", "writing"} => op[c].blobs \subseteq Known
         /\ op[c].stage \in PassStages => op[c].blobs = {}

KeepInv == PassInv /\ Kept /\ Accepted

-----------------------------------------------------------------------------
(* Numbers and sequences *)

(* A nonempty set of natural numbers has a least element.                  *)
LEMMA MinOfNats ==
    ASSUME NEW S \in SUBSET Nat, S # {}
    PROVE  Min(S) \in S /\ \A n \in S : Min(S) <= n
<1>1. PICK m \in S : \A n \in S : ~(<<n, m>> \in OpToRel(<, Nat))
  BY NatLessThanWellFounded, WFMin
<1>2. ASSUME NEW n \in S PROVE m <= n
  <2>1. CASE n < m
    <3>1. <<n, m>> \in Nat \X Nat /\ <<n, m>>[1] < <<n, m>>[2] BY <2>1
    <3> QED BY <1>1, <3>1 DEF OpToRel
  <2> QED BY <2>1
<1> QED BY <1>2 DEF Min

(* Two to the n is a natural number: n elements have that many subsets.    *)
LEMMA PowerOfTwo == ASSUME NEW n \in Nat PROVE 2 ^ n \in Nat
<1>1. IsFiniteSet(1..n) /\ Cardinality(1..n) = n BY FS_Interval
<1>2. IsFiniteSet(SUBSET (1..n)) /\ Cardinality(SUBSET (1..n)) = 2 ^ n BY <1>1, FS_SUBSET
<1> QED BY <1>2, FS_CardinalityType

LEMMA BackoffBounded ==
    ASSUME NEW attempts \in Nat \ {0}
    PROVE  backoffDelayMs(attempts) \in 0..MaxDelay
<1> DEFINE power == 2 ^ (attempts - 1)
<1>1. power \in Nat BY PowerOfTwo
<1> HIDE DEF power
<1>2. BaseDelay * power \in Nat BY <1>1, BackoffAssumption
<1>3. backoffDelayMs(attempts) = IF BaseDelay * power <= MaxDelay THEN BaseDelay * power ELSE MaxDelay
  BY DEF backoffDelayMs, power
<1> QED BY <1>2, <1>3, BackoffAssumption

(* The entries of q behind the first a, up to the b-th.                    *)
Stretch(q, a, b) == {q[i] : i \in (a + 1)..b}

LEMMA InEntries == ASSUME NEW q PROVE Hashes(q) = {e.hash : e \in Entries(q)}
BY DEF Hashes, Entries

LEMMA EmptyQueue == <<>> \in Queue /\ Entries(<<>>) = {}
BY EmptySeq DEF Queue, Entries

LEMMA QueueEntries == ASSUME NEW q \in Queue PROVE Entries(q) \subseteq QueuedBlobFetch
<1>1. /\ DOMAIN q = 1..Len(q) /\ \A i \in 1..Len(q) : q[i] \in QueuedBlobFetch
  BY LenProperties, ElementOfSeq DEF Queue
<1> QED BY <1>1 DEF Entries

(* What a queue holds once an entry is pushed to it.                       *)
LEMMA Pushed ==
    ASSUME NEW q \in Queue, NEW e \in QueuedBlobFetch
    PROVE  /\ Append(q, e) \in Queue /\ Entries(Append(q, e)) = Entries(q) \cup {e}
           /\ Append(q, e)[Len(q) + 1] = e /\ Len(q) + 1 \in DOMAIN Append(q, e)
           /\ Len(q) \in Nat /\ DOMAIN q = 1..Len(q)
           /\ \A i \in DOMAIN q : i \in DOMAIN Append(q, e) /\ Append(q, e)[i] = q[i]
<1>1. /\ Append(q, e) \in Queue /\ Len(Append(q, e)) = Len(q) + 1 /\ Append(q, e)[Len(q) + 1] = e
      /\ \A i \in 1..Len(q) : Append(q, e)[i] = q[i]
  BY AppendProperties DEF Queue
<1>2. Len(q) \in Nat /\ DOMAIN q = 1..Len(q) /\ DOMAIN Append(q, e) = 1..(Len(q) + 1)
  BY <1>1, LenProperties DEF Queue
<1>3. Len(q) + 1 \in DOMAIN Append(q, e) BY <1>2
<1>4. \A i \in DOMAIN q : i \in DOMAIN Append(q, e) /\ Append(q, e)[i] = q[i] BY <1>1, <1>2
<1>5. \A i \in DOMAIN Append(q, e) : i \in DOMAIN q \/ i = Len(q) + 1 BY <1>2
<1>6. Entries(Append(q, e)) = Entries(q) \cup {e}
  BY <1>1, <1>3, <1>4, <1>5 DEF Entries
<1> QED BY <1>1, <1>2, <1>3, <1>4, <1>6

(* The queue q with a stretch of r put behind it.                          *)
Extended(q, r, a, b) == q \o SubSeq(r, a + 1, b)

LEMMA Joined ==
    ASSUME NEW q \in Queue, NEW r \in Queue, NEW a \in Nat, NEW b \in Nat, b <= Len(r)
    PROVE  /\ Extended(q, r, a, b) \in Queue
           /\ Entries(Extended(q, r, a, b)) = Entries(q) \cup Stretch(r, a, b)
<1> DEFINE part == SubSeq(r, a + 1, b)
           all == q \o part
<1>1. DOMAIN r = 1..Len(r) /\ \A i \in DOMAIN r : r[i] \in QueuedBlobFetch
  BY LenProperties, ElementOfSeq DEF Queue
<1>2. \A i \in (a + 1)..b : r[i] \in QueuedBlobFetch BY <1>1
<1>3. /\ part \in Queue /\ Len(part) = IF a + 1 <= b THEN b - a ELSE 0
      /\ \A i \in 1..(b - a) : part[i] = r[a + i]
  <2>1. /\ SubSeq(r, a + 1, b) \in Seq(QueuedBlobFetch)
        /\ Len(SubSeq(r, a + 1, b)) = IF a + 1 <= b THEN b - (a + 1) + 1 ELSE 0
        /\ \A i \in 1..(b - (a + 1) + 1) : SubSeq(r, a + 1, b)[i] = r[a + 1 + i - 1]
    BY <1>2, SubSeqProperties
  <2> QED BY <2>1 DEF Queue
<1> HIDE DEF part
<1>4. /\ all \in Queue /\ Len(all) = Len(q) + Len(part)
      /\ \A i \in 1..(Len(q) + Len(part)) :
           all[i] = IF i <= Len(q) THEN q[i] ELSE part[i - Len(q)]
  BY <1>3, ConcatProperties DEF Queue
<1>5. /\ Len(q) \in Nat /\ DOMAIN q = 1..Len(q)
      /\ DOMAIN all = 1..(Len(q) + Len(part))
  BY <1>4, LenProperties DEF Queue
<1> HIDE DEF all
<1>6. ASSUME NEW i \in DOMAIN all PROVE all[i] \in Entries(q) \cup {r[j] : j \in (a + 1)..b}
  <2>1. CASE i <= Len(q) BY <1>4, <1>5, <2>1 DEF Entries
  <2>2. CASE ~(i <= Len(q))
    <3>1. i - Len(q) \in 1..(b - a) BY <1>3, <1>5, <2>2
    <3>2. all[i] = r[a + (i - Len(q))] BY <1>3, <1>4, <1>5, <2>2, <3>1
    <3>3. a + (i - Len(q)) \in (a + 1)..b BY <1>5, <3>1
    <3> QED BY <3>2, <3>3
  <2> QED BY <2>1, <2>2
<1>7. ASSUME NEW i \in DOMAIN q PROVE q[i] \in Entries(all)
  <2>1. i \in DOMAIN all /\ all[i] = q[i] BY <1>3, <1>4, <1>5
  <2> QED BY <2>1 DEF Entries
<1>8. ASSUME NEW j \in (a + 1)..b PROVE r[j] \in Entries(all)
  <2>1. /\ Len(part) = b - a /\ j - a \in 1..(b - a) BY <1>3
  <2>2. /\ Len(q) + (j - a) \in DOMAIN all /\ ~(Len(q) + (j - a) <= Len(q))
        /\ Len(q) + (j - a) - Len(q) = j - a /\ a + (j - a) = j
    BY <1>5, <2>1
  <2>3. all[Len(q) + (j - a)] = r[j] BY <1>3, <1>4, <1>5, <2>1, <2>2
  <2> QED BY <2>2, <2>3 DEF Entries
<1>9. Entries(all) = Entries(q) \cup {r[i] : i \in (a + 1)..b}
  BY <1>6, <1>7, <1>8 DEF Entries
<1> QED BY <1>4, <1>9 DEF all, part, Stretch, Extended

-----------------------------------------------------------------------------
(* The loop of a pass *)

(* What a pass knows of its own array.                                     *)
LEMMA ArrayTyped ==
    ASSUME entries \in Queue, NEW o \in Call
    PROVE  array(o) \in Queue
BY DEF array, Call

(* The loop comes to the next due entry, having set aside what is before.  *)
LoopOn(c, o, i) ==
    /\ op' = [op EXCEPT ![c] =
                [o EXCEPT !.stage = "fetching", !.at = i,
                          !.remaining = Extended(@, array(o), o.at, i - 1)]]
    /\ UNCHANGED entries

(* The loop ends, and leaves what it has set aside.                        *)
LoopEnds(c, o) ==
    /\ entries' = Extended(o.remaining, array(o), o.at, Len(array(o)))
    /\ op' = [other \in Caller |->
                IF other = c
                THEN [NoOp EXCEPT !.stage = "ending", !.live = TRUE]
                ELSE [op[other] EXCEPT !.live = FALSE,
                         !.array = IF op[other].live THEN entries ELSE @]]

LEMMA LoopCases ==
    ASSUME entries \in Queue, NEW c \in Caller, NEW o \in Call, Loop(c, o)
    PROVE  \/ \E i \in DOMAIN array(o) : i > o.at /\ LoopOn(c, o, i)
           \/ LoopEnds(c, o)
<1> DEFINE due == {i \in DOMAIN array(o) : i > o.at /\ array(o)[i].next <= o.now}
<1>1. array(o) \in Queue /\ DOMAIN array(o) \subseteq Nat
  BY ArrayTyped, LenProperties DEF Queue
<1>0. IF due # {} THEN LoopOn(c, o, Min(due)) ELSE LoopEnds(c, o)
  BY Zenon DEF Loop, Continue, LoopOn, LoopEnds, Extended
<1>2. CASE due # {}
  <2>1. due \in SUBSET Nat BY <1>1
  <2>2. Min(due) \in due BY <1>2, <2>1, MinOfNats
  <2> QED BY <1>0, <1>2, <2>2
<1>3. CASE due = {} BY <1>0, <1>3
<1> QED BY <1>2, <1>3

(* What LoopOn does to the call of c, and to no other.                     *)
LEMMA OnFields ==
    ASSUME op \in [Caller -> Call], entries \in Queue, NEW c \in Caller, NEW o \in Call,
           NEW i \in DOMAIN array(o), i > o.at, LoopOn(c, o, i)
    PROVE  /\ op' \in [Caller -> Call] /\ entries' = entries
           /\ op'[c].stage = "fetching" /\ op'[c].at = i /\ op'[c].blobs = o.blobs
           /\ op'[c].live = o.live /\ op'[c].array = o.array
           /\ Entries(op'[c].remaining)
                = Entries(o.remaining) \cup Stretch(array(o), o.at, i - 1)
           /\ \A d \in Caller : d # c => op'[d] = op[d]
<1>1. /\ array(o) \in Queue /\ DOMAIN array(o) = 1..Len(array(o)) /\ Len(array(o)) \in Nat
      /\ o.at \in Nat /\ o.remaining \in Queue
  BY ArrayTyped, LenProperties DEF Queue, Call
<1> DEFINE more == Extended(o.remaining, array(o), o.at, i - 1)
<1>0. i - 1 \in Nat /\ i - 1 <= Len(array(o)) BY <1>1
<1>2. /\ more \in Queue
      /\ Entries(more) = Entries(o.remaining) \cup Stretch(array(o), o.at, i - 1)
  <2>1. \A a, b \in Nat : b <= Len(array(o)) =>
          /\ Extended(o.remaining, array(o), a, b) \in Queue
          /\ Entries(Extended(o.remaining, array(o), a, b))
               = Entries(o.remaining) \cup Stretch(array(o), a, b)
    BY <1>1, Joined
  <2> QED BY <1>0, <1>1, <2>1
<1>3. op'[c] = [o EXCEPT !.stage = "fetching", !.at = i, !.remaining = more]
  BY DEF LoopOn
<1>4. i \in Nat BY <1>1
<1> HIDE DEF more
<1>5. /\ op'[c] \in Call
      /\ op'[c].stage = "fetching" /\ op'[c].at = i /\ op'[c].blobs = o.blobs
      /\ op'[c].live = o.live /\ op'[c].array = o.array /\ op'[c].remaining = more
  BY <1>2, <1>3, <1>4 DEF Call, Stages, PassStages
<1>6. \A d \in Caller : d # c => op'[d] = op[d] BY DEF LoopOn
<1>7. op' \in [Caller -> Call] BY <1>5, <1>6 DEF LoopOn
<1> QED BY <1>2, <1>5, <1>6, <1>7 DEF LoopOn

LEMMA NoOpTyped ==
    /\ NoOp \in Call
    /\ NoOp.stage = "none" /\ NoOp.blobs = {} /\ NoOp.live = FALSE /\ NoOp.array = <<>>
    /\ NoOp.at = 0 /\ NoOp.remaining = <<>>
BY EmptyQueue, ScheduleAssumption DEF NoOp, Call, Stages, Time

(* What LoopEnds does to every call.                                       *)
LEMMA EndFields ==
    ASSUME op \in [Caller -> Call], entries \in Queue, NEW c \in Caller, NEW o \in Call,
           o.at \in 0..Len(array(o)), LoopEnds(c, o)
    PROVE  /\ op' \in [Caller -> Call] /\ entries' \in Queue
           /\ op'[c].stage = "ending" /\ op'[c].blobs = {} /\ op'[c].live
           /\ op'[c].array = <<>> /\ op'[c].remaining = <<>>
           /\ Entries(entries')
                = Entries(o.remaining) \cup Stretch(array(o), o.at, Len(array(o)))
           /\ \A d \in Caller \ {c} :
                /\ op'[d].stage = op[d].stage /\ op'[d].blobs = op[d].blobs
                /\ op'[d].at = op[d].at /\ op'[d].remaining = op[d].remaining
                /\ ~op'[d].live /\ op'[d].array = array(op[d])
<1>1. /\ array(o) \in Queue /\ Len(array(o)) \in Nat /\ Len(array(o)) <= Len(array(o))
      /\ o.at \in Nat /\ o.remaining \in Queue
  BY ArrayTyped, LenProperties DEF Queue, Call
<1>2. /\ entries' \in Queue
      /\ Entries(entries')
           = Entries(o.remaining) \cup Stretch(array(o), o.at, Len(array(o)))
  <2>1. \A a, b \in Nat : b <= Len(array(o)) =>
          /\ Extended(o.remaining, array(o), a, b) \in Queue
          /\ Entries(Extended(o.remaining, array(o), a, b))
               = Entries(o.remaining) \cup Stretch(array(o), a, b)
    BY <1>1, Joined
  <2> QED BY <1>1, <2>1 DEF LoopEnds
<1>3. op'[c] = [NoOp EXCEPT !.stage = "ending", !.live = TRUE] BY DEF LoopEnds
<1>4. /\ op'[c] \in Call /\ op'[c].stage = "ending" /\ op'[c].blobs = {} /\ op'[c].live
      /\ op'[c].array = <<>> /\ op'[c].remaining = <<>>
  BY <1>3, NoOpTyped DEF Call, Stages, PassStages
<1>5. ASSUME NEW d \in Caller, d # c
      PROVE  /\ op'[d] \in Call
             /\ op'[d].stage = op[d].stage /\ op'[d].blobs = op[d].blobs
             /\ op'[d].at = op[d].at /\ op'[d].remaining = op[d].remaining
             /\ ~op'[d].live /\ op'[d].array = array(op[d])
  <2>1. op[d] \in Call /\ array(op[d]) \in Queue BY ArrayTyped
  <2>2. op'[d] = [op[d] EXCEPT !.live = FALSE, !.array = array(op[d])]
    BY <1>5 DEF LoopEnds, array
  <2> QED BY <2>1, <2>2 DEF Call
<1>6. op' \in [Caller -> Call] BY <1>4, <1>5 DEF LoopEnds
<1> QED BY <1>2, <1>4, <1>5, <1>6

-----------------------------------------------------------------------------
(* Types *)

CallsTyped == entries \in Queue /\ op \in [Caller -> Call]

DataTyped ==
    /\ now \in Time /\ persisted \in Queue
    /\ stored \in [Blob -> {"absent", "partial", "complete"}]
    /\ promised \subseteq Blob /\ gaveUp \subseteq Blob
    /\ failures \in [Blob -> 0..MaxAttempts]

TypeInv == TypeOK /\ Reading

LEMMA TypeParts == TypeOK <=> CallsTyped /\ DataTyped
BY Zenon DEF TypeOK, CallsTyped, DataTyped

LEMMA TypeInit == Init => TypeInv
<1> SUFFICES ASSUME Init PROVE TypeInv OBVIOUS
<1>1. CallsTyped BY EmptyQueue, NoOpTyped DEF Init, CallsTyped
<1>2. DataTyped BY EmptyQueue, BackoffAssumption, ScheduleAssumption DEF Init, DataTyped, Time
<1>3. Reading BY NoOpTyped DEF Init, Reading, InLoop
<1> QED BY <1>1, <1>2, <1>3, TypeParts DEF TypeInv

(* The entry a pass is at is one of its array's.                           *)
LEMMA EntryTyped ==
    ASSUME CallsTyped, Reading, NEW c \in Caller, InLoop(c)
    PROVE  /\ op[c] \in Call /\ array(op[c]) \in Queue
           /\ op[c].at \in DOMAIN array(op[c]) /\ op[c].at \in 1..Len(array(op[c]))
           /\ entry(c) \in Entries(array(op[c])) /\ entry(c) \in QueuedBlobFetch
<1>1. op[c] \in Call /\ array(op[c]) \in Queue BY ArrayTyped DEF CallsTyped
<1>2. op[c].at \in DOMAIN array(op[c]) BY DEF Reading
<1>3. entry(c) \in Entries(array(op[c])) BY <1>2 DEF entry, Entries
<1>4. entry(c) \in QueuedBlobFetch BY <1>1, <1>3, QueueEntries
<1>5. DOMAIN array(op[c]) = 1..Len(array(op[c])) BY <1>1, LenProperties DEF Queue
<1> QED BY <1>1, <1>2, <1>3, <1>4, <1>5

(* One call goes on, and the queue stays as it is.                         *)
LEMMA Continued ==
    ASSUME CallsTyped, Reading, NEW c \in Caller, NEW o \in Call, Continue(c, o),
           UNCHANGED entries,
           o.stage = "status" => o.at = 0,
           o.stage \in {"fetching", "storing"} => o.at \in DOMAIN array(o)
    PROVE  CallsTyped' /\ Reading'
<1>1. op'[c] = o /\ \A d \in Caller : d # c => op'[d] = op[d] BY DEF Continue, CallsTyped
<1>2. op' \in [Caller -> Call] BY DEF Continue, CallsTyped
<1>3. CallsTyped' BY <1>2 DEF CallsTyped
<1>4. Reading' BY <1>1 DEF Reading, InLoop, array
<1> QED BY <1>3, <1>4

LEMMA Finished ==
    ASSUME CallsTyped, Reading, NEW c \in Caller, Finish(c), UNCHANGED entries
    PROVE  CallsTyped' /\ Reading'
BY Continued, NoOpTyped DEF Finish

(* The loop of a pass goes on, or ends.                                    *)
LEMMA Looped ==
    ASSUME CallsTyped, Reading, NEW c \in Caller, NEW o \in Call,
           o.at \in 0..Len(array(o)), Loop(c, o)
    PROVE  CallsTyped' /\ Reading'
<1>1. ASSUME NEW i \in DOMAIN array(o), i > o.at, LoopOn(c, o, i) PROVE CallsTyped' /\ Reading'
  <2>1. /\ op' \in [Caller -> Call] /\ entries' = entries
        /\ op'[c].stage = "fetching" /\ op'[c].at = i
        /\ op'[c].live = o.live /\ op'[c].array = o.array
        /\ \A d \in Caller : d # c => op'[d] = op[d]
    BY <1>1, OnFields DEF CallsTyped
  <2>2. CallsTyped' BY <2>1 DEF CallsTyped
  <2>3. Reading' BY <1>1, <2>1 DEF Reading, InLoop, array
  <2> QED BY <2>2, <2>3
<1>2. CASE LoopEnds(c, o)
  <2>1. /\ op' \in [Caller -> Call] /\ entries' \in Queue /\ op'[c].stage = "ending"
        /\ \A d \in Caller \ {c} : /\ op'[d].stage = op[d].stage /\ op'[d].at = op[d].at
                                   /\ ~op'[d].live /\ op'[d].array = array(op[d])
    BY <1>2, EndFields DEF CallsTyped
  <2>2. CallsTyped' BY <2>1 DEF CallsTyped
  <2>3. \A d \in Caller \ {c} : (array(op[d]))' = array(op[d]) BY <2>1 DEF array
  <2>4. Reading' BY <2>1, <2>3 DEF Reading, InLoop
  <2> QED BY <2>2, <2>4
<1> QED BY <1>1, <1>2, LoopCases DEF CallsTyped

(* The entry e, to be fetched again.                                       *)
Retry(e, attempts, next) == [e EXCEPT !.attempts = attempts, !.next = next]

LEMMA RetryFields ==
    ASSUME NEW e \in QueuedBlobFetch, NEW a \in 0..(MaxAttempts - 1),
           NEW n \in 0..(MaxTime + MaxDelay)
    PROVE  /\ Retry(e, a, n) \in QueuedBlobFetch
           /\ Retry(e, a, n).hash = e.hash /\ Retry(e, a, n).attempts = a
BY DEF QueuedBlobFetch, Retry

(* Whatever a failed fetch sets aside is an entry of the queue.            *)
LEMMA RetryTyped ==
    ASSUME CallsTyped, DataTyped, Reading, NEW c \in Caller, InLoop(c),
           NEW attempts, attempts = entry(c).attempts + 1, ~exhausted(attempts)
    PROVE  \E retry \in QueuedBlobFetch :
             /\ retry = Retry(entry(c), attempts, op[c].now + backoffDelayMs(attempts))
             /\ retry.hash = entry(c).hash /\ retry.attempts = attempts
<1>1. entry(c) \in QueuedBlobFetch /\ op[c] \in Call BY EntryTyped
<1>2. attempts \in Nat \ {0} /\ attempts \in 0..(MaxAttempts - 1)
  BY <1>1, BackoffAssumption DEF QueuedBlobFetch, exhausted
<1>3. backoffDelayMs(attempts) \in 0..MaxDelay BY <1>2, BackoffBounded
<1> DEFINE next == op[c].now + backoffDelayMs(attempts)
<1>4. next \in 0..(MaxTime + MaxDelay)
  BY <1>1, <1>3, BackoffAssumption, ScheduleAssumption DEF Call, Time
<1> HIDE DEF next
<1> QED BY <1>1, <1>2, <1>4, RetryFields DEF next

(* A failed fetch drops the entry, or sets it aside with one attempt more. *)
LEMMA FailedFetch ==
    ASSUME CallsTyped, DataTyped, Reading, NEW c \in Caller, FetchFails(c)
    PROVE  /\ InLoop(c)
           /\ failures' = [failures EXCEPT ![entry(c).hash] = IF @ < MaxAttempts THEN @ + 1 ELSE @]
           /\ \/ /\ exhausted(entry(c).attempts + 1)
                 /\ gaveUp' = gaveUp \cup {entry(c).hash}
                 /\ Loop(c, op[c])
              \/ /\ gaveUp' = gaveUp
                 /\ \E o \in Call : 
                      /\ Loop(c, o)
                      /\ o.at = op[c].at /\ o.blobs = op[c].blobs
                      /\ o.live = op[c].live /\ o.array = op[c].array
                      /\ \E retry \in QueuedBlobFetch :
                           /\ retry.hash = entry(c).hash
                           /\ retry.attempts = entry(c).attempts + 1
                           /\ Entries(o.remaining) = Entries(op[c].remaining) \cup {retry}
<1> DEFINE attempts == entry(c).attempts + 1
           next == op[c].now + backoffDelayMs(attempts)
<1>1. InLoop(c) /\ op[c] \in Call BY EntryTyped DEF FetchFails, InLoop
<1>2. failures' = [failures EXCEPT ![entry(c).hash] = IF @ < MaxAttempts THEN @ + 1 ELSE @]
  BY DEF FetchFails
<1>3. CASE exhausted(attempts) BY <1>1, <1>2, <1>3, Zenon DEF FetchFails
<1>4. CASE ~exhausted(attempts)
  <2>1. PICK retry \in QueuedBlobFetch :
          /\ retry = Retry(entry(c), attempts, next)
          /\ retry.hash = entry(c).hash /\ retry.attempts = attempts
    BY <1>1, <1>4, RetryTyped
  <2> DEFINE o == [op[c] EXCEPT !.remaining = Append(@, retry)]
  <2>2. gaveUp' = gaveUp /\ Loop(c, o) BY <1>4, <2>1, Zenon DEF FetchFails, Retry
  <2>3. op[c].remaining \in Queue BY <1>1 DEF Call
  <2>4. /\ Append(op[c].remaining, retry) \in Queue
        /\ Entries(Append(op[c].remaining, retry)) = Entries(op[c].remaining) \cup {retry}
    BY <2>3, Pushed
  <2>5. /\ o \in Call /\ o.at = op[c].at /\ o.blobs = op[c].blobs
        /\ o.live = op[c].live /\ o.array = op[c].array
        /\ o.remaining = Append(op[c].remaining, retry)
    BY <1>1, <2>4 DEF Call
  <2> HIDE DEF o, attempts, next
  <2>6. \E p \in Call : 
          /\ Loop(c, p)
          /\ p.at = op[c].at /\ p.blobs = op[c].blobs
          /\ p.live = op[c].live /\ p.array = op[c].array
          /\ \E r \in QueuedBlobFetch :
               /\ r.hash = entry(c).hash /\ r.attempts = attempts
               /\ Entries(p.remaining) = Entries(op[c].remaining) \cup {r}
    BY <2>1, <2>2, <2>4, <2>5
  <2> QED BY <1>1, <1>2, <2>2, <2>6, Zenon DEF attempts
<1> QED BY <1>3, <1>4

LEMMA CallsNext == TypeInv /\ [Next]_vars => CallsTyped' /\ Reading'
<1> SUFFICES ASSUME CallsTyped, DataTyped, Reading, [Next]_vars PROVE CallsTyped' /\ Reading'
  BY TypeParts DEF TypeInv
<1>0. ASSUME NEW c \in Caller PROVE op[c] \in Call /\ array(op[c]) \in Queue
  BY ArrayTyped DEF CallsTyped
<1>1. ASSUME NEW c \in Caller, NEW b \in Blob, enqueue(c, b) PROVE CallsTyped' /\ Reading'
  <2> DEFINE o == [NoOp EXCEPT !.stage = "checking", !.blobs = {b}]
  <2>1. o \in Call /\ o.stage = "checking" BY NoOpTyped DEF Call, Stages
  <2> HIDE DEF o
  <2> QED BY <1>1, <2>1, Continued DEF enqueue, o
<1>2. ASSUME NEW c \in Caller, EnqueueChecked(c) PROVE CallsTyped' /\ Reading'
  <2> DEFINE o == [op[c] EXCEPT !.stage = "pushing"]
  <2>1. o \in Call /\ o.stage = "pushing" BY <1>0 DEF Call, Stages
  <2> HIDE DEF o
  <2>2. Finish(c) \/ Continue(c, o) BY <1>2 DEF EnqueueChecked, o
  <2> QED BY <1>2, <2>1, <2>2, Continued, Finished DEF EnqueueChecked
<1>3. ASSUME NEW c \in Caller, EnqueuePush(c) PROVE CallsTyped' /\ Reading'
  <2>1. PICK b \in op[c].blobs : entries' = Append(entries, [hash |-> b, attempts |-> 0, next |-> now])
    BY <1>3 DEF EnqueuePush
  <2>2. [hash |-> b, attempts |-> 0, next |-> now] \in QueuedBlobFetch
    <3>1. b \in Blob BY <1>0 DEF Call
    <3>2. now \in 0..(MaxTime + MaxDelay)
      BY BackoffAssumption, ScheduleAssumption DEF DataTyped, Time
    <3> QED BY <3>1, <3>2, BackoffAssumption DEF QueuedBlobFetch
  <2>3. entries' \in Queue /\ \A i \in DOMAIN entries : i \in DOMAIN entries'
    BY <2>1, <2>2, Pushed DEF CallsTyped
  <2>4. op'[c] = [op[c] EXCEPT !.stage = "saving", !.live = TRUE]
    BY <1>3 DEF EnqueuePush, Continue, CallsTyped
  <2>5. op'[c] \in Call /\ op'[c].stage = "saving" BY <1>0, <2>4 DEF Call, Stages
  <2>6. \A d \in Caller : d # c => op'[d] = op[d] BY <1>3 DEF EnqueuePush, Continue, CallsTyped
  <2>7. op' \in [Caller -> Call] BY <1>3, <2>5 DEF EnqueuePush, Continue, CallsTyped
  <2>8. Reading' BY <2>3, <2>5, <2>6 DEF Reading, InLoop, array
  <2> QED BY <2>3, <2>7, <2>8 DEF CallsTyped
<1>4. ASSUME NEW c \in Caller, SaveSerialise(c) PROVE CallsTyped' /\ Reading'
  <2> DEFINE stage == IF op[c].stage = "saving" THEN "writing" ELSE "writing the rest"
             o == [NoOp EXCEPT !.blobs = op[c].blobs, !.array = array(op[c]), !.stage = stage]
  <2>1. stage \in {"writing", "writing the rest"} OBVIOUS
  <2>2. op[c].blobs \subseteq Blob /\ array(op[c]) \in Queue BY <1>0 DEF Call
  <2> HIDE DEF stage
  <2>3. o \in Call /\ o.stage = stage BY <2>1, <2>2, NoOpTyped DEF Call, Stages, PassStages
  <2>4. Continue(c, o) BY <1>4 DEF SaveSerialise, stage
  <2> HIDE DEF o
  <2> QED BY <1>4, <2>1, <2>3, <2>4, Continued DEF SaveSerialise
<1>5. ASSUME NEW c \in Caller, SaveRename(c) \/ SaveRejects(c) \/ PutRejects(c)
      PROVE  CallsTyped' /\ Reading'
  BY <1>5, Finished DEF SaveRename, SaveRejects, PutRejects
<1>6. ASSUME NEW c \in Caller, processDue(c) PROVE CallsTyped' /\ Reading'
  <2> DEFINE o == [NoOp EXCEPT !.stage = "status", !.now = now]
  <2>1. o \in Call /\ o.stage = "status" /\ o.at = 0
    BY NoOpTyped DEF Call, Stages, PassStages, DataTyped
  <2> HIDE DEF o
  <2> QED BY <1>6, <2>1, Continued DEF processDue, o
<1>7. ASSUME NEW c \in Caller, PassBegin(c) PROVE CallsTyped' /\ Reading'
  <2> DEFINE o == [op[c] EXCEPT !.live = TRUE]
  <2>1. o \in Call /\ o.at = op[c].at BY <1>0 DEF Call
  <2>2. op[c].at = 0 BY <1>7 DEF PassBegin, Reading
  <2>3. Loop(c, o) \/ (Finish(c) /\ UNCHANGED entries) BY <1>7 DEF PassBegin
  <2> HIDE DEF o
  <2>4. o.at \in 0..Len(array(o)) BY <2>1, <2>2, ArrayTyped, LenProperties DEF CallsTyped, Queue
  <2> QED BY <2>1, <2>3, <2>4, Looped, Finished
<1>8. ASSUME NEW c \in Caller, FetchFails(c) PROVE CallsTyped' /\ Reading'
  <2>1. InLoop(c) BY <1>8 DEF FetchFails, InLoop
  <2>2. op[c].at \in 0..Len(array(op[c])) BY <2>1, EntryTyped
  <2>3. CASE Loop(c, op[c]) BY <1>0, <2>2, <2>3, Looped
  <2>4. ASSUME NEW o \in Call, Loop(c, o), o.at = op[c].at, o.live = op[c].live,
               o.array = op[c].array
        PROVE  CallsTyped' /\ Reading'
    <3>1. array(o) = array(op[c]) BY <2>4 DEF array
    <3> QED BY <2>2, <2>4, <3>1, Looped
  <2> QED BY <1>8, <2>3, <2>4, FailedFetch
<1>9. ASSUME NEW c \in Caller, FetchSucceeds(c) PROVE CallsTyped' /\ Reading'
  <2> DEFINE o == [op[c] EXCEPT !.stage = "storing"]
  <2>1. /\ o \in Call /\ o.stage = "storing" /\ o.at = op[c].at
        /\ o.live = op[c].live /\ o.array = op[c].array
    BY <1>0 DEF Call, Stages, PassStages
  <2>2. op[c].at \in DOMAIN array(op[c]) BY <1>9, EntryTyped DEF FetchSucceeds, InLoop
  <2>3. Continue(c, o) /\ UNCHANGED entries BY <1>9 DEF FetchSucceeds
  <2> HIDE DEF o
  <2>4. array(o) = array(op[c]) BY <2>1 DEF array
  <2> QED BY <2>1, <2>2, <2>3, <2>4, Continued
<1>10. ASSUME NEW c \in Caller, PutDone(c) PROVE CallsTyped' /\ Reading'
  <2>1. InLoop(c) /\ Loop(c, op[c]) BY <1>10 DEF PutDone, InLoop
  <2> QED BY <1>0, <2>1, EntryTyped, Looped
<1>11. CASE Restart
  <2>1. CallsTyped' BY <1>11, NoOpTyped DEF Restart, CallsTyped, DataTyped
  <2>2. Reading' BY <1>11, NoOpTyped DEF Restart, Reading, InLoop
  <2> QED BY <2>1, <2>2
<1>12. CASE Tick \/ UNCHANGED vars
  BY <1>12 DEF Tick, vars, CallsTyped, Reading, InLoop, array
<1> QED
  BY <1>1, <1>2, <1>3, <1>4, <1>5, <1>6, <1>7, <1>8, <1>9, <1>10, <1>11, <1>12 DEF Next

LEMMA DataNext == TypeInv /\ [Next]_vars => DataTyped'
<1> SUFFICES ASSUME CallsTyped, DataTyped, Reading, [Next]_vars PROVE DataTyped'
  BY TypeParts DEF TypeInv
<1> USE DEF DataTyped
<1>1. ASSUME NEW c \in Caller,
             \/ \E b \in Blob : enqueue(c, b)
             \/ EnqueueChecked(c) \/ EnqueuePush(c) \/ SaveSerialise(c) \/ SaveRejects(c)
             \/ processDue(c) \/ PassBegin(c) \/ PutRejects(c)
      PROVE  DataTyped'
  BY <1>1 DEF enqueue, EnqueueChecked, EnqueuePush, SaveSerialise, SaveRejects, processDue,
              PassBegin, PutRejects
<1>2. ASSUME NEW c \in Caller, SaveRename(c) PROVE DataTyped'
  <2>1. op[c].array \in Queue /\ op[c].blobs \subseteq Blob BY DEF CallsTyped, Call
  <2> QED BY <1>2, <2>1 DEF SaveRename
<1>3. ASSUME NEW c \in Caller, InLoop(c) PROVE entry(c).hash \in Blob
  BY <1>3, EntryTyped DEF QueuedBlobFetch
<1>4. ASSUME NEW c \in Caller, FetchFails(c) PROVE DataTyped'
  <2>1. /\ InLoop(c)
        /\ failures' = [failures EXCEPT ![entry(c).hash] = IF @ < MaxAttempts THEN @ + 1 ELSE @]
        /\ gaveUp' = gaveUp \cup {entry(c).hash} \/ gaveUp' = gaveUp
    BY <1>4, FailedFetch
  <2>2. UNCHANGED <<now, persisted, stored, promised>> BY <1>4 DEF FetchFails
  <2>3. entry(c).hash \in Blob BY <2>1, <1>3
  <2>4. failures' \in [Blob -> 0..MaxAttempts] BY <2>1, <2>3, BackoffAssumption
  <2> QED BY <2>1, <2>2, <2>3, <2>4
<1>5. ASSUME NEW c \in Caller, FetchSucceeds(c) PROVE DataTyped'
  BY <1>3, <1>5 DEF FetchSucceeds, InLoop
<1>6. ASSUME NEW c \in Caller, PutDone(c) PROVE DataTyped' BY <1>3, <1>6 DEF PutDone, InLoop
<1>7. CASE Restart
  <2>1. Hashes(persisted) \subseteq Blob BY InEntries, QueueEntries DEF QueuedBlobFetch
  <2> QED BY <1>7, <2>1 DEF Restart
<1>8. CASE Tick BY <1>8, ScheduleAssumption DEF Tick, Time
<1>9. CASE UNCHANGED vars BY <1>9 DEF vars
<1> QED BY <1>1, <1>2, <1>4, <1>5, <1>6, <1>7, <1>8, <1>9 DEF Next

LEMMA TypeNext == TypeInv /\ [Next]_vars => TypeInv'
<1> SUFFICES ASSUME TypeInv, [Next]_vars PROVE TypeInv' OBVIOUS
<1>1. CallsTyped' /\ DataTyped' /\ Reading' BY CallsNext, DataNext
<1> QED BY <1>1, TypeParts, PTL DEF TypeInv

(* The queue, the calls in progress and the files keep their types,        *)
(* however passes overlap.                                                 *)
THEOREM TypeCorrect == Spec => []TypeOK
<1>1. TypeInv => TypeOK BY DEF TypeInv
<1> QED BY <1>1, TypeInit, TypeNext, PTL DEF Spec

-----------------------------------------------------------------------------
(* Every attempt an entry counts was a failed fetch of its blob            *)

LEMMA FailuresGrow ==
    ASSUME TypeInv, [Next]_vars
    PROVE  \A b \in Blob : failures'[b] >= failures[b]
<1>0. CallsTyped /\ DataTyped /\ Reading BY TypeParts DEF TypeInv
<1>1. CASE UNCHANGED failures BY <1>0, <1>1, BackoffAssumption DEF DataTyped
<1>2. ASSUME NEW c \in Caller, FetchFails(c) PROVE \A b \in Blob : failures'[b] >= failures[b]
  BY <1>0, <1>2, FailedFetch, BackoffAssumption DEF DataTyped
<1> QED
  BY <1>1, <1>2
  DEF Next, vars, enqueue, EnqueueChecked, EnqueuePush, SaveSerialise, SaveRename, SaveRejects,
      processDue, PassBegin, FetchSucceeds, PutDone, PutRejects, Restart, Tick

LEMMA StretchEntries ==
    ASSUME NEW q \in Queue, NEW a \in Nat, NEW b \in Nat, b <= Len(q)
    PROVE  Stretch(q, a, b) \subseteq Entries(q)
<1>1. DOMAIN q = 1..Len(q) BY LenProperties DEF Queue
<1> QED BY <1>1 DEF Stretch, Entries

(* The array a call reads is recorded.                                     *)
LEMMA ArrayRecorded ==
    ASSUME NEW c \in Caller, NEW e \in Entries(array(op[c]))
    PROVE  Recorded(e)
BY DEF array, Recorded

(* The loop records nothing but what it has set aside and what it read.    *)
LEMMA LoopRecords ==
    ASSUME CallsTyped, NEW c \in Caller, NEW o \in Call, Loop(c, o), UNCHANGED persisted,
           o.at \in 0..Len(array(o)), array(o) = array(op[c]) \/ array(o) = entries,
           o.array = op[c].array,
           NEW e, Recorded(e)'
    PROVE  Recorded(e) \/ e \in Entries(o.remaining)
<1>1. /\ array(o) \in Queue /\ Len(array(o)) \in Nat /\ o.at \in Nat
      /\ DOMAIN array(o) = 1..Len(array(o))
  BY ArrayTyped, LenProperties DEF CallsTyped, Call, Queue
<1>2. ASSUME e \in Entries(array(o)) PROVE Recorded(e) BY <1>2, ArrayRecorded DEF Recorded
<1>3. ASSUME NEW i \in DOMAIN array(o), i > o.at, LoopOn(c, o, i)
      PROVE  Recorded(e) \/ e \in Entries(o.remaining)
  <2>1. /\ entries' = entries /\ op'[c].array = op[c].array
        /\ Entries(op'[c].remaining) = Entries(o.remaining) \cup Stretch(array(o), o.at, i - 1)
        /\ \A d \in Caller : d # c => op'[d] = op[d]
    BY <1>3, OnFields DEF CallsTyped
  <2>2. i - 1 \in Nat /\ i - 1 <= Len(array(o)) BY <1>1
  <2>3. Stretch(array(o), o.at, i - 1) \subseteq Entries(array(o)) BY <1>1, <2>2, StretchEntries
  <2> QED BY <1>2, <2>1, <2>3 DEF Recorded
<1>4. CASE LoopEnds(c, o)
  <2>1. /\ op'[c].array = <<>> /\ op'[c].remaining = <<>>
        /\ Entries(entries') = Entries(o.remaining) \cup Stretch(array(o), o.at, Len(array(o)))
        /\ \A d \in Caller \ {c} : /\ op'[d].remaining = op[d].remaining
                                   /\ op'[d].array = array(op[d])
    BY <1>4, EndFields DEF CallsTyped
  <2>2. Len(array(o)) <= Len(array(o)) BY <1>1
  <2>3. Stretch(array(o), o.at, Len(array(o))) \subseteq Entries(array(o))
    BY <1>1, <2>2, StretchEntries
  <2> QED BY <1>2, <2>1, <2>3, EmptyQueue, ArrayRecorded DEF Recorded
<1> QED BY <1>3, <1>4, LoopCases DEF CallsTyped

(* A step records no entry that was not recorded, but for a new one, and   *)
(* the retry of a failed fetch.                                            *)
LEMMA RecordedNext ==
    ASSUME TypeInv, [Next]_vars, NEW e, Recorded(e)'
    PROVE  \/ Recorded(e)
           \/ e.attempts = 0
           \/ \E c \in Caller : /\ FetchFails(c) /\ e.hash = entry(c).hash
                                /\ e.attempts = entry(c).attempts + 1
<1>0. CallsTyped /\ DataTyped /\ Reading BY TypeParts DEF TypeInv
<1> USE <1>0
<1>1. ASSUME NEW c \in Caller, NEW o \in Call, Continue(c, o), UNCHANGED <<entries, persisted>>,
             o.array = op[c].array \/ o.array = <<>> \/ o.array = array(op[c]),
             o.remaining = op[c].remaining \/ o.remaining = <<>>
      PROVE  Recorded(e)
  <2>1. op'[c] = o /\ \A d \in Caller : d # c => op'[d] = op[d]
    BY <1>1 DEF Continue, CallsTyped
  <2> QED BY <1>1, <2>1, EmptyQueue, ArrayRecorded DEF Recorded
<1>2. ASSUME NEW c \in Caller, Finish(c), UNCHANGED <<entries, persisted>> PROVE Recorded(e)
  BY <1>1, <1>2, NoOpTyped DEF Finish
<1>3. ASSUME NEW c \in Caller, NEW b \in Blob, enqueue(c, b) PROVE Recorded(e)
  <2> DEFINE o == [NoOp EXCEPT !.stage = "checking", !.blobs = {b}]
  <2>1. o \in Call /\ o.array = <<>> /\ o.remaining = <<>> BY NoOpTyped DEF Call, Stages
  <2> HIDE DEF o
  <2> QED BY <1>1, <1>3, <2>1 DEF enqueue, o
<1>4. ASSUME NEW c \in Caller, EnqueueChecked(c) PROVE Recorded(e)
  <2> DEFINE o == [op[c] EXCEPT !.stage = "pushing"]
  <2>1. o \in Call /\ o.array = op[c].array /\ o.remaining = op[c].remaining
    BY DEF CallsTyped, Call, Stages
  <2> HIDE DEF o
  <2>2. Finish(c) \/ Continue(c, o) BY <1>4 DEF EnqueueChecked, o
  <2> QED BY <1>1, <1>2, <1>4, <2>1, <2>2 DEF EnqueueChecked
<1>5. ASSUME NEW c \in Caller, EnqueuePush(c) PROVE Recorded(e) \/ e.attempts = 0
  <2>1. PICK b \in op[c].blobs : entries' = Append(entries, [hash |-> b, attempts |-> 0, next |-> now])
    BY <1>5 DEF EnqueuePush
  <2> DEFINE new == [hash |-> b, attempts |-> 0, next |-> now]
  <2>2. new \in QueuedBlobFetch
    <3>1. b \in Blob BY DEF CallsTyped, Call
    <3>2. now \in 0..(MaxTime + MaxDelay)
      BY BackoffAssumption, ScheduleAssumption DEF DataTyped, Time
    <3> QED BY <3>1, <3>2, BackoffAssumption DEF QueuedBlobFetch
  <2>3. new.attempts = 0 OBVIOUS
  <2> HIDE DEF new
  <2>4. Entries(entries') = Entries(entries) \cup {new} BY <2>1, <2>2, Pushed DEF CallsTyped, new
  <2>5. op'[c] = [op[c] EXCEPT !.stage = "saving", !.live = TRUE]
    BY <1>5 DEF EnqueuePush, Continue, CallsTyped
  <2>6. op'[c].array = op[c].array /\ op'[c].remaining = op[c].remaining
    BY <2>5 DEF CallsTyped, Call
  <2>7. persisted' = persisted /\ \A d \in Caller : d # c => op'[d] = op[d]
    BY <1>5 DEF EnqueuePush, Continue, CallsTyped
  <2> QED BY <2>3, <2>4, <2>6, <2>7 DEF Recorded
<1>6. ASSUME NEW c \in Caller, SaveSerialise(c) PROVE Recorded(e)
  <2> DEFINE stage == IF op[c].stage = "saving" THEN "writing" ELSE "writing the rest"
             o == [NoOp EXCEPT !.blobs = op[c].blobs, !.array = array(op[c]), !.stage = stage]
  <2>1. stage \in {"writing", "writing the rest"} OBVIOUS
  <2>2. op[c].blobs \subseteq Blob /\ array(op[c]) \in Queue
    BY ArrayTyped DEF CallsTyped, Call
  <2> HIDE DEF stage
  <2>3. o \in Call /\ o.array = array(op[c]) /\ o.remaining = <<>>
    BY <2>1, <2>2, NoOpTyped DEF Call, Stages, PassStages
  <2>4. Continue(c, o) BY <1>6 DEF SaveSerialise, stage
  <2> HIDE DEF o
  <2> QED BY <1>1, <1>6, <2>3, <2>4 DEF SaveSerialise
<1>7. ASSUME NEW c \in Caller, SaveRename(c) PROVE Recorded(e)
  <2>1. op'[c] = NoOp /\ \A d \in Caller : d # c => op'[d] = op[d]
    BY <1>7 DEF SaveRename, Finish, Continue, CallsTyped
  <2>2. persisted' = op[c].array /\ entries' = entries BY <1>7 DEF SaveRename
  <2> QED BY <2>1, <2>2, NoOpTyped, EmptyQueue DEF Recorded
<1>8. ASSUME NEW c \in Caller, SaveRejects(c) \/ PutRejects(c) PROVE Recorded(e)
  BY <1>2, <1>8 DEF SaveRejects, PutRejects
<1>9. ASSUME NEW c \in Caller, processDue(c) PROVE Recorded(e)
  <2> DEFINE o == [NoOp EXCEPT !.stage = "status", !.now = now]
  <2>1. o \in Call /\ o.array = <<>> /\ o.remaining = <<>>
    BY NoOpTyped DEF Call, Stages, PassStages, DataTyped
  <2> HIDE DEF o
  <2> QED BY <1>1, <1>9, <2>1 DEF processDue, o
<1>10. ASSUME NEW c \in Caller, PassBegin(c) PROVE Recorded(e)
  <2> DEFINE o == [op[c] EXCEPT !.live = TRUE]
  <2>1. /\ o \in Call /\ o.at = op[c].at /\ o.live /\ o.array = op[c].array
        /\ o.remaining = op[c].remaining
    BY DEF CallsTyped, Call
  <2>2. op[c].at = 0 BY <1>10 DEF PassBegin, Reading
  <2>3. (Loop(c, o) \/ (Finish(c) /\ UNCHANGED entries)) /\ UNCHANGED persisted
    BY <1>10 DEF PassBegin
  <2> HIDE DEF o
  <2>4. array(o) = entries BY <2>1 DEF array
  <2>5. o.at \in 0..Len(array(o)) BY <2>1, <2>2, ArrayTyped, LenProperties DEF CallsTyped, Queue
  <2>6. ASSUME e \in Entries(o.remaining) PROVE Recorded(e) BY <2>1, <2>6 DEF Recorded
  <2> QED BY <1>2, <2>1, <2>3, <2>4, <2>5, <2>6, LoopRecords
<1>11. ASSUME NEW c \in Caller, FetchSucceeds(c) PROVE Recorded(e)
  <2> DEFINE o == [op[c] EXCEPT !.stage = "storing"]
  <2>1. o \in Call /\ o.array = op[c].array /\ o.remaining = op[c].remaining
    BY DEF CallsTyped, Call, Stages, PassStages
  <2> HIDE DEF o
  <2> QED BY <1>1, <1>11, <2>1 DEF FetchSucceeds, o
<1>12. ASSUME NEW c \in Caller, PutDone(c) PROVE Recorded(e)
  <2>1. InLoop(c) /\ Loop(c, op[c]) /\ UNCHANGED persisted BY <1>12 DEF PutDone, InLoop
  <2>2. op[c] \in Call /\ op[c].at \in 0..Len(array(op[c])) BY <2>1, EntryTyped
  <2> QED BY <2>1, <2>2, LoopRecords DEF Recorded
<1>13. ASSUME NEW c \in Caller, FetchFails(c)
       PROVE  Recorded(e) \/ (e.hash = entry(c).hash /\ e.attempts = entry(c).attempts + 1)
  <2>1. InLoop(c) /\ UNCHANGED persisted BY <1>13 DEF FetchFails, InLoop
  <2>2. op[c] \in Call /\ op[c].at \in 0..Len(array(op[c])) BY <2>1, EntryTyped
  <2>3. CASE Loop(c, op[c]) BY <2>1, <2>2, <2>3, LoopRecords DEF Recorded
  <2>4. ASSUME NEW o \in Call, Loop(c, o), o.at = op[c].at, o.live = op[c].live,
               o.array = op[c].array, NEW retry, retry.hash = entry(c).hash,
               retry.attempts = entry(c).attempts + 1,
               Entries(o.remaining) = Entries(op[c].remaining) \cup {retry}
        PROVE  Recorded(e) \/ (e.hash = entry(c).hash /\ e.attempts = entry(c).attempts + 1)
    <3>1. array(o) = array(op[c]) BY <2>4 DEF array
    <3>2. Recorded(e) \/ e \in Entries(o.remaining) BY <2>1, <2>2, <2>4, <3>1, LoopRecords
    <3> QED BY <2>4, <3>2 DEF Recorded
  <2> QED BY <1>13, <2>3, <2>4, FailedFetch
<1>14. CASE Restart BY <1>14, NoOpTyped, EmptyQueue DEF Restart, Recorded
<1>15. CASE Tick \/ UNCHANGED vars BY <1>15 DEF Tick, vars, Recorded
<1> QED
  BY <1>3, <1>4, <1>5, <1>6, <1>7, <1>8, <1>9, <1>10, <1>11, <1>12, <1>13, <1>14, <1>15 DEF Next

LEMMA CountedInit == Init => AttemptsCounted
BY NoOpTyped, EmptyQueue DEF Init, AttemptsCounted, Recorded

LEMMA CountedNext == TypeInv /\ AttemptsCounted /\ [Next]_vars => AttemptsCounted'
<1> SUFFICES ASSUME TypeInv, AttemptsCounted, [Next]_vars, NEW e \in QueuedBlobFetch, Recorded(e)'
             PROVE  e.attempts <= failures'[e.hash]
  BY DEF AttemptsCounted
<1>0. CallsTyped /\ DataTyped /\ Reading /\ DataTyped' BY TypeParts, DataNext DEF TypeInv
<1>1. e.hash \in Blob /\ e.attempts \in 0..(MaxAttempts - 1) BY DEF QueuedBlobFetch
<1>2. failures[e.hash] \in Nat /\ failures'[e.hash] \in Nat BY <1>0, <1>1 DEF DataTyped
<1>3. CASE Recorded(e) BY <1>1, <1>2, <1>3, FailuresGrow DEF AttemptsCounted
<1>4. CASE e.attempts = 0 BY <1>2, <1>4
<1>5. ASSUME NEW c \in Caller, FetchFails(c), e.hash = entry(c).hash,
             e.attempts = entry(c).attempts + 1
      PROVE  e.attempts <= failures'[e.hash]
  <2>1. InLoop(c) BY <1>5 DEF FetchFails, InLoop
  <2>2. entry(c) \in QueuedBlobFetch /\ Recorded(entry(c))
    BY <1>0, <2>1, EntryTyped, ArrayRecorded
  <2>3. entry(c).attempts \in Nat /\ entry(c).attempts <= failures[e.hash]
    BY <1>5, <2>2 DEF AttemptsCounted, QueuedBlobFetch
  <2>4. failures'[e.hash] = IF failures[e.hash] < MaxAttempts THEN failures[e.hash] + 1
                                                              ELSE failures[e.hash]
    BY <1>0, <1>1, <1>5, FailedFetch DEF DataTyped
  <2> QED BY <1>1, <1>2, <1>5, <2>3, <2>4, BackoffAssumption
<1> QED BY <1>3, <1>4, <1>5, RecordedNext

LEMMA GivesUpLate ==
    TypeInv /\ AttemptsCounted /\ [Next]_vars
        => [\A b \in gaveUp' \ gaveUp : failures'[b] = MaxAttempts]_vars
<1> SUFFICES ASSUME TypeInv, AttemptsCounted, Next, NEW b \in gaveUp' \ gaveUp
             PROVE  failures'[b] = MaxAttempts
  BY DEF vars
<1>0. CallsTyped /\ DataTyped /\ Reading BY TypeParts DEF TypeInv
<1>1. PICK c \in Caller : FetchFails(c)
  BY DEF Next, enqueue, EnqueueChecked, EnqueuePush, SaveSerialise, SaveRename, SaveRejects,
         processDue, PassBegin, FetchSucceeds, PutDone, PutRejects, Restart, Tick
<1>2. /\ InLoop(c) /\ exhausted(entry(c).attempts + 1) /\ b = entry(c).hash
      /\ failures' = [failures EXCEPT ![entry(c).hash] = IF @ < MaxAttempts THEN @ + 1 ELSE @]
  BY <1>0, <1>1, FailedFetch
<1>3. entry(c) \in QueuedBlobFetch /\ Recorded(entry(c))
  BY <1>0, <1>2, EntryTyped, ArrayRecorded
<1>4. /\ b \in Blob /\ entry(c).attempts \in 0..(MaxAttempts - 1)
      /\ entry(c).attempts <= failures[b] /\ failures[b] \in 0..MaxAttempts
  BY <1>0, <1>2, <1>3 DEF AttemptsCounted, QueuedBlobFetch, DataTyped
<1>5. failures'[b] = IF failures[b] < MaxAttempts THEN failures[b] + 1 ELSE failures[b]
  BY <1>0, <1>2, <1>4 DEF DataTyped
<1> QED BY <1>2, <1>4, <1>5, BackoffAssumption DEF exhausted

(* A blob is given up only when the fetch of it has failed as often as     *)
(* BackoffConfig allows, however passes overlap and whatever a restart     *)
(* brings back.                                                            *)
THEOREM GivesUpOnlyWhenExhausted == Spec => NeverGivesUpEarly
<1>1. TypeInv /\ AttemptsCounted /\ [Next]_vars => TypeInv' /\ AttemptsCounted'
  BY TypeNext, CountedNext
<1> QED
  BY <1>1, TypeInit, CountedInit, GivesUpLate, PTL DEF Spec, NeverGivesUpEarly

-----------------------------------------------------------------------------
(* Nothing is forgotten when passes do not overlap                         *)

LEMMA KeepInit == Init => KeepInv
BY NoOpTyped, EmptyQueue
DEF Init, KeepInv, PassInv, Kept, Accepted, InLoop, Enqueuing, PassStages, Known

(* The queue from its k-th entry on, with one stretch dealt with.          *)
LEMMA FromStretch ==
    ASSUME entries \in Queue, NEW a \in Nat, NEW i \in Nat, i - 1 <= Len(entries), i > a
    PROVE  \A h \in From(a + 1) :
             h \in From(i) \/ \E e \in Stretch(entries, a, i - 1) : h = e.hash
<1>1. DOMAIN entries = 1..Len(entries) /\ Len(entries) \in Nat BY LenProperties DEF Queue
<1> SUFFICES ASSUME NEW j \in DOMAIN entries, j >= a + 1, j < i
             PROVE  entries[j] \in Stretch(entries, a, i - 1)
  BY <1>1 DEF From
<1> QED BY <1>1 DEF Stretch

(* From an entry on, there is the entry and what is behind it.             *)
LEMMA FromNext ==
    ASSUME entries \in Queue, NEW k \in DOMAIN entries
    PROVE  From(k) \subseteq From(k + 1) \cup {entries[k].hash}
<1>1. DOMAIN entries = 1..Len(entries) BY LenProperties DEF Queue
<1> QED BY <1>1 DEF From

(* Nothing that is known becomes unknown but by being dropped from the     *)
(* queue.                                                                  *)
LEMMA StillKnown ==
    ASSUME Hashes(entries) \subseteq Hashes(entries') \cup Held' \cup gaveUp',
           Held \subseteq Held', gaveUp \subseteq Hashes(entries') \cup gaveUp'
    PROVE  Known \subseteq Known'
BY DEF Known

(* A call goes on that is not in the loop of a pass, or only begins to     *)
(* store what it has fetched.                                              *)
LEMMA KeepContinued ==
    ASSUME CallsTyped, Reading, KeepInv, NEW c \in Caller, NEW o \in Call, Continue(c, o),
           UNCHANGED <<entries, gaveUp>>, Held \subseteq Held', promised' \subseteq Known,
           o.stage \in PassStages =>
             /\ \A d \in Caller \ {c} : op[d].stage \notin PassStages
             /\ o.blobs = {},
           o.stage \in {"fetching", "storing"} =>
             /\ InLoop(c) /\ o.live /\ o.at = op[c].at /\ o.remaining = op[c].remaining
             /\ entries[o.at].hash \in Held',
           o.stage \in {"checking", "pushing"} => \E b \in Blob : o.blobs = {b},
           o.stage \in {"saving", "writing"} => o.blobs \subseteq Known
    PROVE  KeepInv'
<1>1. op'[c] = o /\ \A d \in Caller : d # c => op'[d] = op[d]
  BY DEF Continue, CallsTyped
<1>2. Known \subseteq Known' BY DEF Known
<1>3. PassInv' BY <1>1 DEF KeepInv, PassInv, InLoop
<1>4. ASSUME NEW d \in Caller
      PROVE  /\ InLoop(d)' => Hashes(entries') \subseteq (From(op[d].at))' 
                                \cup Hashes(op'[d].remaining) \cup Held' \cup gaveUp'
             /\ op'[d].stage = "storing" => (entry(d))'.hash \in Held'
  <2>1. CASE d # c
    <3>1. op'[d] = op[d] BY <1>1, <2>1
    <3>2. (InLoop(d))' = InLoop(d) BY <3>1 DEF InLoop
    <3>3. array(op[d])' = array(op[d]) /\ entry(d)' = entry(d) BY <3>1 DEF array, entry
    <3>4. (From(op[d].at))' = From(op[d].at) BY <3>1 DEF From
    <3>5. op[d].stage = "storing" => InLoop(d) BY DEF InLoop
    <3> QED BY <3>1, <3>2, <3>3, <3>4, <3>5 DEF KeepInv, Kept
  <2>2. CASE d = c
    <3>1. (InLoop(d))' => InLoop(c) /\ o.live /\ o.at = op[c].at /\ o.remaining = op[c].remaining
      BY <1>1, <2>2 DEF InLoop
    <3>2. (InLoop(d))' => (From(op[d].at))' = From(op[c].at) BY <1>1, <2>2, <3>1 DEF From
    <3>3. ASSUME op'[d].stage = "storing"
          PROVE  (entry(d))'.hash \in Held'
      <4>1. InLoop(c) /\ o.live /\ o.at = op[c].at /\ op[c].live
        BY <1>1, <2>2, <3>3 DEF KeepInv, PassInv
      <4>2. (entry(d))' = entries[o.at] /\ entry(c) = entries[o.at]
        BY <1>1, <2>2, <4>1 DEF entry, array
      <4> QED BY <1>1, <2>2, <3>3, <4>1, <4>2
    <3> QED BY <1>1, <2>2, <3>1, <3>2, <3>3 DEF KeepInv, Kept
  <2> QED BY <2>1, <2>2
<1>5. Kept' BY <1>4, Zenon DEF Kept
<1>6. Accepted' BY <1>1, <1>2 DEF KeepInv, Accepted, Enqueuing
<1> QED BY <1>3, <1>5, <1>6 DEF KeepInv

(* The loop of a pass goes on, or replaces the queue: what is behind the   *)
(* entry it was at, set aside, held or given up is all there is.           *)
LEMMA KeepLooped ==
    ASSUME CallsTyped, Reading, KeepInv, NEW c \in Caller, NEW o \in Call, Loop(c, o),
           op[c].stage \in PassStages, o.live, o.blobs = {}, o.at \in 0..Len(entries),
           Hashes(entries) \subseteq From(o.at + 1) \cup Hashes(o.remaining) \cup Held' \cup gaveUp',
           Held \subseteq Held', gaveUp \subseteq gaveUp', UNCHANGED promised
    PROVE  KeepInv'
<1>1. /\ array(o) = entries /\ entries \in Queue /\ o.at \in Nat
      /\ Len(entries) \in Nat /\ DOMAIN entries = 1..Len(entries)
  BY LenProperties DEF array, CallsTyped, Call, Queue
<1>2. \A d \in Caller \ {c} : op[d].stage \notin PassStages BY DEF KeepInv, PassInv
<1>3. \A d \in Caller : op[d].stage \in {"fetching", "storing"} => op[d].stage \in PassStages
  BY DEF PassStages
<1>4. ASSUME NEW i \in DOMAIN array(o), i > o.at, LoopOn(c, o, i) PROVE KeepInv'
  <2>1. /\ entries' = entries /\ op'[c].stage = "fetching" /\ op'[c].at = i /\ op'[c].blobs = {}
        /\ op'[c].live
        /\ Entries(op'[c].remaining) = Entries(o.remaining) \cup Stretch(entries, o.at, i - 1)
        /\ \A d \in Caller : d # c => op'[d] = op[d]
    BY <1>1, <1>4, OnFields DEF CallsTyped
  <2>2. Known \subseteq Known' BY <2>1 DEF Known
  <2>3. PassInv' BY <1>2, <1>3, <2>1 DEF PassInv, InLoop, KeepInv
  <2>4. i \in Nat /\ i - 1 <= Len(entries) /\ i > o.at BY <1>1, <1>4
  <2>5. From(o.at + 1) \subseteq From(i) \cup Hashes(op'[c].remaining)
    <3> SUFFICES ASSUME NEW h \in From(o.at + 1), h \notin From(i) 
                 PROVE  h \in Hashes(op'[c].remaining)
      OBVIOUS
    <3>1. PICK e \in Stretch(entries, o.at, i - 1) : h = e.hash BY <1>1, <2>4, FromStretch
    <3> QED BY <2>1, <3>1, InEntries
  <2>6. Hashes(o.remaining) \subseteq Hashes(op'[c].remaining) BY <2>1, InEntries
  <2>7. Hashes(entries) \subseteq From(i) \cup Hashes(op'[c].remaining) \cup Held' \cup gaveUp'
    BY <2>5, <2>6
  <2>8. (From(op[c].at))' = From(i) BY <2>1 DEF From
  <2>9. Kept' BY <1>2, <1>3, <2>1, <2>7, <2>8 DEF Kept, InLoop
  <2>10. Accepted' BY <2>1, <2>2 DEF KeepInv, Accepted, Enqueuing
  <2> QED BY <2>3, <2>9, <2>10 DEF KeepInv
<1>5. CASE LoopEnds(c, o)
  <2>1. /\ op'[c].stage = "ending" /\ op'[c].blobs = {} /\ op'[c].live
        /\ Entries(entries') = Entries(o.remaining) \cup Stretch(entries, o.at, Len(entries))
        /\ \A d \in Caller \ {c} : op'[d].stage = op[d].stage /\ op'[d].blobs = op[d].blobs
    BY <1>1, <1>5, EndFields DEF CallsTyped
  <2>2. Hashes(entries) \subseteq Hashes(entries') \cup Held' \cup gaveUp'
    <3>1. Hashes(o.remaining) \subseteq Hashes(entries') BY <2>1, InEntries
    <3>2. From(o.at + 1) \subseteq Hashes(entries')
      <4> SUFFICES ASSUME NEW h \in From(o.at + 1) PROVE h \in Hashes(entries') OBVIOUS
      <4>1. h \notin From(Len(entries) + 1) BY <1>1 DEF From
      <4>2. /\ Len(entries) + 1 \in Nat /\ Len(entries) + 1 > o.at
            /\ (Len(entries) + 1) - 1 = Len(entries) /\ (Len(entries) + 1) - 1 <= Len(entries)
        BY <1>1
      <4>3. PICK e \in Stretch(entries, o.at, Len(entries)) : h = e.hash
        BY <1>1, <4>1, <4>2, FromStretch
      <4> QED BY <2>1, <4>3, InEntries
    <3> QED BY <3>1, <3>2
  <2>3. Known \subseteq Known' BY <2>2, StillKnown
  <2>4. PassInv' BY <1>2, <1>3, <2>1 DEF PassInv, InLoop
  <2>5. Kept' BY <1>2, <1>3, <2>1 DEF Kept, InLoop
  <2>6. Accepted' BY <2>1, <2>3 DEF KeepInv, Accepted, Enqueuing
  <2> QED BY <2>4, <2>5, <2>6 DEF KeepInv
<1> QED BY <1>4, <1>5, LoopCases DEF CallsTyped

(* A pushed entry is ahead of every pass, and its blob is known again.     *)
LEMMA KeepPushed ==
    ASSUME CallsTyped, DataTyped, Reading, KeepInv, NEW c \in Caller, EnqueuePush(c)
    PROVE  KeepInv'
<1>1. PICK b \in Blob : op[c].blobs = {b} BY DEF EnqueuePush, KeepInv, Accepted, Enqueuing
<1> DEFINE new == [hash |-> b, attempts |-> 0, next |-> now]
<1>2. new \in QueuedBlobFetch /\ new.hash = b
  <2>1. now \in 0..(MaxTime + MaxDelay)
    BY BackoffAssumption, ScheduleAssumption DEF DataTyped, Time
  <2> QED BY <2>1, BackoffAssumption DEF QueuedBlobFetch
<1>3. entries' = Append(entries, new) /\ gaveUp' = gaveUp \ {b} /\ UNCHANGED <<stored, promised>>
  BY <1>1 DEF EnqueuePush
<1> HIDE DEF new
<1>4. /\ Len(entries) \in Nat /\ DOMAIN entries = 1..Len(entries)
      /\ entries'[Len(entries) + 1] = new /\ Len(entries) + 1 \in DOMAIN entries'
      /\ Entries(entries') = Entries(entries) \cup {new}
      /\ \A i \in DOMAIN entries : i \in DOMAIN entries' /\ entries'[i] = entries[i]
  BY <1>2, <1>3, Pushed DEF CallsTyped
<1>5. Hashes(entries') = Hashes(entries) \cup {b} BY <1>2, <1>4, InEntries
<1>6. Held' = Held BY <1>3 DEF Held
<1>7. Known \subseteq Known' /\ b \in Known' BY <1>3, <1>5, <1>6 DEF Known
<1>8. op'[c] = [op[c] EXCEPT !.stage = "saving", !.live = TRUE]
  BY DEF EnqueuePush, Continue, CallsTyped
<1>9. /\ op'[c].stage = "saving" /\ op'[c].blobs = {b}
      /\ \A d \in Caller : d # c => op'[d] = op[d]
  BY <1>1, <1>8 DEF EnqueuePush, Continue, CallsTyped, Call
<1>10. PassInv' BY <1>9 DEF KeepInv, PassInv, InLoop, PassStages
<1>11. ASSUME NEW d \in Caller, d # c, InLoop(d)
       PROVE  /\ Hashes(entries') \subseteq (From(op[d].at))' \cup Hashes(op'[d].remaining)
                                            \cup Held' \cup gaveUp'
              /\ (entry(d))' = entry(d)
  <2>1. op'[d] = op[d] /\ op[d].live BY <1>9, <1>11 DEF KeepInv, PassInv
  <2>2. op[d].at \in DOMAIN entries BY <1>11, <2>1 DEF Reading, array
  <2>3. From(op[d].at) \cup {b} \subseteq (From(op[d].at))'
    BY <1>2, <1>4, <2>1, <2>2 DEF From
  <2>4. (entry(d))' = entry(d) BY <1>4, <2>1, <2>2 DEF entry, array
  <2>5. Hashes(entries) \subseteq From(op[d].at) \cup Hashes(op[d].remaining) \cup Held \cup gaveUp
    BY <1>11 DEF KeepInv, Kept
  <2> QED BY <1>3, <1>5, <1>6, <2>1, <2>3, <2>4, <2>5
<1>12. \A d \in Caller : (InLoop(d))' => d # c /\ InLoop(d) BY <1>9 DEF InLoop
<1>13. \A d \in Caller : op'[d].stage = "storing" => 
          d # c /\ InLoop(d) /\ op[d].stage = "storing"
  BY <1>9 DEF InLoop
<1>14. Kept' BY <1>6, <1>11, <1>12, <1>13 DEF Kept, KeepInv
<1>15. Accepted' BY <1>3, <1>7, <1>9 DEF KeepInv, Accepted, Enqueuing, PassStages
<1> QED BY <1>10, <1>14, <1>15 DEF KeepInv

LEMMA KeepNext == TypeInv /\ ~Overlapping /\ KeepInv /\ [Next]_vars => KeepInv'
<1> SUFFICES ASSUME CallsTyped, DataTyped, Reading, ~Overlapping, KeepInv, [Next]_vars
             PROVE  KeepInv'
  BY TypeParts DEF TypeInv
<1>0. ASSUME NEW c \in Caller PROVE op[c] \in Call BY DEF CallsTyped
<1>a. promised \subseteq Known BY DEF KeepInv, Accepted
<1>b. UNCHANGED stored => Held' = Held BY DEF Held
<1>1. ASSUME NEW c \in Caller, Finish(c), UNCHANGED <<entries, gaveUp>>, Held' = Held,
             promised' \subseteq Known
      PROVE  KeepInv'
  BY <1>1, KeepContinued, NoOpTyped DEF Finish, PassStages
<1>2. ASSUME NEW c \in Caller, NEW b \in Blob, enqueue(c, b) PROVE KeepInv'
  <2> DEFINE o == [NoOp EXCEPT !.stage = "checking", !.blobs = {b}]
  <2>1. o \in Call /\ o.stage = "checking" /\ o.blobs = {b} BY NoOpTyped DEF Call, Stages
  <2> HIDE DEF o
  <2>2. Continue(c, o) /\ UNCHANGED <<entries, gaveUp, promised, stored>>
    BY <1>2 DEF enqueue, o
  <2>3. o.stage \notin PassStages BY <2>1 DEF PassStages
  <2> QED BY <1>a, <1>b, <2>1, <2>2, <2>3, KeepContinued
<1>3. ASSUME NEW c \in Caller, EnqueueChecked(c) PROVE KeepInv'
  <2> DEFINE o == [op[c] EXCEPT !.stage = "pushing"]
  <2>1. o \in Call /\ o.stage = "pushing" /\ o.blobs = op[c].blobs
    BY <1>0 DEF Call, Stages
  <2>2. \E b \in Blob : op[c].blobs = {b}
    BY <1>3 DEF EnqueueChecked, KeepInv, Accepted, Enqueuing
  <2> HIDE DEF o
  <2>3. /\ Finish(c) \/ Continue(c, o)
        /\ UNCHANGED <<entries, gaveUp, promised, stored>>
    BY <1>3 DEF EnqueueChecked, o
  <2>4. o.stage \notin PassStages BY <2>1 DEF PassStages
  <2>5. CASE Continue(c, o) BY <1>a, <1>b, <2>1, <2>2, <2>3, <2>4, <2>5, KeepContinued
  <2> QED BY <1>1, <1>a, <1>b, <2>3, <2>5
<1>4. ASSUME NEW c \in Caller, EnqueuePush(c) PROVE KeepInv' BY <1>4, KeepPushed
<1>5. ASSUME NEW c \in Caller, SaveSerialise(c) PROVE KeepInv'
  <2> DEFINE stage == IF op[c].stage = "saving" THEN "writing" ELSE "writing the rest"
             o == [NoOp EXCEPT !.blobs = op[c].blobs, !.array = array(op[c]), !.stage = stage]
  <2>1. /\ stage \in {"writing", "writing the rest"} 
        /\ stage = "writing" => op[c].stage = "saving"
        /\ stage = "writing the rest" => op[c].stage = "ending"
    BY <1>5 DEF SaveSerialise
  <2>2. op[c].blobs \subseteq Blob /\ array(op[c]) \in Queue
    BY ArrayTyped DEF CallsTyped, Call
  <2> HIDE DEF stage
  <2>3. o \in Call /\ o.stage = stage /\ o.blobs = op[c].blobs
    BY <2>1, <2>2, NoOpTyped DEF Call, Stages, PassStages
  <2>4. Continue(c, o) /\ UNCHANGED <<entries, gaveUp, promised, stored>>
    BY <1>5 DEF SaveSerialise, stage
  <2> HIDE DEF o
  <2>5. /\ "writing" \notin PassStages
        /\ op[c].stage = "saving" => op[c].blobs \subseteq Known
        /\ op[c].stage = "ending" => 
             op[c].blobs = {} /\ \A d \in Caller \ {c} : op[d].stage \notin PassStages
    BY DEF KeepInv, PassInv, Accepted, PassStages
  <2>6. o.stage \in PassStages => 
          o.blobs = {} /\ \A d \in Caller \ {c} : op[d].stage \notin PassStages
    BY <2>1, <2>3, <2>5
  <2>7. o.stage \in {"saving", "writing"} => o.blobs \subseteq Known BY <2>1, <2>3, <2>5
  <2>8. o.stage \notin {"fetching", "storing", "checking", "pushing"} BY <2>1, <2>3
  <2> QED BY <1>a, <1>b, <2>3, <2>4, <2>6, <2>7, <2>8, KeepContinued
<1>6. ASSUME NEW c \in Caller, SaveRename(c) PROVE KeepInv'
  <2>1. op[c].blobs \subseteq Known
    BY <1>6 DEF SaveRename, KeepInv, Accepted, PassStages
  <2> QED BY <1>1, <1>6, <1>a, <1>b, <2>1 DEF SaveRename
<1>7. ASSUME NEW c \in Caller, SaveRejects(c) \/ PutRejects(c) PROVE KeepInv'
  BY <1>1, <1>7, <1>a, <1>b DEF SaveRejects, PutRejects
<1>8. ASSUME NEW c \in Caller, processDue(c) PROVE KeepInv'
  <2> DEFINE o == [NoOp EXCEPT !.stage = "status", !.now = now]
  <2>1. o \in Call /\ o.stage = "status" /\ o.blobs = {}
    BY NoOpTyped DEF Call, Stages, PassStages, DataTyped
  <2> HIDE DEF o
  <2>2. Continue(c, o) /\ UNCHANGED <<entries, gaveUp, promised, stored>>
    BY <1>8 DEF processDue, o
  <2>3. \A d \in Caller : op[d].stage \notin PassStages BY <1>8 DEF processDue
  <2> QED BY <1>a, <1>b, <2>1, <2>2, <2>3, KeepContinued
<1>9. ASSUME NEW c \in Caller, PassBegin(c) PROVE KeepInv'
  <2> DEFINE o == [op[c] EXCEPT !.live = TRUE]
  <2>1. /\ o \in Call /\ o.at = op[c].at /\ o.live /\ o.blobs = op[c].blobs
    BY <1>0 DEF Call
  <2>2. op[c].at = 0 /\ op[c].stage \in PassStages BY <1>9 DEF PassBegin, Reading, PassStages
  <2>3. op[c].blobs = {} BY <2>2 DEF KeepInv, Accepted
  <2>4. /\ Loop(c, o) \/ (Finish(c) /\ UNCHANGED entries)
        /\ UNCHANGED <<gaveUp, promised, stored>>
    BY <1>9 DEF PassBegin
  <2> HIDE DEF o
  <2>5. entries \in Queue /\ Len(entries) \in Nat /\ DOMAIN entries = 1..Len(entries)
    BY LenProperties DEF CallsTyped, Queue
  <2>6. Hashes(entries) \subseteq From(o.at + 1) BY <2>1, <2>2, <2>5 DEF From, Hashes
  <2>7. CASE Loop(c, o) 
    BY <1>b, <2>1, <2>2, <2>3, <2>4, <2>5, <2>6, <2>7, KeepLooped
  <2> QED BY <1>1, <1>a, <1>b, <2>4, <2>7
(* What c is at, in the loop: an entry of the queue itself.                *)
<1>10. ASSUME NEW c \in Caller, InLoop(c)
       PROVE  /\ op[c].live /\ op[c].stage \in PassStages /\ op[c].blobs = {}
              /\ op[c].at \in DOMAIN entries /\ op[c].at \in 0..Len(entries)
              /\ entry(c) = entries[op[c].at] /\ entry(c).hash \in Blob
              /\ Hashes(entries) \subseteq From(op[c].at + 1) \cup {entry(c).hash}
                           \cup Hashes(op[c].remaining) \cup Held \cup gaveUp
  <2>1. op[c].live /\ op[c].stage \in PassStages BY <1>10 DEF KeepInv, PassInv, InLoop, PassStages
  <2>2. op[c].blobs = {} BY <2>1 DEF KeepInv, Accepted
  <2>3. /\ array(op[c]) = entries /\ entry(c) = entries[op[c].at] BY <2>1 DEF array, entry
  <2>4. /\ op[c].at \in DOMAIN entries /\ op[c].at \in 0..Len(entries)
        /\ entry(c).hash \in Blob
    BY <1>10, <2>3, EntryTyped DEF QueuedBlobFetch
  <2>5. From(op[c].at) \subseteq From(op[c].at + 1) \cup {entry(c).hash}
    BY <2>3, <2>4, FromNext DEF CallsTyped
  <2> QED BY <1>10, <2>1, <2>2, <2>3, <2>4, <2>5 DEF KeepInv, Kept
<1>11. ASSUME NEW c \in Caller, FetchFails(c) PROVE KeepInv'
  <2>1. InLoop(c) /\ UNCHANGED <<promised, stored>> BY <1>11 DEF FetchFails, InLoop
  <2>2. CASE gaveUp' = gaveUp \cup {entry(c).hash} /\ Loop(c, op[c])
    BY <1>0, <1>10, <1>b, <2>1, <2>2, KeepLooped
  <2>3. ASSUME NEW o \in Call, Loop(c, o), gaveUp' = gaveUp, o.at = op[c].at,
               o.blobs = op[c].blobs, o.live = op[c].live,
               NEW retry, retry.hash = entry(c).hash,
               Entries(o.remaining) = Entries(op[c].remaining) \cup {retry}
        PROVE  KeepInv'
    <3>1. Hashes(o.remaining) = Hashes(op[c].remaining) \cup {entry(c).hash} BY <2>3, InEntries
    <3> QED BY <1>10, <1>b, <2>1, <2>3, <3>1, KeepLooped
  <2> QED BY <1>11, <2>2, <2>3, FailedFetch
<1>12. ASSUME NEW c \in Caller, InLoop(c),
              stored' = [stored EXCEPT ![entry(c).hash] = "partial"]
                \/ stored' = [stored EXCEPT ![entry(c).hash] = "complete"]
       PROVE  Held' = Held \cup {entry(c).hash}
  BY <1>10, <1>12 DEF Held, DataTyped
<1>13. ASSUME NEW c \in Caller, FetchSucceeds(c) PROVE KeepInv'
  <2> DEFINE o == [op[c] EXCEPT !.stage = "storing"]
  <2>1. /\ o \in Call /\ o.stage = "storing" /\ o.at = op[c].at /\ o.blobs = op[c].blobs
        /\ o.live = op[c].live /\ o.remaining = op[c].remaining
    BY <1>0 DEF Call, Stages, PassStages
  <2>2. InLoop(c) /\ Continue(c, o) /\ UNCHANGED <<entries, gaveUp, promised>>
    BY <1>13 DEF FetchSucceeds, InLoop
  <2> HIDE DEF o
  <2>3. Held' = Held \cup {entry(c).hash} BY <1>12, <1>13, <2>2 DEF FetchSucceeds
  <2>4. \A d \in Caller \ {c} : op[d].stage \notin PassStages
    BY <1>10, <2>2 DEF KeepInv, PassInv
  <2> QED BY <1>10, <1>a, <2>1, <2>2, <2>3, <2>4, KeepContinued
<1>14. ASSUME NEW c \in Caller, PutDone(c) PROVE KeepInv'
  <2>1. InLoop(c) /\ Loop(c, op[c]) /\ UNCHANGED <<gaveUp, promised>>
    BY <1>14 DEF PutDone, InLoop
  <2>2. Held' = Held \cup {entry(c).hash} BY <1>12, <1>14, <2>1 DEF PutDone
  <2> QED BY <1>0, <1>10, <2>1, <2>2, KeepLooped
<1>15. CASE Restart
  BY <1>15, NoOpTyped
  DEF Restart, KeepInv, PassInv, Kept, Accepted, InLoop, Enqueuing, PassStages, Known
<1>16. CASE Tick \/ UNCHANGED vars
  <2>1. UNCHANGED <<entries, op, stored, promised, gaveUp>> BY <1>16 DEF Tick, vars
  <2> QED
    BY <2>1
    DEF KeepInv, PassInv, Kept, Accepted, InLoop, Enqueuing, Known, Held, From, entry, array
<1> QED
  BY <1>2, <1>3, <1>4, <1>5, <1>6, <1>7, <1>8, <1>9, <1>11, <1>13, <1>14, <1>15, <1>16 DEF Next

(* When passes do not overlap, a blob whose enqueue resolved is pending,   *)
(* held or given up, whatever other calls push meanwhile, whichever await  *)
(* of a pass fails, and after a restart.                                   *)
THEOREM AcceptedBlobsStay == ~Overlapping => (Spec => []NothingForgotten)
<1>1. KeepInv => NothingForgotten BY DEF KeepInv, Accepted, Known, NothingForgotten
<1>2. ~Overlapping => (~Overlapping)' OBVIOUS
<1> QED BY <1>1, <1>2, TypeInit, TypeNext, KeepInit, KeepNext, PTL DEF Spec

=============================================================================
