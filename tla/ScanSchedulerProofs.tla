------------------------ MODULE ScanSchedulerProofs ------------------------
(* ScanScheduler for every configuration of whole, positive settings whose *)
(* window fits the interval: when onWindowStart leaves the scheduler alone *)
(* and onWindowEnd at most stops it, a running scheduler has a single      *)
(* chain of timers and a stopped one has none.                             *)
EXTENDS ScanScheduler, FiniteSetTheorems, WellFoundedInduction, TLAPS

(* What the callbacks may do: onWindowStart nothing, onWindowEnd also stop.*)
Behaved == StartCallback \subseteq {"nothing"} /\ EndCallback \subseteq {"nothing", "stop"}

Pair == [scan : Scan, timers : SUBSET Timer]

(* The one pending timer, which the field for its kind still names: that   *)
(* is what lets stop cancel it.                                            *)
Pending(s, isOpen) ==
    \E t \in Timer : /\ s.timers = {t}
                     /\ (t.task = "finishWindow") = isOpen
                     /\ t.handle = IF isOpen THEN s.scan.windowEndHandle
                                   ELSE s.scan.nextWindowHandle

ChainInv ==
    /\ TypeOK
    /\ scan.running => Pending(Now, open)
    /\ ~scan.running => timers = {}

-----------------------------------------------------------------------------
(* The pair [scan, timers] through each method                             *)

LEMMA ConfigNumbers ==
    /\ Window \in Nat \ {0} /\ Interval \in Nat \ {0} /\ MaxInterval \in Nat \ {0}
    /\ Multiplier \in Nat \ {0} /\ EmptyWindows \in Nat \ {0}
    /\ Window <= Interval
    /\ Shortest \in Nat /\ Longest \in Nat
    /\ Shortest <= Interval /\ Shortest <= MaxInterval
    /\ Longest >= Interval /\ Longest >= MaxInterval
BY ConfigAssumption DEF Shortest, Longest, Least, Greatest

(* With no timer pending there is a handle that no field has.              *)
LEMMA NewHandleExists ==
    ASSUME NEW s \in Pair, s.timers = {}
    PROVE  newHandle(s) \in Handle
<1>1. \E h \in 1..4 : h # s.scan.nextWindowHandle /\ h # s.scan.windowEndHandle
  <2>1. s.scan.nextWindowHandle \in Int /\ s.scan.windowEndHandle \in Int
    BY DEF Pair, Scan, Handle, NoHandle
  <2> QED BY <2>1
<1> QED BY <1>1 DEF newHandle, Handle

(* Stopping cancels the timer that is pending.                             *)
LEMMA StoppedIsIdle ==
    ASSUME NEW s \in Pair, s.timers = {} \/ \E isOpen \in BOOLEAN : Pending(s, isOpen)
    PROVE  /\ Stopped(s) \in Pair
           /\ s.scan.running => Stopped(s).timers = {}
           /\ ~Stopped(s).scan.running
<1>1. \A t \in s.timers : t.handle \in {s.scan.nextWindowHandle, s.scan.windowEndHandle}
  BY DEF Pending
<1>2. CASE ~s.scan.running
  BY <1>2 DEF Stopped
<1>3. CASE s.scan.running
  <2> DEFINE x == [s.scan EXCEPT !.running = FALSE, !.nextWindowHandle = NoHandle,
                                 !.windowEndHandle = NoHandle]
  <2>1. Stopped(s) = [scan |-> x, timers |-> {}]
    BY <1>1, <1>3 DEF Stopped, cancel, Pair
  <2>2. x \in Scan /\ ~x.running
    BY DEF Pair, Scan
  <2> HIDE DEF x
  <2> QED BY <2>1, <2>2 DEF Pair
<1> QED BY <1>2, <1>3

(* A window that opens leaves the timer that will end it.                  *)
LEMMA OpeningLeavesItsEnd ==
    ASSUME NEW s \in Pair, s.timers = {}
    PROVE  /\ WindowOpened(s) \in Pair
           /\ Pending(WindowOpened(s), TRUE)
           /\ WindowOpened(s).scan.running = s.scan.running
<1> DEFINE t == [handle |-> newHandle(s), task |-> "finishWindow", left |-> Window]
<1>1. newHandle(s) \in Handle
  BY NewHandleExists
<1>2. t \in Timer
  BY <1>1, ConfigNumbers DEF Timer
<1>3. WindowOpened(s) = [scan |-> [s.scan EXCEPT !.windowEndHandle = newHandle(s)], timers |-> {t}]
  <2>1. scheduleDelayed(s, "finishWindow", Window) = [scan |-> s.scan, timers |-> {t}]
    BY DEF scheduleDelayed, Pair
  <2> QED BY <2>1 DEF WindowOpened
<1>4. [s.scan EXCEPT !.windowEndHandle = newHandle(s)] \in Scan
  BY <1>1 DEF Pair, Scan
<1> QED BY <1>2, <1>3, <1>4 DEF Pair, Pending, Scan

(* The backoff stays between the baseline and the maximum, whichever of    *)
(* them is the longer.                                                     *)
LEMMA BackoffStaysInRange ==
    ASSUME NEW s \in Scan
    PROVE  BackedOff(s) \in Scan /\ BackedOff(s).running = s.running
<1> USE ConfigNumbers
<1>1. Least(s.consecutiveEmptyWindows + 1, EmptyWindows) \in 0..EmptyWindows
  BY DEF Scan, Least
<1>2. Least(s.effectiveInterval * Multiplier, MaxInterval) \in Shortest..Longest
  <2>1. s.effectiveInterval \in Nat /\ s.effectiveInterval >= Shortest
    BY DEF Scan
  <2>2. \A i, m \in Nat : m # 0 => i * m \in Nat /\ i * m >= i
    OBVIOUS
  <2>3. s.effectiveInterval * Multiplier \in Nat /\ s.effectiveInterval * Multiplier >= Shortest
    BY <2>1, <2>2
  <2> QED BY <2>3 DEF Least
<1>3. Interval \in Shortest..Longest /\ 0 \in 0..EmptyWindows
  OBVIOUS
<1> QED BY <1>1, <1>2, <1>3 DEF BackedOff, Scan

(* A window that ends leaves the timer of the next, unless its callback    *)
(* stopped the scheduler.                                                  *)
LEMMA EndingLeavesTheNext ==
    ASSUME NEW s \in Pair, s.timers = {}, NEW callback \in {"nothing", "stop"}
    PROVE  LET ended == finishWindow(s, callback) IN
           /\ ended \in Pair
           /\ ended.scan.running => Pending(ended, FALSE)
           /\ ~ended.scan.running => ended.timers = {}
<1> DEFINE called == CalledBack(s, callback)
           backed == [called EXCEPT !.scan = BackedOff(@)]
           pause == Greatest(backed.scan.effectiveInterval - Window, 0)
           t == [handle |-> newHandle(backed), task |-> "runWindow", left |-> pause]
<1>1. called \in Pair /\ called.timers = {}
  <2>1. CASE callback = "nothing"
    BY <2>1 DEF CalledBack
  <2>2. CASE callback = "stop"
    <3>1. called = Stopped(s) BY <2>2 DEF CalledBack
    <3>2. ~s.scan.running => called = s BY <3>1 DEF Stopped
    <3> QED BY <3>1, <3>2, StoppedIsIdle
  <2> QED BY <2>1, <2>2
<1>2. backed \in Pair /\ backed.timers = {}
  <2>1. called.scan \in Scan BY <1>1 DEF Pair
  <2>2. BackedOff(called.scan) \in Scan BY <2>1, BackoffStaysInRange
  <2>3. backed = [scan |-> BackedOff(called.scan), timers |-> {}] BY <1>1 DEF Pair
  <2> HIDE DEF called, backed
  <2> QED BY <2>2, <2>3 DEF Pair
<1>3. finishWindow(s, callback) =
         IF ~backed.scan.running THEN backed
         ELSE [scheduleDelayed(backed, "runWindow", pause)
                  EXCEPT !.scan.nextWindowHandle = newHandle(backed)]
  BY DEF finishWindow
<1> HIDE DEF called, backed
<1>4. newHandle(backed) \in Handle
  BY <1>2, NewHandleExists
<1>5. CASE ~backed.scan.running
  BY <1>2, <1>3, <1>5
<1>6. CASE backed.scan.running
  <2>1. pause \in 0..Longest
    BY <1>2, ConfigNumbers DEF Pair, Scan, Greatest
  <2>2. t \in Timer
    BY <1>4, <2>1 DEF Timer
  <2>3. finishWindow(s, callback) =
           [scan |-> [backed.scan EXCEPT !.nextWindowHandle = newHandle(backed)], timers |-> {t}]
    <3>1. scheduleDelayed(backed, "runWindow", pause) = [scan |-> backed.scan, timers |-> {t}]
      BY <1>2 DEF scheduleDelayed, Pair
    <3> HIDE DEF t, pause
    <3> QED BY <1>3, <1>6, <3>1
  <2>4. [backed.scan EXCEPT !.nextWindowHandle = newHandle(backed)] \in Scan
    BY <1>2, <1>4 DEF Pair, Scan
  <2> DEFINE ended == finishWindow(s, callback)
  <2>5. ended \in Pair
    BY <2>2, <2>3, <2>4 DEF Pair
  <2>6. ended.scan.running
    BY <1>2, <1>6, <2>3 DEF Pair, Scan
  <2>7. ended.timers = {t} /\ t.handle = ended.scan.nextWindowHandle /\ t.task = "runWindow"
    BY <1>2, <2>3 DEF Pair, Scan
  <2> HIDE DEF ended, t
  <2>8. Pending(ended, FALSE)
    BY <2>2, <2>7 DEF Pending
  <2> QED BY <2>5, <2>6, <2>8 DEF ended
<1> QED BY <1>5, <1>6

-----------------------------------------------------------------------------
(* The steps                                                               *)

(* What a step leaves as a pair is what the next state is.                 *)
LEMMA PairBecomes ==
    ASSUME NEW s \in Pair, Becomes(s)
    PROVE  /\ scan' = s.scan /\ timers' = s.timers
           /\ scan' \in Scan /\ timers' \subseteq Timer
BY DEF Becomes, Pair

LEMMA PendingNext ==
    ASSUME NEW s, NEW isOpen \in BOOLEAN, Pending(s, isOpen),
           scan' = s.scan, timers' = s.timers, open' = isOpen
    PROVE  Pending(Now, open)'
<1>1. Now'.timers = s.timers /\ Now'.scan = s.scan
  BY DEF Now
<1> QED BY <1>1 DEF Pending

LEMMA ChainKept == Behaved /\ ChainInv /\ [Next]_vars => ChainInv'
<1> SUFFICES ASSUME Behaved, ChainInv, [Next]_vars PROVE ChainInv'
  OBVIOUS
<1>0. /\ Now \in Pair /\ Now.scan = scan /\ Now.timers = timers
      /\ timers = {} \/ Pending(Now, open)
  BY DEF ChainInv, TypeOK, Now, Pair
<1>1. CASE start
  <2>1. PICK callback \in StartCallback :
           Becomes(runWindow([Now EXCEPT !.scan.running = TRUE], callback))
    BY <1>1 DEF start
  <2> DEFINE s == [Now EXCEPT !.scan.running = TRUE, !.scan.foundThisWindow = FALSE]
  <2>2. s \in Pair /\ s.timers = {} /\ s.scan.running
    BY <1>0, <1>1 DEF start, ChainInv, Pair, Scan
  <2>3. Becomes(WindowOpened(s))
    BY <2>1, <1>0 DEF runWindow, CalledBack, Behaved, Pair, Scan
  <2> HIDE DEF s
  <2>4. WindowOpened(s) \in Pair /\ Pending(WindowOpened(s), TRUE) /\ WindowOpened(s).scan.running
    BY <2>2, OpeningLeavesItsEnd
  <2>5. /\ scan' = WindowOpened(s).scan /\ timers' = WindowOpened(s).timers
        /\ scan' \in Scan /\ timers' \subseteq Timer
    BY <2>3, <2>4, PairBecomes
  <2>6. Pending(Now, open)' /\ scan'.running
    BY <2>4, <2>5, <1>1, PendingNext DEF start
  <2> QED BY <2>5, <2>6, <1>1 DEF start, ChainInv, TypeOK
<1>2. CASE stop
  <2>1. Stopped(Now) \in Pair /\ Stopped(Now).timers = {} /\ ~Stopped(Now).scan.running
    <3>1. scan.running /\ \E isOpen \in BOOLEAN : Pending(Now, isOpen)
      BY <1>2 DEF stop, ChainInv, TypeOK
    <3> QED BY <1>0, <3>1, StoppedIsIdle
  <2>2. /\ scan' = Stopped(Now).scan /\ timers' = Stopped(Now).timers
        /\ scan' \in Scan /\ timers' \subseteq Timer
    BY <1>2, <2>1, PairBecomes DEF stop
  <2>3. timers' = {} /\ ~scan'.running
    BY <2>1, <2>2
  <2> QED BY <2>2, <2>3, <1>2 DEF stop, ChainInv, TypeOK
<1>3. CASE reportPeersFoundThisWindow
  <2>1. scan' \in Scan /\ scan'.running = scan.running
        /\ scan'.windowEndHandle = scan.windowEndHandle
        /\ scan'.nextWindowHandle = scan.nextWindowHandle
    BY <1>3 DEF reportPeersFoundThisWindow, ChainInv, TypeOK, Scan
  <2> QED BY <1>3, <2>1 DEF reportPeersFoundThisWindow, ChainInv, TypeOK, Pending, Now
<1>4. ASSUME NEW t \in timers, t.left = 0 PROVE timers = {t} /\ scan.running /\ Fires(t) \in Pair
             /\ Fires(t).timers = {} /\ Fires(t).scan = scan
  <2>1. timers = {t} /\ scan.running
    BY <1>4, <1>0 DEF ChainInv, Pending
  <2>2. Fires(t) = [scan |-> scan, timers |-> {}]
    BY <2>1 DEF Fires, Now
  <2> QED BY <2>1, <2>2 DEF ChainInv, TypeOK, Pair
<1>5. CASE WindowStarts
  <2>1. PICK t \in timers : /\ t.left = 0
           /\ \E callback \in StartCallback : Becomes(runWindow(Fires(t), callback))
           /\ open' = TRUE /\ heard' = FALSE /\ UNCHANGED silence
    BY <1>5, <1>4 DEF WindowStarts
  <2> DEFINE s == [Fires(t) EXCEPT !.scan.foundThisWindow = FALSE]
  <2>2. /\ Fires(t) \in Pair /\ Fires(t).timers = {}
        /\ Fires(t).scan = scan /\ scan.running
    BY <2>1, <1>4
  <2>3. s \in Pair /\ s.timers = {} /\ s.scan.running
    BY <2>2 DEF Pair, Scan
  <2>4. Becomes(WindowOpened(s))
    BY <2>1 DEF runWindow, CalledBack, Behaved
  <2> HIDE DEF s
  <2>5. WindowOpened(s) \in Pair /\ Pending(WindowOpened(s), TRUE) /\ WindowOpened(s).scan.running
    BY <2>3, OpeningLeavesItsEnd
  <2>6. /\ scan' = WindowOpened(s).scan /\ timers' = WindowOpened(s).timers
        /\ scan' \in Scan /\ timers' \subseteq Timer
    BY <2>4, <2>5, PairBecomes
  <2>7. Pending(Now, open)' /\ scan'.running
    BY <2>1, <2>5, <2>6, PendingNext
  <2> QED BY <2>1, <2>6, <2>7 DEF ChainInv, TypeOK
<1>6. CASE WindowEnds
  <2>1. PICK t \in timers : /\ t.left = 0
           /\ \E callback \in EndCallback : Becomes(finishWindow(Fires(t), callback))
           /\ open' = FALSE /\ heard' = heard
           /\ silence' = IF heard THEN 0 ELSE Least(silence + 1, MaxSilence)
    BY <1>6 DEF WindowEnds
  <2>2. PICK callback \in {"nothing", "stop"} : Becomes(finishWindow(Fires(t), callback))
    BY <2>1 DEF Behaved
  <2> DEFINE ended == finishWindow(Fires(t), callback)
  <2>3. /\ ended \in Pair
        /\ ended.scan.running => Pending(ended, FALSE)
        /\ ~ended.scan.running => ended.timers = {}
    BY <2>1, <1>4, EndingLeavesTheNext
  <2>4. /\ scan' = ended.scan /\ timers' = ended.timers
        /\ scan' \in Scan /\ timers' \subseteq Timer
    BY <2>2, <2>3, PairBecomes
  <2>5. silence' \in 0..MaxSilence
    BY <2>1, ConfigNumbers DEF ChainInv, TypeOK, MaxSilence, Least
  <2> HIDE DEF ended
  <2>6. /\ scan'.running => Pending(Now, open)'
        /\ ~scan'.running => timers' = {}
    BY <2>1, <2>3, <2>4, PendingNext
  <2> QED BY <2>1, <2>4, <2>5, <2>6 DEF ChainInv, TypeOK
<1>7. CASE Tick
  <2> DEFINE Later(t) == [t EXCEPT !.left = IF @ = 0 THEN 0 ELSE @ - 1]
  <2>1. PICK t \in Timer : /\ timers = {t} /\ (t.task = "finishWindow") = open
                           /\ t.handle = IF open THEN scan.windowEndHandle
                                         ELSE scan.nextWindowHandle
    BY <1>0, <1>7 DEF Tick, Pending
  <2>2. timers' = {Later(t)}
    BY <1>7, <2>1 DEF Tick
  <2>3. Later(t) \in Timer /\ Later(t).task = t.task /\ Later(t).handle = t.handle
    BY ConfigNumbers DEF Timer
  <2> HIDE DEF Later
  <2>4. UNCHANGED <<scan, open, heard, silence>>
    BY <1>7 DEF Tick
  <2>5. scan.running
    BY <2>1 DEF ChainInv
  <2>6. Pending(Now, open)'
    BY <2>1, <2>2, <2>3, <2>4 DEF Pending, Now
  <2> QED BY <2>2, <2>3, <2>4, <2>5, <2>6 DEF ChainInv, TypeOK
<1>8. CASE UNCHANGED vars
  BY <1>8 DEF vars, ChainInv, TypeOK, Pending, Now
<1> QED
  BY <1>1, <1>2, <1>3, <1>5, <1>6, <1>7, <1>8 DEF Next

LEMMA ChainInit == Init => ChainInv
<1> SUFFICES ASSUME Init PROVE ChainInv
  OBVIOUS
<1>1. MaxSilence \in Nat BY ConfigNumbers DEF MaxSilence
<1>2. scan \in Scan /\ ~scan.running
  BY ConfigNumbers DEF Init, Scan
<1>3. timers = {} /\ open \in BOOLEAN /\ heard \in BOOLEAN
  BY Zenon DEF Init
<1>4. silence \in 0..MaxSilence
  BY <1>1 DEF Init
<1> QED BY <1>2, <1>3, <1>4 DEF ChainInv, TypeOK

(* The interval in force stays between the baseline and the maximum, also  *)
(* when the maximum is the shorter one, which the constructor accepts; no  *)
(* timer is set for longer than the longer of them, nor for less than 0.   *)
THEOREM TypeCorrect == Behaved => (Spec => []TypeOK)
<1>1. ChainInv => TypeOK BY DEF ChainInv
<1>2. Behaved => Behaved' BY DEF Behaved
<1> QED BY <1>1, <1>2, ChainInit, ChainKept, PTL DEF Spec

(* One window or one pause is under way while the scheduler runs, and no   *)
(* callback comes after it was stopped.                                    *)
THEOREM RunsOneChain == Behaved => (Spec => []OneChain)
<1>1. ChainInv => OneChain
  <2> SUFFICES ASSUME ChainInv PROVE OneChain
    OBVIOUS
  <2>1. CASE scan.running
    <3>1. PICK t \in Timer : timers = {t} /\ (t.task = "finishWindow") = open
      BY <2>1 DEF ChainInv, Pending, Now
    <3>2. Cardinality({t}) = 1
      BY FS_Singleton, Zenon
    <3> QED BY <2>1, <3>1, <3>2 DEF OneChain
  <2>2. CASE ~scan.running
    BY <2>2, FS_EmptySet DEF ChainInv, OneChain
  <2> QED BY <2>1, <2>2
<1>2. Behaved => Behaved' BY DEF Behaved
<1> QED BY <1>1, <1>2, ChainInit, ChainKept, PTL DEF Spec

-----------------------------------------------------------------------------
(* The powers of the multiplier.  Power is recursive: the lemmas show that *)
(* there is such a function, and how it grows.                             *)

PowerUpTo(p, n) == p = [i \in 0..n |-> IF i = 0 THEN 1 ELSE Multiplier * p[i - 1]]

LEMMA LeastOf ==
    ASSUME NEW S \in SUBSET Nat, S # {}
    PROVE  \E m \in S : \A n \in S : m <= n
<1>1. PICK m \in S : \A n \in S : ~(<<n, m>> \in OpToRel(<, Nat))
  BY NatLessThanWellFounded, WFMin
<1>2. ASSUME NEW n \in S PROVE m <= n
  <2>1. CASE n < m
    <3>1. <<n, m>> \in OpToRel(<, Nat) BY <2>1 DEF OpToRel
    <3> QED BY <1>1, <3>1
  <2> QED BY <2>1
<1> QED BY <1>2

LEMMA PowerExtends ==
    ASSUME NEW n \in Nat, n = 0 \/ \E p : PowerUpTo(p, n - 1)
    PROVE  \E p : PowerUpTo(p, n)
<1> DEFINE g == CHOOSE p : PowerUpTo(p, n - 1)
           h == [i \in 0..n |-> IF i = 0 THEN 1 ELSE Multiplier * g[i - 1]]
<1>1. ASSUME NEW i \in 0..n PROVE h[i] = IF i = 0 THEN 1 ELSE Multiplier * h[i - 1]
  <2>1. CASE i = 0 BY <2>1
  <2>2. CASE i # 0
    <3>1. n # 0 /\ i - 1 \in 0..(n - 1) /\ i - 1 \in 0..n BY <2>2
    <3>2. PowerUpTo(g, n - 1) BY <3>1
    <3>3. h[i - 1] = IF i - 1 = 0 THEN 1 ELSE Multiplier * g[(i - 1) - 1] BY <3>1
    <3>4. h[i] = Multiplier * g[i - 1] BY <2>2
    <3> HIDE DEF g, h
    <3>5. g[i - 1] = IF i - 1 = 0 THEN 1 ELSE Multiplier * g[(i - 1) - 1]
      BY <3>1, <3>2 DEF PowerUpTo
    <3> QED BY <2>2, <3>3, <3>4, <3>5
  <2> QED BY <2>1, <2>2
<1>2. h = [i \in 0..n |-> IF i = 0 THEN 1 ELSE Multiplier * h[i - 1]] BY <1>1, Zenon
<1> QED BY <1>2 DEF PowerUpTo

LEMMA PowerUnfolds ==
    /\ Power[0] = 1
    /\ \A n \in 1..(MaxInterval + 1) : Power[n] = Multiplier * Power[n - 1]
<1>1. \A n \in Nat : \E p : PowerUpTo(p, n)
  <2> DEFINE bad == {n \in Nat : ~\E p : PowerUpTo(p, n)}
  <2>1. SUFFICES ASSUME bad # {} PROVE FALSE
    OBVIOUS
  <2>2. PICK m \in bad : \A n \in bad : m <= n
    <3>1. bad \in SUBSET Nat OBVIOUS
    <3> HIDE DEF bad
    <3> QED BY <2>1, <3>1, LeastOf
  <2>3. m = 0 \/ \E p : PowerUpTo(p, m - 1)
    <3>1. m = 0 \/ m - 1 \notin bad
      <4>1. m \in Nat OBVIOUS
      <4> HIDE DEF bad
      <4> QED BY <2>2, <4>1
    <3> QED BY <3>1
  <2> QED BY <2>2, <2>3, PowerExtends
<1>2. MaxInterval + 1 \in Nat BY ConfigNumbers
<1>3. PowerUpTo(Power, MaxInterval + 1)
  <2>1. \E p : PowerUpTo(p, MaxInterval + 1) BY <1>1, <1>2
  <2>2. Power = CHOOSE p : PowerUpTo(p, MaxInterval + 1)
    BY Zenon DEF Power, PowerUpTo
  <2> QED BY <2>1, <2>2
<1>4. \A n \in 0..(MaxInterval + 1) :
         Power[n] = IF n = 0 THEN 1 ELSE Multiplier * Power[n - 1]
  <2> DEFINE p == Power
  <2> HIDE DEF p
  <2>1. p = [i \in 0..(MaxInterval + 1) |-> IF i = 0 THEN 1 ELSE Multiplier * p[i - 1]]
    BY <1>3 DEF PowerUpTo, p
  <2>2. \A n \in 0..(MaxInterval + 1) : p[n] = IF n = 0 THEN 1 ELSE Multiplier * p[n - 1]
    BY <2>1
  <2> QED BY <2>2 DEF p
<1> QED BY <1>2, <1>4

(* A multiplier of 1 never grows, and any other outgrows its exponent.     *)
LEMMA PowerGrows ==
    ASSUME NEW n \in 0..(MaxInterval + 1)
    PROVE  /\ Power[n] \in Nat /\ Power[n] >= 1
           /\ Multiplier # 1 => Power[n] >= n
<1> USE ConfigNumbers
<1> DEFINE Grown(i) == /\ Power[i] \in Nat /\ Power[i] >= 1
                       /\ Multiplier # 1 => Power[i] >= i + 1
           bad == {i \in 0..(MaxInterval + 1) : ~Grown(i)}
<1>1. bad = {}
  <2>1. SUFFICES ASSUME bad # {} PROVE FALSE
    OBVIOUS
  <2>2. PICK m \in bad : \A i \in bad : m <= i
    <3>1. bad \in SUBSET Nat OBVIOUS
    <3> HIDE DEF bad
    <3> QED BY <2>1, <3>1, LeastOf
  <2>3. m \in 0..(MaxInterval + 1) /\ ~Grown(m) OBVIOUS
  <2>4. m # 0 BY <2>3, PowerUnfolds
  <2>5. m - 1 \notin bad /\ m - 1 \in 0..(MaxInterval + 1)
    <3> HIDE DEF bad
    <3> QED BY <2>2, <2>3, <2>4
  <2>6. Grown(m - 1) BY <2>5
  <2>7. Power[m] = Multiplier * Power[m - 1] BY <2>3, <2>4, PowerUnfolds
  <2> DEFINE q == Power[m - 1]
  <2>8. q \in Nat /\ q >= 1 /\ (Multiplier # 1 => q >= m) BY <2>3, <2>6
  <2> HIDE DEF q, bad
  <2>9. Multiplier * q \in Nat /\ Multiplier * q >= q
    <3>1. \A a, b \in Nat : a >= 1 => a * b \in Nat /\ a * b >= b OBVIOUS
    <3> QED BY <2>8, <3>1
  <2>10. Multiplier # 1 => Multiplier * q >= m + 1
    <3>1. \A a, b \in Nat : a >= 2 => a * b >= 2 * b OBVIOUS
    <3>2. Multiplier # 1 => Multiplier * q >= 2 * q BY <2>8, <3>1
    <3> QED BY <2>3, <2>8, <2>9, <3>2
  <2>11. Power[m] = Multiplier * q BY <2>7 DEF q
  <2> QED BY <2>3, <2>8, <2>9, <2>10, <2>11
<1>2. Grown(n) BY <1>1
<1> QED BY <1>2

-----------------------------------------------------------------------------
(* The interval follows the silence                                        *)

LEMMA MultipliedOnce ==
    ASSUME NEW a \in Nat
    PROVE  Least(Least(a, MaxInterval) * Multiplier, MaxInterval)
              = Least(a * Multiplier, MaxInterval)
<1> USE ConfigNumbers
<1>1. \A i, m \in Nat : m # 0 => i * m \in Nat /\ i * m >= i
  OBVIOUS
<1>2. a * Multiplier \in Nat /\ a * Multiplier >= a BY <1>1
<1>3. MaxInterval * Multiplier \in Nat /\ MaxInterval * Multiplier >= MaxInterval BY <1>1
<1>4. CASE a < MaxInterval BY <1>4 DEF Least
<1>5. CASE ~(a < MaxInterval)
  <2>1. Least(a, MaxInterval) = MaxInterval BY <1>5 DEF Least
  <2>2. Least(MaxInterval * Multiplier, MaxInterval) = MaxInterval BY <1>3 DEF Least
  <2>3. Least(a * Multiplier, MaxInterval) = MaxInterval BY <1>2, <1>5 DEF Least
  <2> QED BY <2>1, <2>2, <2>3
<1> QED BY <1>4, <1>5

(* How long the silence lasts after a window, as WindowEnds counts it.     *)
SilenceAfter(found, windows) == IF found THEN 0 ELSE Least(windows + 1, MaxSilence)

(* The fields that remember the silence, for a silence of so many windows. *)
Remembers(s, windows) ==
    /\ s.consecutiveEmptyWindows = Least(windows, EmptyWindows)
    /\ s.effectiveInterval = IntervalAfter(windows)

(* The backoff of a window that ends is the one its silence calls for.     *)
LEMMA BackoffFollows ==
    ASSUME NEW s \in Scan, NEW windows \in 0..MaxSilence, Remembers(s, windows)
    PROVE  Remembers(BackedOff(s), SilenceAfter(s.foundThisWindow, windows))
<1> USE ConfigNumbers
<1> DEFINE empty == Least(s.consecutiveEmptyWindows + 1, EmptyWindows)
           after == SilenceAfter(s.foundThisWindow, windows)
<1>1. MaxSilence \in Nat /\ MaxSilence = EmptyWindows + MaxInterval /\ windows \in Nat
  BY DEF MaxSilence
<1>2. CASE s.foundThisWindow
  <2>1. after = 0 BY <1>2 DEF SilenceAfter
  <2>2. BackedOff(s).consecutiveEmptyWindows = 0 /\ BackedOff(s).effectiveInterval = Interval
    BY <1>2 DEF BackedOff, Scan
  <2> HIDE DEF after
  <2>3. Remembers(BackedOff(s), after) BY <2>1, <2>2 DEF Remembers, IntervalAfter, Least
  <2> QED BY <2>3 DEF after
<1>3. CASE ~s.foundThisWindow
  <2>1. after = Least(windows + 1, MaxSilence) BY <1>3 DEF SilenceAfter
  <2>2. /\ BackedOff(s).consecutiveEmptyWindows = empty
        /\ BackedOff(s).effectiveInterval =
              IF empty < EmptyWindows THEN s.effectiveInterval
              ELSE Least(s.effectiveInterval * Multiplier, MaxInterval)
    BY <1>3 DEF BackedOff, Scan
  <2>3. empty = Least(after, EmptyWindows)
    BY <1>1, <2>1 DEF Remembers, Least
  <2>4. BackedOff(s).effectiveInterval = IntervalAfter(after)
    <3> DEFINE k == windows - EmptyWindows + 1
    <3> HIDE DEF after, empty
    <3>1. CASE windows + 1 < EmptyWindows
      <4>1. after = windows + 1 /\ empty < EmptyWindows
        BY <1>1, <2>1, <2>3, <3>1 DEF Least
      <4>2. s.effectiveInterval = Interval BY <1>1, <3>1 DEF Remembers, IntervalAfter
      <4> QED BY <2>2, <3>1, <4>1, <4>2 DEF IntervalAfter
    <3>2. CASE windows + 1 = EmptyWindows
      <4>1. after = EmptyWindows /\ ~(empty < EmptyWindows)
        BY <1>1, <2>1, <2>3, <3>2 DEF Least
      <4>2. s.effectiveInterval = Interval BY <1>1, <3>2 DEF Remembers, IntervalAfter
      <4>3. 1 \in 1..(MaxInterval + 1) /\ 1 - 1 = 0 OBVIOUS
      <4>4. Power[1] = Multiplier BY <4>3, PowerUnfolds
      <4>5. IntervalAfter(after) = Least(Interval * Power[1], MaxInterval)
        BY <4>1 DEF IntervalAfter
      <4> QED BY <2>2, <4>1, <4>2, <4>4, <4>5
    <3>3. CASE EmptyWindows <= windows
      <4> DEFINE a == Interval * Power[k]
      <4>1. k \in 1..(MaxInterval + 1) BY <1>1, <3>3
      <4>2. Power[k] \in Nat /\ Power[k] >= 1 /\ (Multiplier # 1 => Power[k] >= k)
        BY <4>1, PowerGrows
      <4>3. s.effectiveInterval = Least(a, MaxInterval)
        BY <1>1, <3>3 DEF Remembers, IntervalAfter
      <4>4. a \in Nat /\ a >= Power[k]
        <5>1. \A i, m \in Nat : i # 0 => i * m \in Nat /\ i * m >= m OBVIOUS
        <5> QED BY <4>2, <5>1
      <4>5. ~(empty < EmptyWindows)
        BY <1>1, <2>1, <2>3, <3>3 DEF Least
      <4>6. BackedOff(s).effectiveInterval = Least(a * Multiplier, MaxInterval)
        <5> HIDE DEF a
        <5> QED BY <2>2, <4>3, <4>4, <4>5, MultipliedOnce
      <4>7. CASE windows < MaxSilence
        <5>1. after = windows + 1 BY <1>1, <2>1, <4>7 DEF Least
        <5>2. k + 1 \in 1..(MaxInterval + 1) /\ (k + 1) - 1 = k BY <1>1, <4>1, <4>7
        <5>3. Power[k + 1] = Multiplier * Power[k] BY <5>2, PowerUnfolds
        <5>4. Interval * Power[k + 1] = a * Multiplier
          <6> DEFINE q == Power[k]
          <6>1. q \in Nat BY <4>2
          <6>2. \A i, m, n \in Nat : i * (m * n) = (i * n) * m OBVIOUS
          <6>3. Interval * (Multiplier * q) = (Interval * q) * Multiplier
            BY <6>1, <6>2
          <6> QED BY <5>3, <6>3
        <5>5. after - EmptyWindows + 1 = k + 1 /\ ~(after < EmptyWindows)
          BY <1>1, <3>3, <5>1
        <5>6. IntervalAfter(after) = Least(Interval * Power[k + 1], MaxInterval)
          BY <5>5 DEF IntervalAfter
        <5> QED BY <4>6, <5>4, <5>6
      <4>8. CASE windows = MaxSilence
        <5>1. after = windows BY <1>1, <2>1, <4>8 DEF Least
        <5>2. IntervalAfter(after) = Least(a, MaxInterval)
          BY <1>1, <3>3, <5>1 DEF IntervalAfter
        <5>3. k = MaxInterval + 1 BY <1>1, <4>8
        <5> HIDE DEF a, k
        <5>4. CASE Multiplier = 1
          BY <4>4, <4>6, <5>2, <5>4
        <5>5. CASE Multiplier # 1
          <6>1. a > MaxInterval BY <4>2, <4>4, <5>3, <5>5
          <6>2. a * Multiplier \in Nat /\ a * Multiplier >= a
            <7>1. \A i, m \in Nat : m # 0 => i * m \in Nat /\ i * m >= i OBVIOUS
            <7> QED BY <4>4, <7>1
          <6>3. Least(a, MaxInterval) = MaxInterval BY <4>4, <6>1 DEF Least
          <6>4. Least(a * Multiplier, MaxInterval) = MaxInterval BY <6>1, <6>2, <4>4 DEF Least
          <6> QED BY <4>6, <5>2, <6>3, <6>4
        <5> QED BY <5>4, <5>5
      <4> QED BY <1>1, <4>7, <4>8
    <3> QED BY <1>1, <3>1, <3>2, <3>3
  <2> HIDE DEF after, empty
  <2>5. Remembers(BackedOff(s), after) BY <2>2, <2>3, <2>4 DEF Remembers
  <2> QED BY <2>5 DEF after
<1> QED BY <1>2, <1>3

(* The fields the backoff reads, which opening a window and stopping leave *)
(* alone.                                                                  *)
Memory(s) == <<s.consecutiveEmptyWindows, s.effectiveInterval, s.foundThisWindow>>

LEMMA OpeningForgetsNothing ==
    ASSUME NEW s \in Pair
    PROVE  Memory(WindowOpened(s).scan) = Memory(s.scan)
<1>1. scheduleDelayed(s, "finishWindow", Window).scan = s.scan
      /\ DOMAIN scheduleDelayed(s, "finishWindow", Window) = {"scan", "timers"}
  BY DEF scheduleDelayed, Pair
<1>2. WindowOpened(s).scan = [s.scan EXCEPT !.windowEndHandle = newHandle(s)]
  BY <1>1 DEF WindowOpened
<1>3. s.scan \in Scan BY DEF Pair
<1> QED BY <1>2, <1>3 DEF Memory, Scan

LEMMA StoppingForgetsNothing ==
    ASSUME NEW s \in Pair
    PROVE  Memory(Stopped(s).scan) = Memory(s.scan)
<1> DEFINE cancelled == cancel(cancel(s, s.scan.nextWindowHandle), s.scan.windowEndHandle)
<1>1. s.scan \in Scan BY DEF Pair
<1>2. cancelled.scan = s.scan /\ DOMAIN cancelled = {"scan", "timers"}
  BY DEF cancel, Pair
<1>3. CASE ~s.scan.running BY <1>3 DEF Stopped
<1>4. CASE s.scan.running
  <2> HIDE DEF cancelled
  <2>1. Stopped(s).scan = [s.scan EXCEPT !.running = FALSE, !.nextWindowHandle = NoHandle,
                                         !.windowEndHandle = NoHandle]
    BY <1>2, <1>4 DEF Stopped, cancelled
  <2> QED BY <1>1, <2>1 DEF Memory, Scan
<1> QED BY <1>3, <1>4

(* Whatever its callback does, a window that ends backs off by what it     *)
(* found.                                                                  *)
LEMMA EndingBacksOff ==
    ASSUME NEW s \in Pair, s.timers = {}, NEW callback \in {"nothing", "stop"},
           NEW windows \in 0..MaxSilence, Remembers(s.scan, windows)
    PROVE  Remembers(finishWindow(s, callback).scan,
                     SilenceAfter(s.scan.foundThisWindow, windows))
<1> DEFINE called == CalledBack(s, callback)
           backed == [called EXCEPT !.scan = BackedOff(@)]
           pause == Greatest(backed.scan.effectiveInterval - Window, 0)
           ended == finishWindow(s, callback)
<1>1. called \in Pair /\ Memory(called.scan) = Memory(s.scan)
  <2>1. CASE callback = "nothing"
    BY <2>1 DEF CalledBack
  <2>2. CASE callback = "stop"
    <3>1. called = Stopped(s) BY <2>2 DEF CalledBack
    <3> QED BY <3>1, StoppedIsIdle, StoppingForgetsNothing
  <2> QED BY <2>1, <2>2
<1>2. Remembers(called.scan, windows) /\ called.scan.foundThisWindow = s.scan.foundThisWindow
  <2> HIDE DEF called
  <2> QED BY <1>1 DEF Remembers, Memory
<1>3. backed \in Pair /\ backed.scan = BackedOff(called.scan)
  <2> HIDE DEF called
  <2>1. called.scan \in Scan BY <1>1 DEF Pair
  <2>2. BackedOff(called.scan) \in Scan BY <2>1, BackoffStaysInRange
  <2> QED BY <1>1, <2>2 DEF Pair
<1>4. Remembers(backed.scan, SilenceAfter(s.scan.foundThisWindow, windows))
  <2>1. called.scan \in Scan BY <1>1 DEF Pair
  <2> HIDE DEF called, backed
  <2> QED BY <1>2, <1>3, <2>1, BackoffFollows
<1>5. ended = IF ~backed.scan.running THEN backed
              ELSE [scheduleDelayed(backed, "runWindow", pause)
                       EXCEPT !.scan.nextWindowHandle = newHandle(backed)]
  BY DEF finishWindow
<1> HIDE DEF called, backed, pause, ended
<1>6. /\ ended.scan.consecutiveEmptyWindows = backed.scan.consecutiveEmptyWindows
      /\ ended.scan.effectiveInterval = backed.scan.effectiveInterval
  <2>1. scheduleDelayed(backed, "runWindow", pause).scan = backed.scan
        /\ DOMAIN scheduleDelayed(backed, "runWindow", pause) = {"scan", "timers"}
    BY <1>3 DEF scheduleDelayed, Pair
  <2>2. ended.scan = IF ~backed.scan.running THEN backed.scan
                     ELSE [backed.scan EXCEPT !.nextWindowHandle = newHandle(backed)]
    BY <1>5, <2>1
  <2>3. backed.scan \in Scan BY <1>3 DEF Pair
  <2> QED BY <2>2, <2>3 DEF Scan
<1>7. Remembers(ended.scan, SilenceAfter(s.scan.foundThisWindow, windows))
  BY <1>4, <1>6 DEF Remembers
<1> QED BY <1>7 DEF ended

(* The count of empty windows saturates where the silence begins to tell,  *)
(* and while a window is open the scheduler knows whether it has heard.    *)
SilenceInv ==
    /\ ChainInv
    /\ Remembers(scan, silence)
    /\ open => scan.foundThisWindow = heard

LEMMA SilenceKept == Behaved /\ SilenceInv /\ [Next]_vars => SilenceInv'
<1> SUFFICES ASSUME Behaved, SilenceInv, [Next]_vars PROVE SilenceInv'
  OBVIOUS
<1>0. /\ ChainInv /\ ChainInv'
      /\ Now \in Pair /\ Now.scan = scan /\ Now.timers = timers
      /\ scan \in Scan /\ silence \in 0..MaxSilence
  BY ChainKept DEF SilenceInv, ChainInv, TypeOK, Now, Pair
<1>1. ASSUME NEW s \in Pair, Becomes(s), Memory(s.scan) = Memory(scan), silence' = silence
      PROVE  /\ Remembers(scan', silence')
             /\ scan'.foundThisWindow = scan.foundThisWindow
  <2>1. scan' = s.scan BY <1>1 DEF Becomes
  <2>2. Remembers(scan, silence) BY DEF SilenceInv
  <2> QED BY <1>1, <2>1, <2>2 DEF Remembers, Memory
<1>2. ASSUME NEW s \in Pair, NEW t \in Pair, t = [s EXCEPT !.scan.foundThisWindow = FALSE],
             s.scan.consecutiveEmptyWindows = scan.consecutiveEmptyWindows,
             s.scan.effectiveInterval = scan.effectiveInterval,
             Becomes(WindowOpened(t)), silence' = silence, heard' = FALSE
      PROVE  SilenceInv'
  <2>1. /\ t.scan.consecutiveEmptyWindows = scan.consecutiveEmptyWindows
        /\ t.scan.effectiveInterval = scan.effectiveInterval
        /\ t.scan.foundThisWindow = FALSE
    BY <1>2 DEF Pair, Scan
  <2>2. Memory(WindowOpened(t).scan) = Memory(t.scan) BY OpeningForgetsNothing
  <2>3. scan' = WindowOpened(t).scan BY <1>2 DEF Becomes
  <2>4. /\ scan'.consecutiveEmptyWindows = scan.consecutiveEmptyWindows
        /\ scan'.effectiveInterval = scan.effectiveInterval
        /\ scan'.foundThisWindow = FALSE
    BY <2>1, <2>2, <2>3 DEF Memory
  <2>5. Remembers(scan', silence')
    BY <1>2, <2>4 DEF SilenceInv, Remembers
  <2> QED BY <1>0, <1>2, <2>4, <2>5 DEF SilenceInv
<1>3. CASE start
  <2>1. PICK callback \in StartCallback :
           Becomes(runWindow([Now EXCEPT !.scan.running = TRUE], callback))
    BY <1>3 DEF start
  <2> DEFINE s == [Now EXCEPT !.scan.running = TRUE]
             t == [s EXCEPT !.scan.foundThisWindow = FALSE]
  <2>2. /\ s \in Pair
        /\ s.scan.consecutiveEmptyWindows = scan.consecutiveEmptyWindows
        /\ s.scan.effectiveInterval = scan.effectiveInterval
    BY <1>0 DEF Pair, Scan
  <2>3. Becomes(WindowOpened(t))
    BY <2>1 DEF runWindow, CalledBack, Behaved
  <2> HIDE DEF s
  <2>4. t \in Pair BY <2>2 DEF Pair, Scan
  <2> HIDE DEF t
  <2>5. t = [s EXCEPT !.scan.foundThisWindow = FALSE] BY DEF t
  <2>6. silence' = silence /\ heard' = FALSE BY <1>3 DEF start
  <2> QED BY <1>2, <2>2, <2>3, <2>4, <2>5, <2>6
<1>4. CASE stop
  <2>1. Stopped(Now) \in Pair
    <3>1. scan.running /\ \E isOpen \in BOOLEAN : Pending(Now, isOpen)
      BY <1>0, <1>4 DEF stop, ChainInv, TypeOK
    <3> QED BY <1>0, <3>1, StoppedIsIdle
  <2>2. Memory(Stopped(Now).scan) = Memory(scan) BY <1>0, StoppingForgetsNothing
  <2>3. Remembers(scan', silence')
    BY <1>1, <1>4, <2>1, <2>2 DEF stop
  <2> QED BY <1>0, <1>4, <2>3 DEF stop, SilenceInv
<1>5. CASE reportPeersFoundThisWindow
  <2>1. /\ scan'.consecutiveEmptyWindows = scan.consecutiveEmptyWindows
        /\ scan'.effectiveInterval = scan.effectiveInterval
        /\ scan'.foundThisWindow = TRUE
        /\ open' = open /\ silence' = silence /\ heard' = (heard \/ open)
    BY <1>0, <1>5 DEF reportPeersFoundThisWindow, Scan
  <2>2. Remembers(scan', silence')
    BY <2>1 DEF SilenceInv, Remembers
  <2>3. open' => scan'.foundThisWindow = heard'
    BY <2>1
  <2> QED BY <1>0, <2>2, <2>3 DEF SilenceInv
<1>6. ASSUME NEW t \in timers, t.left = 0
      PROVE  /\ timers = {t} /\ scan.running /\ (t.task = "finishWindow") = open
             /\ Fires(t) \in Pair /\ Fires(t).timers = {} /\ Fires(t).scan = scan
  <2>1. timers = {t} /\ scan.running /\ (t.task = "finishWindow") = open
    BY <1>0, <1>6 DEF ChainInv, Pending
  <2>2. Fires(t) = [scan |-> scan, timers |-> {}]
    BY <2>1 DEF Fires, Now
  <2> QED BY <1>0, <2>1, <2>2 DEF Pair
<1>7. CASE WindowStarts
  <2>1. PICK r \in timers : /\ r.left = 0
           /\ \E callback \in StartCallback : Becomes(runWindow(Fires(r), callback))
           /\ heard' = FALSE /\ silence' = silence
    BY <1>6, <1>7 DEF WindowStarts
  <2> DEFINE t == [Fires(r) EXCEPT !.scan.foundThisWindow = FALSE]
  <2>2. Fires(r) \in Pair /\ Fires(r).scan = scan BY <1>6, <2>1
  <2>3. Becomes(WindowOpened(t))
    BY <2>1 DEF runWindow, CalledBack, Behaved
  <2>4. t \in Pair BY <2>2 DEF Pair, Scan
  <2> HIDE DEF t
  <2>5. t = [Fires(r) EXCEPT !.scan.foundThisWindow = FALSE] BY DEF t
  <2> QED BY <1>2, <2>1, <2>2, <2>3, <2>4, <2>5
<1>8. CASE WindowEnds
  <2>1. PICK t \in timers : /\ t.task = "finishWindow" /\ t.left = 0
           /\ \E callback \in EndCallback : Becomes(finishWindow(Fires(t), callback))
           /\ open' = FALSE
           /\ silence' = IF heard THEN 0 ELSE Least(silence + 1, MaxSilence)
    BY <1>8 DEF WindowEnds
  <2>2. PICK callback \in {"nothing", "stop"} : Becomes(finishWindow(Fires(t), callback))
    BY <2>1 DEF Behaved
  <2>3. /\ Fires(t) \in Pair /\ Fires(t).timers = {} /\ Fires(t).scan = scan /\ open
    BY <1>6, <2>1
  <2>4. Remembers(scan, silence) /\ scan.foundThisWindow = heard
    BY <2>3 DEF SilenceInv
  <2>5. Remembers(finishWindow(Fires(t), callback).scan, SilenceAfter(scan.foundThisWindow, silence))
    BY <1>0, <2>3, <2>4, EndingBacksOff
  <2>6. silence' = SilenceAfter(scan.foundThisWindow, silence)
    BY <2>1, <2>4 DEF SilenceAfter
  <2>7. scan' = finishWindow(Fires(t), callback).scan BY <2>2 DEF Becomes
  <2>8. Remembers(scan', silence') BY <2>5, <2>6, <2>7
  <2> QED BY <1>0, <2>1, <2>8 DEF SilenceInv
<1>9. CASE Tick
  BY <1>0, <1>9 DEF Tick, SilenceInv, Remembers
<1>10. CASE UNCHANGED vars
  BY <1>0, <1>10 DEF vars, SilenceInv, Remembers
<1> QED
  BY <1>3, <1>4, <1>5, <1>7, <1>8, <1>9, <1>10 DEF Next

(* The pause between two windows is what the windows since the last peer   *)
(* call for: the count the scheduler keeps, and the interval it multiplies *)
(* step by step, never drift from that, however it is stopped and started. *)
THEOREM IntervalIsDue == Behaved => (Spec => []IntervalFollowsSilence)
<1>1. Init => SilenceInv
  <2> SUFFICES ASSUME Init PROVE SilenceInv
    OBVIOUS
  <2>1. Remembers(scan, silence)
    BY ConfigNumbers DEF Init, Remembers, IntervalAfter, Least
  <2> QED BY <2>1, ChainInit DEF Init, SilenceInv
<1>2. SilenceInv => IntervalFollowsSilence
  BY DEF SilenceInv, Remembers, IntervalFollowsSilence
<1>3. Behaved => Behaved' BY DEF Behaved
<1> QED BY <1>1, <1>2, <1>3, SilenceKept, PTL DEF Spec

=============================================================================
