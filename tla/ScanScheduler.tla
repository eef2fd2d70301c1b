--------------------------- MODULE ScanScheduler ---------------------------
(***************************************************************************)
(* ScanScheduler over TimerSchedulerPort: scan windows, the pauses between *)
(* them, and the backoff that lengthens the pauses while nobody is found.  *)
(*                                                                         *)
(* A timer fires at its delay or later, as setTimeout does.  The callbacks *)
(* run inside the scheduler's own methods, and what they call there runs   *)
(* before those go on.                                                     *)
(***************************************************************************)
EXTENDS Integers, FiniteSets

CONSTANTS
    Window, Interval, MaxInterval, Multiplier, EmptyWindows,
                    (* ScanScheduleConfig, in ticks of the model's clock    *)
    StartCallback,  (* what onWindowStart may call,                         *)
    EndCallback     (* and onWindowEnd                                      *)

(* The constructor checks that the window fits the interval, and nothing   *)
(* else: a maximum below the interval, or below the window, is accepted.   *)
(* That the settings are whole and positive is this model's own limit.     *)
ASSUME ConfigAssumption ==
    /\ {Window, Interval, MaxInterval, Multiplier, EmptyWindows} \subseteq Nat \ {0}
    /\ Window <= Interval
ASSUME CallbackAssumption == StartCallback \cup EndCallback \subseteq {"nothing", "stop", "restart"}

VARIABLES
    scan,           (* the fields of the ScanScheduler                      *)
    timers,         (* timersById: what a handle will do, and when          *)
    open,           (* history: a window has started and not ended          *)
    heard,          (* history: a peer was reported in that window          *)
    silence         (* history: windows that ended since one heard of a     *)
                    (* peer; it saturates once the interval has             *)

vars == <<scan, timers, open, heard, silence>>

MaxSilence == EmptyWindows + MaxInterval

Handle == 1..4

NoHandle == 0

Least(a, b) == IF a < b THEN a ELSE b

Greatest(a, b) == IF a > b THEN a ELSE b

Shortest == Least(Interval, MaxInterval)

Longest == Greatest(Interval, MaxInterval)

(* consecutiveEmptyWindows is compared with EmptyWindows and nothing else: *)
(* it saturates there.                                                     *)
Scan == [running : BOOLEAN, effectiveInterval : Shortest..Longest,
         consecutiveEmptyWindows : 0..EmptyWindows, foundThisWindow : BOOLEAN,
         nextWindowHandle : Handle \cup {NoHandle}, windowEndHandle : Handle \cup {NoHandle}]

Timer == [handle : Handle, task : {"finishWindow", "runWindow"}, left : 0..Longest]

TypeOK ==
    /\ scan \in Scan
    /\ timers \subseteq Timer
    /\ open \in BOOLEAN /\ heard \in BOOLEAN /\ silence \in 0..MaxSilence

Init ==
    /\ scan = [running |-> FALSE, effectiveInterval |-> Interval, consecutiveEmptyWindows |-> 0,
               foundThisWindow |-> FALSE,
               nextWindowHandle |-> NoHandle, windowEndHandle |-> NoHandle]
    /\ timers = {}
    /\ open = FALSE /\ heard = FALSE /\ silence = 0

-----------------------------------------------------------------------------
(* TimerSchedulerPort, on the pair [scan, timers] the methods work on.  A  *)
(* handle is new when neither a timer nor a field has it.                  *)

newHandle(s) ==
    CHOOSE h \in Handle : /\ \A t \in s.timers : t.handle # h
                          /\ h \notin {s.scan.nextWindowHandle, s.scan.windowEndHandle}

cancel(s, h) == [s EXCEPT !.timers = {t \in @ : t.handle # h}]

scheduleDelayed(s, task, delay) ==
    [s EXCEPT !.timers = @ \cup {[handle |-> newHandle(s), task |-> task, left |-> delay]}]

-----------------------------------------------------------------------------
(* ScanScheduler, as operators that return the pair they leave             *)

(* Faulty variant: only the pause is cancelled.                            *)
Stopped_window_left(s) ==
    LET cancelled == cancel(s, s.scan.nextWindowHandle) IN
    IF ~s.scan.running THEN s
    ELSE [cancelled EXCEPT !.scan.running = FALSE,
                           !.scan.nextWindowHandle = NoHandle, !.scan.windowEndHandle = NoHandle]

Stopped(s) ==
    LET cancelled == cancel(cancel(s, s.scan.nextWindowHandle), s.scan.windowEndHandle) IN
    IF ~s.scan.running THEN s
    ELSE [cancelled EXCEPT !.scan.running = FALSE,
                           !.scan.nextWindowHandle = NoHandle, !.scan.windowEndHandle = NoHandle]

(* runWindow after its callback.                                           *)
WindowOpened(s) ==
    [scheduleDelayed(s, "finishWindow", Window) EXCEPT !.scan.windowEndHandle = newHandle(s)]

Started(s) ==
    IF s.scan.running THEN s
    ELSE WindowOpened([s EXCEPT !.scan.running = TRUE, !.scan.foundThisWindow = FALSE])

CalledBack(s, callback) ==
    CASE callback = "nothing" -> s
      [] callback = "stop"    -> Stopped(s)
      [] callback = "restart" -> Started(Stopped(s))

runWindow(s, callback) ==
    WindowOpened(CalledBack([s EXCEPT !.scan.foundThisWindow = FALSE], callback))

(* Faulty variant: the count of empty windows outlives one that was not.   *)
BackedOff_count_kept(s) ==
    LET empty == Least(s.consecutiveEmptyWindows + 1, EmptyWindows) IN
    IF s.foundThisWindow THEN [s EXCEPT !.effectiveInterval = Interval]
    ELSE [s EXCEPT !.consecutiveEmptyWindows = empty,
                   !.effectiveInterval = IF empty < EmptyWindows THEN @
                                         ELSE Least(@ * Multiplier, MaxInterval)]

(* Faulty variant: the last multiplication may pass the maximum.           *)
BackedOff_uncapped(s) ==
    LET empty == Least(s.consecutiveEmptyWindows + 1, EmptyWindows) IN
    IF s.foundThisWindow
    THEN [s EXCEPT !.consecutiveEmptyWindows = 0, !.effectiveInterval = Interval]
    ELSE [s EXCEPT !.consecutiveEmptyWindows = empty,
                   !.effectiveInterval = IF empty < EmptyWindows \/ @ >= MaxInterval THEN @
                                         ELSE @ * Multiplier]

BackedOff(s) ==
    LET empty == Least(s.consecutiveEmptyWindows + 1, EmptyWindows) IN
    IF s.foundThisWindow
    THEN [s EXCEPT !.consecutiveEmptyWindows = 0, !.effectiveInterval = Interval]
    ELSE [s EXCEPT !.consecutiveEmptyWindows = empty,
                   !.effectiveInterval = IF empty < EmptyWindows THEN @
                                         ELSE Least(@ * Multiplier, MaxInterval)]

(* Faulty variant: an interval no longer than the window ends the chain.   *)
finishWindow_unless_pause(s, callback) ==
    LET called == CalledBack(s, callback)
        backed == [called EXCEPT !.scan = BackedOff(@)]
        pause == Greatest(backed.scan.effectiveInterval - Window, 0)
    IN IF ~backed.scan.running \/ pause = 0 THEN backed
       ELSE [scheduleDelayed(backed, "runWindow", pause)
                EXCEPT !.scan.nextWindowHandle = newHandle(backed)]

finishWindow(s, callback) ==
    LET called == CalledBack(s, callback)
        backed == [called EXCEPT !.scan = BackedOff(@)]
        pause == Greatest(backed.scan.effectiveInterval - Window, 0)
    IN IF ~backed.scan.running THEN backed
       ELSE [scheduleDelayed(backed, "runWindow", pause)
                EXCEPT !.scan.nextWindowHandle = newHandle(backed)]

-----------------------------------------------------------------------------

Now == [scan |-> scan, timers |-> timers]

Becomes(s) == scan' = s.scan /\ timers' = s.timers

start ==
    /\ ~scan.running
    /\ \E callback \in StartCallback :
          Becomes(runWindow([Now EXCEPT !.scan.running = TRUE], callback))
    /\ open' = TRUE /\ heard' = FALSE
    /\ UNCHANGED silence

stop ==
    /\ scan.running
    /\ Becomes(Stopped(Now))
    /\ open' = FALSE
    /\ UNCHANGED <<heard, silence>>

(* The caller may report at any time; a report between windows, or while   *)
(* nothing runs, is forgotten when the next window opens.                  *)
reportPeersFoundThisWindow ==
    /\ scan' = [scan EXCEPT !.foundThisWindow = TRUE]
    /\ heard' = (heard \/ open)
    /\ UNCHANGED <<timers, open, silence>>

(* A timer is gone from timersById when its task runs.                     *)
Fires(t) == [Now EXCEPT !.timers = @ \ {t}]

WindowStarts ==
    \E t \in timers :
        /\ t.task = "runWindow" /\ t.left = 0
        /\ IF ~scan.running THEN Becomes(Fires(t)) /\ UNCHANGED <<open, heard>>
           ELSE /\ \E callback \in StartCallback : Becomes(runWindow(Fires(t), callback))
                /\ open' = TRUE /\ heard' = FALSE
        /\ UNCHANGED silence

WindowEnds ==
    \E t \in timers :
        /\ t.task = "finishWindow" /\ t.left = 0
        /\ \E callback \in EndCallback : Becomes(finishWindow(Fires(t), callback))
        /\ open' = FALSE
        /\ silence' = IF heard THEN 0 ELSE Least(silence + 1, MaxSilence)
        /\ UNCHANGED heard

(* One tick of the clock; a timer that is due may wait.                    *)
Tick ==
    /\ timers # {}
    /\ timers' = {[t EXCEPT !.left = IF @ = 0 THEN 0 ELSE @ - 1] : t \in timers}
    /\ UNCHANGED <<scan, open, heard, silence>>

Next == start \/ stop \/ reportPeersFoundThisWindow \/ WindowStarts \/ WindowEnds \/ Tick

(* Time passes, and a timer that is due fires.                             *)
Spec == Init /\ [][Next]_vars /\ WF_vars(Tick) /\ WF_vars(WindowStarts) /\ WF_vars(WindowEnds)

-----------------------------------------------------------------------------
(* Properties *)

(* While it runs, exactly one timer is pending, which ends the open window *)
(* or starts the next; once stopped, none is, so no callback comes late.   *)
OneChain ==
    /\ Cardinality(timers) = IF scan.running THEN 1 ELSE 0
    /\ \A t \in timers : (t.task = "finishWindow") = open

(* The interval in force is what the silence so far calls for: the         *)
(* baseline until EmptyWindows windows in a row heard of nobody, and one   *)
(* multiplication, cut at the maximum, for that one and each after it.     *)
Power[n \in 0..(MaxInterval + 1)] == IF n = 0 THEN 1 ELSE Multiplier * Power[n - 1]

IntervalAfter(windows) ==
    IF windows < EmptyWindows THEN Interval
    ELSE Least(Interval * Power[windows - EmptyWindows + 1], MaxInterval)

IntervalFollowsSilence == scan.effectiveInterval = IntervalAfter(silence)

(* However far it has backed off, a scheduler that is left running scans   *)
(* again, and no window stays open.                                        *)
KeepsScanning ==
    /\ scan.running /\ ~open ~> open \/ ~scan.running
    /\ open ~> ~open
=============================================================================
