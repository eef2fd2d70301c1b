--------------------------- MODULE DiscoveryPort ---------------------------
(***************************************************************************)
(* What discovery promises its caller, whichever mechanism is behind it:   *)
(* while a start is in force, its callback hears of each peer at most      *)
(* once, and after a stop it hears of nobody.                              *)
(***************************************************************************)
EXTENDS Naturals

CONSTANTS Peer, MaxStarts

VARIABLES
    active,     (* the start in force, 0 when there is none                 *)
    reports     (* reports[k][p]: how often start k was told of p           *)

Starts == 1..MaxStarts

Unreported == [p \in Peer |-> 0]

Init ==
    /\ active = 0
    /\ reports = [k \in Starts |-> Unreported]

startDiscovery ==
    /\ active = 0
    /\ active' \in {k \in Starts : reports[k] = Unreported}
    /\ UNCHANGED reports

onPeerFound(p) ==
    /\ active # 0
    /\ reports[active][p] = 0
    /\ reports' = [reports EXCEPT ![active][p] = 1]
    /\ UNCHANGED active

stopDiscovery ==
    /\ active # 0
    /\ active' = 0
    /\ UNCHANGED reports

Next == startDiscovery \/ stopDiscovery \/ \E p \in Peer : onPeerFound(p)

Spec == Init /\ [][Next]_<<active, reports>>
=============================================================================
