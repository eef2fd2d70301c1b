----------------------------- MODULE Discovery -----------------------------
(***************************************************************************)
(* The three DiscoveryPorts a platform may wire: LanDiscoveryProber alone  *)
(* ("web"), HttpProbeLanDiscoveryAdapter, which answers probes as well     *)
(* ("wifi"), and BleDiscoveryAdapter ("ble").                              *)
(*                                                                         *)
(* A probe that is in flight when discovery stops is not cancelled: its    *)
(* answer may arrive after the stop, or after the next start.  Listening   *)
(* and advertising may be refused.                                         *)
(***************************************************************************)
EXTENDS Integers, FiniteSets

CONSTANTS
    Host,           (* candidate hosts; for "ble", devices in radio range   *)
    Peer,
    NoPeer,         (* what answers is not one of ours                      *)
    PeerAt,         (* PeerAt[h]: one peer may answer at several addresses  *)
    Overlapping,    (* ports whose calls may be made before the last ended  *)
    MaxStarts       (* bound on the starts that take effect                 *)

ASSUME HostAssumption == NoPeer \notin Peer /\ PeerAt \in [Host -> Peer \cup {NoPeer}]
ASSUME PortAssumption == Overlapping \subseteq {"web", "wifi", "ble"}
ASSUME BoundAssumption == MaxStarts \in Nat \ {0}

(* A caller of the wifi or ble adapter awaits one call before the next;    *)
(* the calls of the prober alone return at once.                           *)
CallsAwaited == Overlapping \subseteq {"web"}

VARIABLES
    port,           (* which of the three it is                             *)
    reachable,      (* the hosts that answer                                *)
    discovering,    (* the flag of the wifi and ble adapters                *)
    probing,        (* the prober's flag; its recurring task runs with it   *)
    onPeerFound,    (* the start whose callback is installed, or 0          *)
    discovered,     (* discoveredPeerIds, discoveredIds                     *)
    probes,         (* probes[h]: requests in flight                        *)
    responder,      (* the responder listens                                *)
    scanning, advertising,
    calls,          (* what calls in progress await, and of which start     *)
    wanted,         (* history: the start in force, 0 when there is none    *)
    failed,         (* history: that start was rejected                     *)
    refused,        (* history: a stop was rejected, none returned since    *)
    starts,         (* history: how many starts took effect                 *)
    reports         (* history: reports[k][p], as in DiscoveryPort          *)

lan == <<probing, probes, responder>>
radio == <<scanning, advertising>>
history == <<wanted, failed, refused, starts, reports>>
vars == <<port, reachable, discovering, onPeerFound, discovered, lan, radio, calls, history>>

MaxProbes == 2

TypeOK ==
    /\ port \in {"web", "wifi", "ble"} /\ reachable \subseteq Host
    /\ discovering \in BOOLEAN /\ probing \in BOOLEAN /\ responder \in BOOLEAN
    /\ scanning \in BOOLEAN /\ advertising \in BOOLEAN
    /\ discovered \subseteq Peer
    /\ probes \in [Host -> 0..MaxProbes]
    /\ starts \in 0..MaxStarts /\ onPeerFound \in 0..starts /\ wanted \in 0..starts
    /\ calls \subseteq {"listening", "closing", "advertising", "unadvertising"} \X (0..starts)
    /\ failed \in BOOLEAN /\ refused \in BOOLEAN
    /\ reports \in [1..MaxStarts -> [Peer -> Nat]]

Init ==
    /\ port \in {"web", "wifi", "ble"} /\ reachable \in SUBSET Host
    /\ discovering = FALSE /\ probing = FALSE /\ responder = FALSE
    /\ scanning = FALSE /\ advertising = FALSE
    /\ onPeerFound = 0 /\ discovered = {} /\ probes = [h \in Host |-> 0]
    /\ calls = {}
    /\ wanted = 0 /\ failed = FALSE /\ refused = FALSE /\ starts = 0
    /\ reports = [k \in 1..MaxStarts |-> [p \in Peer |-> 0]]

-----------------------------------------------------------------------------
(* The calls.  A start or a stop that finds the flag as it wants it does   *)
(* nothing and is left out.                                                *)

MayCall == calls = {} \/ port \in Overlapping

Starting ==
    /\ MayCall
    /\ starts < MaxStarts
    /\ starts' = starts + 1 /\ wanted' = starts' /\ failed' = FALSE
    /\ UNCHANGED <<refused, reports>>

Stopping ==
    /\ MayCall
    /\ wanted' = 0 /\ failed' = FALSE
    /\ UNCHANGED <<refused, starts, reports>>

Probe ==
    /\ \A h \in Host : probes[h] < MaxProbes
    /\ probes' = [h \in Host |-> probes[h] + 1]

(* Faulty variant: the peers of the last spell stay known.                 *)
BeginProbing_kept(k) ==
    /\ Probe
    /\ onPeerFound' = k /\ probing' = TRUE
    /\ UNCHANGED discovered

(* LanDiscoveryProber.startDiscovery probes at once.                       *)
BeginProbing(k) ==
    /\ Probe
    /\ onPeerFound' = k /\ probing' = TRUE
    /\ discovered' = {}

(* Faulty variant: the callback is not dropped.                            *)
EndProbing_keeping ==
    /\ probing' = FALSE
    /\ UNCHANGED <<onPeerFound, discovered, probes>>

EndProbing ==
    /\ probing' = FALSE /\ onPeerFound' = 0
    /\ UNCHANGED <<discovered, probes>>

startWeb ==
    /\ port = "web" /\ ~probing
    /\ Starting
    /\ BeginProbing(starts')
    /\ UNCHANGED <<port, reachable, discovering, responder, radio, calls>>

stopWeb ==
    /\ port = "web" /\ probing
    /\ Stopping
    /\ EndProbing
    /\ UNCHANGED <<port, reachable, discovering, responder, radio, calls>>

startWifi ==
    /\ port = "wifi" /\ ~discovering
    /\ Starting
    /\ discovering' = TRUE
    /\ calls' = calls \cup {<<"listening", starts'>>}
    /\ UNCHANGED <<port, reachable, onPeerFound, discovered, lan, radio>>

Listens(k) ==
    /\ <<"listening", k>> \in calls
    /\ calls' = calls \ {<<"listening", k>>}
    /\ responder' = TRUE
    /\ IF probing THEN UNCHANGED <<probing, probes, onPeerFound, discovered>> ELSE BeginProbing(k)
    /\ UNCHANGED <<port, reachable, discovering, radio, history>>

(* The port is taken: startDiscovery rejects, its flag stays set.          *)
ListenRejects(k) ==
    /\ <<"listening", k>> \in calls
    /\ calls' = calls \ {<<"listening", k>>}
    /\ failed' = (wanted = k)
    /\ UNCHANGED <<port, reachable, discovering, onPeerFound, discovered, lan, radio,
                   wanted, refused, starts, reports>>

stopWifi ==
    /\ port = "wifi" /\ discovering
    /\ Stopping
    /\ discovering' = FALSE
    /\ IF probing THEN EndProbing ELSE UNCHANGED <<probing, onPeerFound, discovered, probes>>
    /\ calls' = calls \cup {<<"closing", 0>>}
    /\ UNCHANGED <<port, reachable, responder, radio>>

(* close() rejects when the responder does not listen; either way it does  *)
(* not afterwards.                                                         *)
Closes ==
    /\ <<"closing", 0>> \in calls
    /\ calls' = calls \ {<<"closing", 0>>}
    /\ responder' = FALSE
    /\ UNCHANGED <<port, reachable, discovering, onPeerFound, discovered, probing, probes,
                   radio, history>>

startBle ==
    /\ port = "ble" /\ ~discovering
    /\ Starting
    /\ onPeerFound' = starts' /\ discovered' = {}
    /\ calls' = calls \cup {<<"advertising", starts'>>}
    /\ UNCHANGED <<port, reachable, discovering, lan, radio>>

Advertises(k) ==
    /\ <<"advertising", k>> \in calls
    /\ calls' = calls \ {<<"advertising", k>>}
    /\ advertising' = TRUE /\ discovering' = TRUE /\ scanning' = TRUE
    /\ UNCHANGED <<port, reachable, onPeerFound, discovered, lan, history>>

(* The radio refuses: the start is not in force, its callback stays.       *)
AdvertiseRejects(k) ==
    /\ <<"advertising", k>> \in calls
    /\ calls' = calls \ {<<"advertising", k>>}
    /\ wanted' = IF wanted = k THEN 0 ELSE wanted
    /\ UNCHANGED <<port, reachable, discovering, onPeerFound, discovered, lan, radio,
                   failed, refused, starts, reports>>

(* Faulty variant: the device goes on advertising.                         *)
stopBle_advertising ==
    /\ port = "ble" /\ discovering
    /\ Stopping
    /\ discovering' = FALSE /\ scanning' = FALSE /\ onPeerFound' = 0
    /\ UNCHANGED <<port, reachable, discovered, lan, advertising, calls>>

stopBle ==
    /\ port = "ble" /\ discovering
    /\ Stopping
    /\ discovering' = FALSE /\ scanning' = FALSE
    /\ calls' = calls \cup {<<"unadvertising", 0>>}
    /\ UNCHANGED <<port, reachable, onPeerFound, discovered, lan, advertising>>

(* Only now is the callback dropped, whoever installed it.                 *)
Unadvertises ==
    /\ <<"unadvertising", 0>> \in calls
    /\ calls' = calls \ {<<"unadvertising", 0>>}
    /\ advertising' = FALSE /\ onPeerFound' = 0 /\ refused' = FALSE
    /\ UNCHANGED <<port, reachable, discovering, discovered, lan, scanning,
                   wanted, failed, starts, reports>>

(* The radio refuses: the device still advertises, and as its flag is      *)
(* cleared no later stop tries again until the next start.                 *)
UnadvertiseRejects ==
    /\ <<"unadvertising", 0>> \in calls
    /\ calls' = calls \ {<<"unadvertising", 0>>}
    /\ refused' = TRUE
    /\ UNCHANGED <<port, reachable, discovering, onPeerFound, discovered, lan, radio,
                   wanted, failed, starts, reports>>

-----------------------------------------------------------------------------
(* What the network brings                                                 *)

(* Faulty variant: the answer is not validated.                            *)
Found_unchecked(p) ==
    /\ discovered' = discovered \cup {p}
    /\ reports' = IF onPeerFound = 0 \/ p \in discovered \/ p = NoPeer THEN reports
                  ELSE [reports EXCEPT ![onPeerFound][p] = @ + 1]

(* A peer is remembered even when nobody is there to be told.              *)
Found(p) ==
    IF p = NoPeer THEN UNCHANGED <<discovered, reports>>
    ELSE /\ discovered' = discovered \cup {p}
         /\ reports' = IF onPeerFound = 0 \/ p \in discovered THEN reports
                       ELSE [reports EXCEPT ![onPeerFound][p] = @ + 1]

(* The recurring task.                                                     *)
Tick ==
    /\ probing
    /\ Probe
    /\ UNCHANGED <<port, reachable, discovering, onPeerFound, discovered, probing, responder,
                   radio, calls, history>>

ProbeReturns(h) ==
    /\ probes[h] > 0
    /\ probes' = [probes EXCEPT ![h] = @ - 1]
    /\ \/ Found(PeerAt[h])
       \/ h \notin reachable /\ UNCHANGED <<discovered, reports>>
    /\ UNCHANGED <<port, reachable, discovering, onPeerFound, probing, responder, radio, calls,
                   wanted, failed, refused, starts>>

(* The scanner's listener hears an advertisement.                          *)
Sighted(h) ==
    /\ scanning /\ h \in reachable
    /\ PeerAt[h] \notin discovered
    /\ Found(PeerAt[h])
    /\ UNCHANGED <<port, reachable, discovering, onPeerFound, lan, radio, calls,
                   wanted, failed, refused, starts>>

HostLeaves(h) ==
    /\ h \in reachable
    /\ reachable' = reachable \ {h}
    /\ UNCHANGED <<port, discovering, onPeerFound, discovered, lan, radio, calls, history>>

CallReturns ==
    \/ \E k \in 1..starts :
          Listens(k) \/ ListenRejects(k) \/ Advertises(k) \/ AdvertiseRejects(k)
    \/ Closes \/ Unadvertises \/ UnadvertiseRejects

Next ==
    \/ startWeb \/ stopWeb \/ startWifi \/ stopWifi \/ startBle \/ stopBle
    \/ CallReturns \/ Tick
    \/ \E h \in Host : ProbeReturns(h) \/ Sighted(h) \/ HostLeaves(h)

(* The scheduler keeps firing, every request ends (by its timeout if       *)
(* nothing else), an advertisement in range is heard, listen and close     *)
(* call back.  Nobody has to call start or stop.                           *)
Fairness ==
    /\ WF_vars(CallReturns) /\ WF_vars(Tick)
    /\ \A h \in Host : WF_vars(ProbeReturns(h)) /\ WF_vars(Sighted(h))

Spec == Init /\ [][Next]_vars /\ Fairness

-----------------------------------------------------------------------------
(* Properties *)

(* DiscoveryPort: each start hears of each peer at most once, whatever     *)
(* answers were still on their way when it was made, and a stop silences   *)
(* the port.                                                               *)
Port == INSTANCE DiscoveryPort WITH active <- wanted

ImplementsDiscoveryPort == Port!Spec

(* Once a stop has returned, and unless it was rejected, the device is     *)
(* silent: it neither looks for others nor answers them, and a start that  *)
(* is rejected leaves it so.  A rejected stop still ends the looking.      *)
QuietAfterStop ==
    wanted = 0 /\ calls = {} =>
        /\ ~(probing \/ responder \/ scanning)
        /\ ~refused => ~advertising

(* A peer that keeps answering is reported, in every spell: to a start     *)
(* that did not fail, unless discovery stops or the peer goes away.        *)
AnsweringPeerFound ==
    \A k \in 1..MaxStarts : \A h \in {x \in Host : PeerAt[x] # NoPeer} :
        wanted = k
            ~> wanted # k \/ failed \/ h \notin reachable \/ reports[k][PeerAt[h]] > 0
=============================================================================
