--------------------------- MODULE DiscoveryProofs ---------------------------
(***************************************************************************)
(* What the three DiscoveryPorts promise, for any hosts, peers and number  *)
(* of starts, when their calls are awaited: they implement DiscoveryPort.  *)
(***************************************************************************)
EXTENDS Discovery, TLAPS

-----------------------------------------------------------------------------
(* Types *)

Awaited == {"listening", "closing", "advertising", "unadvertising"}

CallsTyped == calls \subseteq Awaited \X (0..starts)

CountsTyped ==
    /\ starts \in 0..MaxStarts /\ onPeerFound \in 0..starts /\ wanted \in 0..starts

FlagsTyped ==
    /\ port \in {"web", "wifi", "ble"} /\ reachable \subseteq Host
    /\ discovering \in BOOLEAN /\ probing \in BOOLEAN /\ responder \in BOOLEAN
    /\ scanning \in BOOLEAN /\ advertising \in BOOLEAN /\ failed \in BOOLEAN
    /\ refused \in BOOLEAN

DataTyped ==
    /\ discovered \subseteq Peer
    /\ probes \in [Host -> 0..MaxProbes]
    /\ reports \in [1..MaxStarts -> [Peer -> Nat]]

LEMMA TypeParts == TypeOK <=> CallsTyped /\ CountsTyped /\ FlagsTyped /\ DataTyped
BY Zenon DEF TypeOK, CallsTyped, Awaited, CountsTyped, FlagsTyped, DataTyped

LEMMA InitTyped == Init => TypeOK
<1> SUFFICES ASSUME Init PROVE TypeOK OBVIOUS
<1>1. CallsTyped BY DEF Init, CallsTyped
<1>2. CountsTyped BY BoundAssumption DEF Init, CountsTyped
<1>3. FlagsTyped BY DEF Init, FlagsTyped
<1>4. DataTyped BY DEF Init, DataTyped, MaxProbes
<1> QED BY <1>1, <1>2, <1>3, <1>4, TypeParts

(* What an answer changes keeps its type.                                  *)
LEMMA FoundTyped ==
    ASSUME TypeOK, NEW h \in Host, Found(PeerAt[h])
    PROVE  discovered' \subseteq Peer /\ reports' \in [1..MaxStarts -> [Peer -> Nat]]
<1>1. CASE PeerAt[h] = NoPeer BY <1>1 DEF Found, TypeOK
<1>2. CASE PeerAt[h] # NoPeer
  <2>1. PeerAt[h] \in Peer BY <1>2, HostAssumption
  <2>2. discovered' = discovered \cup {PeerAt[h]} BY <1>2 DEF Found
  <2>3. discovered' \subseteq Peer BY <2>1, <2>2 DEF TypeOK
  <2>4. CASE onPeerFound = 0 \/ PeerAt[h] \in discovered
    <3>1. reports' = reports BY <1>2, <2>4 DEF Found
    <3> QED BY <2>3, <3>1 DEF TypeOK
  <2>5. CASE onPeerFound # 0 /\ PeerAt[h] \notin discovered
    <3>1. onPeerFound \in 1..MaxStarts BY <2>5, BoundAssumption DEF TypeOK
    <3>2. reports' = [reports EXCEPT ![onPeerFound][PeerAt[h]] = @ + 1]
      BY <1>2, <2>5 DEF Found
    <3>3. reports' \in [1..MaxStarts -> [Peer -> Nat]] BY <2>1, <3>1, <3>2 DEF TypeOK
    <3> QED BY <2>3, <3>3
  <2> QED BY <2>4, <2>5
<1> QED BY <1>1, <1>2

(* One more probe to every host, or what a return takes away, is in range. *)
LEMMA ProbesTyped ==
    ASSUME TypeOK
    PROVE  /\ Probe => probes' \in [Host -> 0..MaxProbes]
           /\ \A h \in Host : ProbeReturns(h) => probes' \in [Host -> 0..MaxProbes]
BY DEF TypeOK, Probe, ProbeReturns, MaxProbes

(* A step makes the calls of its start, or has one return.                 *)
LEMMA CallsNext == TypeOK /\ [Next]_vars => CallsTyped' /\ CountsTyped'
<1> SUFFICES ASSUME TypeOK, [Next]_vars PROVE CallsTyped' /\ CountsTyped' OBVIOUS
<1>0. CallsTyped /\ CountsTyped BY TypeParts
<1> USE <1>0, BoundAssumption DEF CallsTyped, CountsTyped, Awaited
<1>1. ASSUME Starting, NEW kind \in Awaited,
             calls' = calls \/ calls' = calls \cup {<<kind, starts'>>},
             onPeerFound' = onPeerFound \/ onPeerFound' = starts'
      PROVE  CallsTyped' /\ CountsTyped'
  BY <1>1 DEF Starting
<1>2. ASSUME Stopping, NEW kind \in Awaited,
             calls' = calls \/ calls' = calls \cup {<<kind, 0>>},
             onPeerFound' = onPeerFound \/ onPeerFound' = 0
      PROVE  CallsTyped' /\ CountsTyped'
  BY <1>2 DEF Stopping
<1>3. ASSUME UNCHANGED starts, wanted' = wanted \/ wanted' = 0, calls' \subseteq calls,
             onPeerFound' = onPeerFound \/ onPeerFound' \in 0..starts
      PROVE  CallsTyped' /\ CountsTyped'
  BY <1>3
<1>4. CASE startWeb \/ startWifi \/ startBle
  BY <1>1, <1>4 DEF startWeb, startWifi, startBle, BeginProbing
<1>5. CASE stopWeb \/ stopWifi \/ stopBle
  BY <1>2, <1>5 DEF stopWeb, stopWifi, stopBle, EndProbing
<1>6. CASE CallReturns
  BY <1>3, <1>6 DEF CallReturns, Listens, ListenRejects, Advertises, AdvertiseRejects, Closes,
                    Unadvertises, UnadvertiseRejects, BeginProbing, history
<1>7. CASE Tick \/ \E h \in Host : ProbeReturns(h) \/ Sighted(h) \/ HostLeaves(h)
  BY <1>3, <1>7 DEF Tick, ProbeReturns, Sighted, HostLeaves, history
<1>8. CASE UNCHANGED vars BY <1>3, <1>8 DEF vars, history
<1> QED BY <1>4, <1>5, <1>6, <1>7, <1>8 DEF Next

LEMMA FlagsNext == TypeOK /\ [Next]_vars => FlagsTyped'
<1> SUFFICES ASSUME FlagsTyped, [Next]_vars PROVE FlagsTyped' BY TypeParts
<1> USE DEF FlagsTyped, history, lan, radio
<1>1. CASE startWeb \/ stopWeb
  BY <1>1 DEF startWeb, stopWeb, Starting, Stopping, BeginProbing, EndProbing
<1>2. CASE startWifi \/ stopWifi
  BY <1>2 DEF startWifi, stopWifi, Starting, Stopping, EndProbing
<1>3. CASE startBle \/ stopBle
  BY <1>3 DEF startBle, stopBle, Starting, Stopping
<1>4. CASE CallReturns
  <2>1. ASSUME NEW k \in 1..starts, Listens(k) PROVE FlagsTyped'
    <3>1. UNCHANGED <<port, reachable, discovering, radio, history>> /\ responder' = TRUE
      BY <2>1 DEF Listens
    <3>2. probing' = probing \/ probing' = TRUE
      BY <2>1 DEF Listens, BeginProbing
    <3> QED BY <3>1, <3>2
  <2>2. ASSUME NEW k \in 1..starts, ListenRejects(k) PROVE FlagsTyped'
    BY <2>2 DEF ListenRejects
  <2>3. ASSUME NEW k \in 1..starts, Advertises(k) \/ AdvertiseRejects(k) PROVE FlagsTyped'
    BY <2>3 DEF Advertises, AdvertiseRejects
  <2>4. CASE Closes \/ Unadvertises \/ UnadvertiseRejects
    BY <2>4 DEF Closes, Unadvertises, UnadvertiseRejects
  <2> QED BY <1>4, <2>1, <2>2, <2>3, <2>4 DEF CallReturns
<1>5. CASE Tick \/ \E h \in Host : ProbeReturns(h) \/ Sighted(h) \/ HostLeaves(h)
  BY <1>5 DEF Tick, ProbeReturns, Sighted, HostLeaves
<1>6. CASE UNCHANGED vars BY <1>6 DEF vars
<1> QED BY <1>1, <1>2, <1>3, <1>4, <1>5, <1>6 DEF Next

LEMMA DataNext == TypeOK /\ [Next]_vars => DataTyped'
<1> SUFFICES ASSUME TypeOK, [Next]_vars PROVE DataTyped' OBVIOUS
<1>0. DataTyped BY TypeParts
<1>1. ASSUME UNCHANGED reports,
             discovered' = discovered \/ discovered' = {}, probes' = probes \/ Probe
      PROVE  DataTyped'
  BY <1>0, <1>1, ProbesTyped DEF DataTyped
<1>2. CASE startWeb \/ stopWeb
  BY <1>1, <1>2 DEF startWeb, stopWeb, Starting, Stopping, BeginProbing, EndProbing
<1>3. CASE startWifi \/ stopWifi
  BY <1>1, <1>3 DEF startWifi, stopWifi, Starting, Stopping, EndProbing, lan
<1>4. CASE startBle \/ stopBle
  BY <1>1, <1>4 DEF startBle, stopBle, Starting, Stopping, lan
<1>5. CASE CallReturns
  BY <1>1, <1>5 DEF CallReturns, Listens, ListenRejects, Advertises, AdvertiseRejects, Closes,
                    Unadvertises, UnadvertiseRejects, BeginProbing, lan, history
<1>6. CASE Tick BY <1>1, <1>6 DEF Tick, history
<1>7. ASSUME NEW h \in Host, ProbeReturns(h) PROVE DataTyped'
  <2>1. probes' \in [Host -> 0..MaxProbes] BY <1>7, ProbesTyped
  <2>2. CASE Found(PeerAt[h]) BY <2>1, <2>2, FoundTyped DEF DataTyped
  <2>3. CASE UNCHANGED <<discovered, reports>> BY <1>0, <2>1, <2>3 DEF DataTyped
  <2> QED BY <1>7, <2>2, <2>3 DEF ProbeReturns
<1>8. ASSUME NEW h \in Host, Sighted(h) PROVE DataTyped'
  BY <1>0, <1>8, FoundTyped DEF Sighted, DataTyped, lan
<1>9. ASSUME NEW h \in Host, HostLeaves(h) PROVE DataTyped'
  BY <1>1, <1>9 DEF HostLeaves, lan, history
<1>10. CASE UNCHANGED vars BY <1>1, <1>10 DEF vars, lan, history
<1> QED BY <1>2, <1>3, <1>4, <1>5, <1>6, <1>7, <1>8, <1>9, <1>10 DEF Next

LEMMA NextTyped == TypeOK /\ [Next]_vars => TypeOK'
<1> SUFFICES ASSUME TypeOK, [Next]_vars PROVE TypeOK' OBVIOUS
<1>1. CallsTyped' /\ CountsTyped' /\ FlagsTyped' /\ DataTyped'
  BY CallsNext, FlagsNext, DataNext
<1> QED BY <1>1 DEF TypeOK, CallsTyped, Awaited, CountsTyped, FlagsTyped, DataTyped

(* The variables keep their types, whichever port it is and however its    *)
(* calls overlap.                                                          *)
THEOREM TypeCorrect == Spec => []TypeOK
BY InitTyped, NextTyped, PTL DEF Spec

-----------------------------------------------------------------------------
(* The flags, the call in progress and the callback                        *)

(* The prober alone: its calls return at once.                             *)
WebInv ==
    port = "web" =>
        /\ ~(discovering \/ responder \/ scanning \/ advertising) /\ calls = {}
        /\ onPeerFound = wanted
        /\ probing <=> wanted # 0

(* With a responder, it installs the callback when the responder listens.  *)
WifiInv ==
    port = "wifi" =>
        /\ ~(scanning \/ advertising)
        /\ discovering <=> wanted # 0
        /\ probing <=> onPeerFound # 0
        /\ onPeerFound \in {0, wanted}
        /\ \/ calls = {} /\ (responder => wanted # 0)
           \/ calls = {<<"listening", wanted>>} /\ wanted # 0 /\ ~probing
           \/ calls = {<<"closing", 0>>} /\ wanted = 0

(* The radio: the callback of the last start stays installed until the     *)
(* device no longer advertises, and after a refusal, but by then nothing   *)
(* is sighted.                                                             *)
BleInv ==
    port = "ble" =>
        /\ ~probing /\ ~responder /\ \A h \in Host : probes[h] = 0
        /\ scanning <=> discovering
        /\ \/ /\ calls = {} /\ (wanted # 0 => onPeerFound = wanted)
              /\ discovering <=> wanted # 0
              /\ advertising => discovering \/ refused
           \/ /\ calls = {<<"advertising", wanted>>} /\ wanted # 0
              /\ onPeerFound = wanted /\ ~discovering
              /\ advertising => refused
           \/ /\ calls = {<<"unadvertising", 0>>} /\ wanted = 0
              /\ ~discovering

(* What the start in force was told of has been discovered; the next one,  *)
(* and one whose callback is not yet installed, have been told nothing.    *)
ReportInv ==
    /\ \A k \in 1..MaxStarts : k > starts => reports[k] = Port!Unreported
    /\ wanted # 0 /\ onPeerFound # wanted => reports[wanted] = Port!Unreported
    /\ wanted # 0 /\ onPeerFound = wanted =>
         \A p \in Peer \ discovered : reports[wanted][p] = 0

PortInv == WebInv /\ WifiInv /\ BleInv /\ ReportInv

LEMMA PortInit == Init => PortInv
BY DEF Init, PortInv, WebInv, WifiInv, BleInv, ReportInv, Port!Unreported

(* An answer reaches no start but the one in force, and none in a stop.    *)
LEMMA HeardInForce ==
    ASSUME TypeOK, PortInv, NEW h \in Host, ProbeReturns(h) \/ Sighted(h), onPeerFound # 0
    PROVE  onPeerFound = wanted
<1>1. CASE port = "web" BY <1>1 DEF PortInv, WebInv
<1>2. CASE port = "wifi" BY <1>2 DEF PortInv, WifiInv
<1>3. CASE port = "ble"
  <2>1. Sighted(h) BY <1>3 DEF PortInv, BleInv, ProbeReturns
  <2>2. discovering BY <1>3, <2>1 DEF PortInv, BleInv, Sighted
  <2> QED BY <1>3, <2>2 DEF PortInv, BleInv
<1> QED BY <1>1, <1>2, <1>3 DEF TypeOK

(* What an answer does to the reports, seen as DiscoveryPort.              *)
LEMMA FoundReports ==
    ASSUME TypeOK, PortInv, NEW h \in Host, Found(PeerAt[h]), UNCHANGED <<onPeerFound, wanted, starts>>,
           onPeerFound # 0 => onPeerFound = wanted
    PROVE  /\ ReportInv'
           /\ UNCHANGED reports \/ \E p \in Peer : Port!onPeerFound(p)
<1>0. ReportInv BY DEF PortInv
<1>1. CASE PeerAt[h] = NoPeer
  <2>1. UNCHANGED <<discovered, reports>> BY <1>1 DEF Found
  <2> QED BY <1>0, <2>1 DEF ReportInv
<1>2. CASE PeerAt[h] # NoPeer
  <2>1. PeerAt[h] \in Peer BY <1>2, HostAssumption
  <2>2. discovered' = discovered \cup {PeerAt[h]} BY <1>2 DEF Found
  <2>3. CASE onPeerFound = 0 \/ PeerAt[h] \in discovered
    <3>1. reports' = reports BY <1>2, <2>3 DEF Found
    <3> QED BY <1>0, <2>2, <3>1 DEF ReportInv
  <2>4. CASE onPeerFound # 0 /\ PeerAt[h] \notin discovered
    <3>1. onPeerFound = wanted /\ wanted \in 1..MaxStarts /\ wanted <= starts
      BY <2>4, BoundAssumption DEF TypeOK
    <3>2. reports' = [reports EXCEPT ![wanted][PeerAt[h]] = @ + 1]
      BY <1>2, <2>4, <3>1 DEF Found
    <3>3. reports[wanted][PeerAt[h]] = 0 BY <1>0, <2>1, <2>4, <3>1 DEF ReportInv
    <3>4. reports' = [reports EXCEPT ![wanted][PeerAt[h]] = 1]
      BY <3>2, <3>3
    <3>5. Port!onPeerFound(PeerAt[h]) BY <3>1, <3>3, <3>4 DEF Port!onPeerFound
    <3>6. /\ \A k \in 1..MaxStarts \ {wanted} : reports'[k] = reports[k]
          /\ \A p \in Peer \ {PeerAt[h]} : reports'[wanted][p] = reports[wanted][p]
      BY <3>1, <3>4 DEF TypeOK
    <3>7. \A p \in Peer \ discovered' : reports'[wanted][p] = 0
      BY <1>0, <2>2, <3>1, <3>6 DEF ReportInv
    <3>8. \A k \in 1..MaxStarts : k > starts => reports'[k] = Port!Unreported
      BY <1>0, <3>1, <3>6 DEF ReportInv, TypeOK
    <3>9. ReportInv'
      BY <3>1, <3>7, <3>8 DEF ReportInv
    <3> QED BY <2>1, <3>5, <3>9
  <2> QED BY <2>3, <2>4
<1> QED BY <1>1, <1>2

(* A start that takes effect is one DiscoveryPort allows.                  *)
LEMMA StartingStarts ==
    ASSUME TypeOK, PortInv, wanted = 0, Starting
    PROVE  Port!startDiscovery /\ ReportInv'
<1>1. /\ starts + 1 \in 1..MaxStarts /\ starts + 1 > starts
      /\ starts' = starts + 1 /\ wanted' = starts + 1 /\ reports' = reports
  BY BoundAssumption DEF TypeOK, Starting
<1>2. reports[starts + 1] = Port!Unreported BY <1>1 DEF PortInv, ReportInv
<1>3. Port!startDiscovery BY <1>1, <1>2 DEF Port!startDiscovery, Port!Starts
<1>4. \A k \in 1..MaxStarts : k > starts' => reports'[k] = Port!Unreported
  BY <1>1 DEF TypeOK, PortInv, ReportInv
<1>5. \A p \in Peer : reports'[wanted'][p] = 0 BY <1>1, <1>2 DEF Port!Unreported
<1>6. reports'[wanted'] = Port!Unreported BY <1>1, <1>2
<1>7. ReportInv' BY <1>4, <1>5, <1>6 DEF ReportInv
<1> QED BY <1>3, <1>7

(* And every step is one that DiscoveryPort allows, or none to it.         *)
LEMMA PortNext ==
    CallsAwaited /\ TypeOK /\ PortInv /\ [Next]_vars
        => PortInv' /\ [Port!Next]_<<wanted, reports>>
<1> SUFFICES ASSUME CallsAwaited, TypeOK, PortInv, [Next]_vars
             PROVE  PortInv' /\ (Port!Next \/ UNCHANGED <<wanted, reports>>)
  OBVIOUS
<1>0. WebInv /\ WifiInv /\ BleInv /\ ReportInv BY DEF PortInv
<1>1. ASSUME UNCHANGED <<wanted, reports, starts, onPeerFound, discovered>> PROVE ReportInv'
  BY <1>0, <1>1 DEF ReportInv
<1>2. ASSUME wanted' = 0, UNCHANGED <<reports, starts>> PROVE ReportInv'
  BY <1>0, <1>2 DEF ReportInv
<1>3. CASE startWeb
  <2>1. wanted = 0 BY <1>0, <1>3 DEF startWeb, WebInv
  <2>2. /\ Port!startDiscovery /\ ReportInv'
    BY <1>3, <2>1, StartingStarts DEF startWeb, BeginProbing, Starting
  <2>3. port' = "web" /\ WebInv'
    BY <1>0, <1>3, BoundAssumption DEF startWeb, BeginProbing, Starting, WebInv, radio, TypeOK
  <2> QED BY <2>2, <2>3 DEF PortInv, WifiInv, BleInv, Port!Next
<1>4. CASE stopWeb
  <2>1. wanted # 0 BY <1>0, <1>4 DEF stopWeb, WebInv
  <2>2. Port!stopDiscovery BY <1>4, <2>1 DEF stopWeb, Stopping, Port!stopDiscovery
  <2>3. port' = "web" /\ WebInv'
    BY <1>0, <1>4 DEF stopWeb, EndProbing, Stopping, WebInv, radio
  <2>4. ReportInv' BY <1>2, <1>4 DEF stopWeb, Stopping
  <2> QED BY <2>2, <2>3, <2>4 DEF PortInv, WifiInv, BleInv, Port!Next
<1>5. CASE startWifi
  <2>1. wanted = 0 /\ calls = {}
    BY <1>0, <1>5 DEF startWifi, Starting, MayCall, CallsAwaited, WifiInv
  <2>2. Port!startDiscovery /\ ReportInv' BY <1>5, <2>1, StartingStarts DEF startWifi
  <2>3. wanted' # 0 /\ wanted' = starts' BY <1>5, BoundAssumption DEF startWifi, Starting, TypeOK
  <2>4. port' = "wifi" /\ WifiInv'
    BY <1>0, <1>5, <2>1, <2>3 DEF startWifi, WifiInv, lan, radio
  <2> QED BY <2>2, <2>4 DEF PortInv, WebInv, BleInv, Port!Next
<1>6. CASE stopWifi
  <2>1. wanted # 0 /\ calls = {}
    BY <1>0, <1>6 DEF stopWifi, Stopping, MayCall, CallsAwaited, WifiInv
  <2>2. Port!stopDiscovery BY <1>6, <2>1 DEF stopWifi, Stopping, Port!stopDiscovery
  <2>3. port' = "wifi" /\ WifiInv'
    BY <1>0, <1>6, <2>1 DEF stopWifi, Stopping, EndProbing, WifiInv, radio
  <2>4. ReportInv' BY <1>2, <1>6 DEF stopWifi, Stopping
  <2> QED BY <2>2, <2>3, <2>4 DEF PortInv, WebInv, BleInv, Port!Next
<1>7. CASE startBle
  <2>1. wanted = 0 /\ calls = {}
    BY <1>0, <1>7 DEF startBle, Starting, MayCall, CallsAwaited, BleInv
  <2>2. Port!startDiscovery /\ ReportInv'
    BY <1>7, <2>1, StartingStarts DEF startBle, Starting
  <2>3. wanted' # 0 /\ wanted' = starts' BY <1>7, BoundAssumption DEF startBle, Starting, TypeOK
  <2>4. port' = "ble" /\ BleInv'
    <3>1. /\ port = "ble" /\ ~discovering /\ ~probing /\ ~responder /\ ~scanning
          /\ \A h \in Host : probes[h] = 0
          /\ advertising => refused
      BY <1>0, <1>7, <2>1 DEF startBle, BleInv
    <3>2. /\ calls' = {<<"advertising", wanted'>>} /\ onPeerFound' = wanted'
          /\ refused' = refused
          /\ UNCHANGED <<port, discovering, lan, radio>>
      BY <1>7, <2>1 DEF startBle, Starting
    <3> QED BY <2>3, <3>1, <3>2 DEF BleInv, lan, radio
  <2> QED BY <2>2, <2>4 DEF PortInv, WebInv, WifiInv, Port!Next
<1>8. CASE stopBle
  <2>1. wanted # 0 /\ calls = {}
    BY <1>0, <1>8 DEF stopBle, Stopping, MayCall, CallsAwaited, BleInv
  <2>2. Port!stopDiscovery BY <1>8, <2>1 DEF stopBle, Stopping, Port!stopDiscovery
  <2>3. port' = "ble" /\ BleInv'
    BY <1>0, <1>8, <2>1 DEF stopBle, Stopping, BleInv, lan
  <2>4. ReportInv' BY <1>2, <1>8 DEF stopBle, Stopping
  <2> QED BY <2>2, <2>3, <2>4 DEF PortInv, WebInv, WifiInv, Port!Next
<1>9. ASSUME NEW k \in 1..starts, Listens(k) PROVE PortInv' /\ UNCHANGED <<wanted, reports>>
  <2>1. /\ port = "wifi" /\ k = wanted /\ wanted # 0 /\ ~probing
        /\ calls = {<<"listening", wanted>>} /\ onPeerFound = 0
    BY <1>0, <1>9 DEF Listens, WebInv, WifiInv, BleInv, TypeOK
  <2>2. BeginProbing(k) /\ UNCHANGED <<port, discovering, scanning, advertising, wanted, starts, reports>>
    BY <1>9, <2>1 DEF Listens, radio, history
  <2>3. responder' = TRUE /\ calls' = {} BY <1>9, <2>1 DEF Listens
  <2>4. WifiInv' BY <1>0, <2>1, <2>2, <2>3 DEF WifiInv, BeginProbing
  <2>5. ReportInv' BY <1>0, <2>1, <2>2 DEF ReportInv, BeginProbing, Port!Unreported
  <2> QED BY <2>1, <2>2, <2>4, <2>5 DEF PortInv, WebInv, BleInv
<1>10. ASSUME NEW k \in 1..starts, ListenRejects(k) PROVE PortInv' /\ UNCHANGED <<wanted, reports>>
  <2>1. /\ port = "wifi" /\ k = wanted /\ wanted # 0 /\ ~probing
        /\ calls = {<<"listening", wanted>>}
    BY <1>0, <1>10 DEF ListenRejects, WebInv, WifiInv, BleInv, TypeOK
  <2>2. WifiInv' /\ port' = "wifi"
    BY <1>0, <1>10, <2>1 DEF ListenRejects, WifiInv, lan, radio
  <2>3. ReportInv' BY <1>1, <1>10 DEF ListenRejects
  <2> QED BY <1>10, <2>2, <2>3 DEF ListenRejects, PortInv, WebInv, BleInv
<1>11. ASSUME NEW k \in 1..starts, Advertises(k) PROVE PortInv' /\ UNCHANGED <<wanted, reports>>
  <2>1. /\ port = "ble" /\ k = wanted /\ wanted # 0
        /\ calls = {<<"advertising", wanted>>} /\ onPeerFound = wanted
    BY <1>0, <1>11 DEF Advertises, WebInv, WifiInv, BleInv, TypeOK
  <2>2. BleInv' /\ port' = "ble"
    BY <1>0, <1>11, <2>1 DEF Advertises, BleInv, lan, history
  <2>3. ReportInv' BY <1>1, <1>11 DEF Advertises, history
  <2> QED BY <1>11, <2>2, <2>3 DEF Advertises, PortInv, WebInv, WifiInv, history
<1>12. ASSUME NEW k \in 1..starts, AdvertiseRejects(k)
       PROVE  PortInv' /\ (Port!Next \/ UNCHANGED <<wanted, reports>>)
  <2>1. /\ port = "ble" /\ k = wanted /\ wanted # 0
        /\ calls = {<<"advertising", wanted>>} /\ onPeerFound = wanted
    BY <1>0, <1>12 DEF AdvertiseRejects, WebInv, WifiInv, BleInv, TypeOK
  <2>2. wanted' = 0 /\ UNCHANGED <<reports, starts>> BY <1>12, <2>1 DEF AdvertiseRejects
  <2>3. Port!stopDiscovery BY <2>1, <2>2 DEF Port!stopDiscovery
  <2>4. BleInv' /\ port' = "ble"
    BY <1>0, <1>12, <2>1, <2>2 DEF AdvertiseRejects, BleInv, lan, radio
  <2>5. ReportInv' BY <1>2, <2>2
  <2> QED BY <2>3, <2>4, <2>5 DEF PortInv, WebInv, WifiInv, Port!Next
<1>13. CASE Closes
  <2>1. port = "wifi" /\ wanted = 0 /\ calls = {<<"closing", 0>>}
    BY <1>0, <1>13 DEF Closes, WebInv, WifiInv, BleInv, TypeOK
  <2>2. WifiInv' /\ port' = "wifi"
    BY <1>0, <1>13, <2>1 DEF Closes, WifiInv, radio, history
  <2>3. ReportInv' BY <1>1, <1>13 DEF Closes, history
  <2> QED BY <1>13, <2>2, <2>3 DEF Closes, PortInv, WebInv, BleInv, history
<1>14. CASE Unadvertises
  <2>1. port = "ble" /\ wanted = 0 /\ calls = {<<"unadvertising", 0>>}
    BY <1>0, <1>14 DEF Unadvertises, WebInv, WifiInv, BleInv, TypeOK
  <2>2. BleInv' /\ port' = "ble"
    BY <1>0, <1>14, <2>1 DEF Unadvertises, BleInv, lan, history
  <2>3. ReportInv' BY <1>2, <1>14, <2>1 DEF Unadvertises, history
  <2> QED BY <1>14, <2>2, <2>3 DEF Unadvertises, PortInv, WebInv, WifiInv, history
<1>15. CASE UnadvertiseRejects
  <2>1. port = "ble" /\ wanted = 0 /\ calls = {<<"unadvertising", 0>>}
    BY <1>0, <1>15 DEF UnadvertiseRejects, WebInv, WifiInv, BleInv, TypeOK
  <2>2. BleInv' /\ port' = "ble"
    BY <1>0, <1>15, <2>1 DEF UnadvertiseRejects, BleInv, lan, radio
  <2>3. ReportInv' BY <1>2, <1>15, <2>1 DEF UnadvertiseRejects
  <2> QED BY <1>15, <2>2, <2>3 DEF UnadvertiseRejects, PortInv, WebInv, WifiInv
(* The steps of the network leave the flags, the calls and the callback.   *)
<1>16. ASSUME UNCHANGED <<port, discovering, probing, responder, scanning, advertising, calls,
                          onPeerFound, wanted, refused>>,
              \A h \in Host : port = "ble" => probes'[h] = 0, ReportInv'
       PROVE  PortInv'
  BY <1>0, <1>16 DEF PortInv, WebInv, WifiInv, BleInv
<1>17. CASE Tick
  <2>1. port # "ble" BY <1>0, <1>17 DEF Tick, BleInv
  <2>2. ReportInv' BY <1>1, <1>17 DEF Tick, history
  <2> QED BY <1>16, <1>17, <2>1, <2>2 DEF Tick, radio, history
<1>18. ASSUME NEW h \in Host, ProbeReturns(h)
       PROVE  PortInv' /\ (Port!Next \/ UNCHANGED <<wanted, reports>>)
  <2>1. port # "ble" BY <1>0, <1>18 DEF ProbeReturns, BleInv
  <2>2. onPeerFound # 0 => onPeerFound = wanted BY <1>18, HeardInForce
  <2>3. UNCHANGED <<onPeerFound, wanted, starts>> BY <1>18 DEF ProbeReturns
  <2>4. ReportInv' /\ (UNCHANGED reports \/ \E p \in Peer : Port!onPeerFound(p))
    <3>1. CASE Found(PeerAt[h]) BY <2>2, <2>3, <3>1, FoundReports
    <3>2. CASE UNCHANGED <<discovered, reports>> BY <1>1, <2>3, <3>2
    <3> QED BY <1>18, <3>1, <3>2 DEF ProbeReturns
  <2>5. PortInv' BY <1>16, <1>18, <2>1, <2>4 DEF ProbeReturns, radio
  <2> QED BY <2>3, <2>4, <2>5 DEF Port!Next
<1>19. ASSUME NEW h \in Host, Sighted(h)
       PROVE  PortInv' /\ (Port!Next \/ UNCHANGED <<wanted, reports>>)
  <2>1. onPeerFound # 0 => onPeerFound = wanted BY <1>19, HeardInForce
  <2>2. UNCHANGED <<onPeerFound, wanted, starts>> BY <1>19 DEF Sighted
  <2>3. ReportInv' /\ (UNCHANGED reports \/ \E p \in Peer : Port!onPeerFound(p))
    BY <1>19, <2>1, <2>2, FoundReports DEF Sighted
  <2>4. \A x \in Host : port = "ble" => probes'[x] = 0 BY <1>0, <1>19 DEF Sighted, lan, BleInv
  <2>5. PortInv' BY <1>16, <1>19, <2>3, <2>4 DEF Sighted, lan, radio
  <2> QED BY <2>2, <2>3, <2>5 DEF Port!Next
<1>20. ASSUME NEW h \in Host, HostLeaves(h) PROVE PortInv' /\ UNCHANGED <<wanted, reports>>
  <2>1. ReportInv' BY <1>1, <1>20 DEF HostLeaves, history
  <2>2. \A x \in Host : port = "ble" => probes'[x] = 0 BY <1>0, <1>20 DEF HostLeaves, lan, BleInv
  <2> QED BY <1>16, <1>20, <2>1, <2>2 DEF HostLeaves, lan, radio, history
<1>21. CASE UNCHANGED vars
  <2>1. ReportInv' BY <1>1, <1>21 DEF vars, history
  <2>2. \A x \in Host : port = "ble" => probes'[x] = 0 BY <1>0, <1>21 DEF vars, lan, BleInv
  <2> QED BY <1>16, <1>21, <2>1, <2>2 DEF vars, lan, radio, history
<1>22. CASE CallReturns
  BY <1>9, <1>10, <1>11, <1>13, <1>14, <1>22, <1>12, <1>15 DEF CallReturns
<1> QED BY <1>3, <1>4, <1>5, <1>6, <1>7, <1>8, <1>17, <1>18, <1>19, <1>20, <1>21, <1>22 DEF Next

(* Each of the three ports keeps the promise of DiscoveryPort: a start     *)
(* hears of each peer at most once, whatever answers to earlier probes     *)
(* were still on their way, and a stop silences it.                        *)
THEOREM PortsImplementDiscovery == CallsAwaited => (Spec => ImplementsDiscoveryPort)
<1>1. Init => Port!Init BY DEF Init, Port!Init, Port!Starts, Port!Unreported
<1>2. CallsAwaited => CallsAwaited' BY DEF CallsAwaited
<1> QED BY <1>1, <1>2, InitTyped, NextTyped, PortInit, PortNext,
           PTL DEF Spec, ImplementsDiscoveryPort, Port!Spec

(* After a stop that has returned nothing is left running, but for the     *)
(* advertising of a device whose own stop was refused.                     *)
THEOREM StopsAreQuiet == CallsAwaited => (Spec => []QuietAfterStop)
<1>1. TypeOK /\ PortInv => QuietAfterStop
  BY DEF TypeOK, PortInv, WebInv, WifiInv, BleInv, QuietAfterStop
<1>2. CallsAwaited => CallsAwaited' BY DEF CallsAwaited
<1> QED BY <1>1, <1>2, InitTyped, NextTyped, PortInit, PortNext, PTL DEF Spec

=============================================================================
