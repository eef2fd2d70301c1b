---------------------------- MODULE BleTransport ----------------------------
(***************************************************************************)
(* BleTransportAdapter on two devices that talk to one another, with the   *)
(* framing of ble-chunking.ts.                                             *)
(*                                                                         *)
(* The radio is external.  A write that is answered has reached whatever   *)
(* the other side has subscribed; what nobody has subscribed to is lost; a *)
(* link may drop at any moment, which the adapter hears as an error that   *)
(* it ignores.                                                             *)
(***************************************************************************)
EXTENDS Integers, Sequences, FiniteSets, FiniteSetsExt, Functions

CONSTANTS
    Device,         (* the two of them                                      *)
    Caller,         (* of each device: the swaps that send to the peer      *)
    Mtu,            (* negotiated for both directions                       *)
    Sizes,          (* of messages, in bytes                                *)
    MaxMessages,    (* MaxMessages[d]: bound on the messages of d           *)
    MaxConnects     (* bound on the connections it makes                    *)

ASSUME DeviceAssumption == \E a, b \in Device : a # b /\ Device = {a, b}
ASSUME SizeAssumption == Mtu \subseteq Nat /\ Sizes \subseteq Nat
ASSUME BoundAssumption == MaxMessages \in [Device -> Nat] /\ MaxConnects \in Nat

VARIABLES
    mtu,
    connections,    (* connections[d]: the connection in the map, or 0      *)
    stale,          (* stale[d]: connections whose link is gone             *)
    reassembler,    (* reassembler[d][i]: the bytes it holds, for each      *)
                    (* subscription that is alive                           *)
    delivered,      (* delivered[d]: what deliver() was given, in order     *)
    call,           (* call[d][c]: where the call of c is                   *)
    connects,       (* history: connections made so far                     *)
    sizes,          (* history: sizes[d], of the messages d has sent        *)
    spoilt          (* history: spoilt[d]: subscriptions that missed a part *)
                    (* of the message they are in                           *)

bleVars == <<mtu, connections, stale, reassembler, delivered, call, connects, sizes, spoilt>>

Other(d) == CHOOSE e \in Device : e # d

Ids == 1..MaxConnects

Idle == [step |-> "idle", offset |-> 0, message |-> 0, via |-> 0]

(* The j-th byte of the m-th message of a device.                          *)
Byte == (Nat \ {0}) \X (Nat \ {0})

MessageBytes(d, m) == [j \in 1..sizes[d][m] |-> <<m, j>>]

BleTypeOK ==
    /\ mtu \in Mtu
    /\ connections \in [Device -> Ids \cup {0}]
    /\ connects \in [Device -> 0..MaxConnects]
    /\ stale \in [Device -> SUBSET Ids] /\ spoilt \in [Device -> SUBSET Ids]
    /\ DOMAIN reassembler = Device
    /\ delivered \in [Device -> Seq([message : Seq(Byte), spoilt : BOOLEAN])]
    /\ sizes \in [Device -> Seq(Sizes)]
    /\ call \in [Device -> [Caller ->
           [step : {"idle", "connecting", "discovering", "writing", "failed", "cancelling"},
            offset : Nat, message : Nat, via : Ids \cup {0}]]]
    /\ \A d \in Device :
         /\ connections[d] <= connects[d] /\ stale[d] \subseteq 1..connects[d]
         /\ spoilt[d] \subseteq DOMAIN reassembler[d]
         /\ reassembler[d] \in [DOMAIN reassembler[d] -> Seq(Byte)]
         /\ DOMAIN reassembler[d] \subseteq 1..connects[d]
         /\ Len(sizes[d]) <= MaxMessages[d]

BleInit ==
    /\ mtu \in Mtu
    /\ connections = [d \in Device |-> 0]
    /\ stale = [d \in Device |-> {}]
    /\ reassembler = [d \in Device |-> <<>>]
    /\ delivered = [d \in Device |-> <<>>]
    /\ call = [d \in Device |-> [c \in Caller |-> Idle]]
    /\ connects = [d \in Device |-> 0]
    /\ sizes = [d \in Device |-> <<>>]
    /\ spoilt = [d \in Device |-> {}]

-----------------------------------------------------------------------------
(* ble-chunking.ts                                                         *)

(* Faulty variant: an MTU with no room for a payload gives empty chunks.   *)
payloadPerChunk_unclamped == mtu - 3 - 1

payloadPerChunk == Max({mtu - 3 - 1, 1})

(* The chunk of message m of d that starts at offset.  An empty message    *)
(* has one too, with no payload.                                           *)
Chunk(d, m, offset) ==
    LET end == Min({offset + payloadPerChunk, sizes[d][m]})
        slice == SubSeq(MessageBytes(d, m), offset + 1, end)
    IN [isLast |-> offset + Len(slice) >= sizes[d][m], payload |-> slice]

(* Faulty variant: the header byte is taken for payload.                   *)
push_header(buffer, frame) ==
    LET bytes == buffer \o <<<<0, 0>>>> \o frame.payload
    IN [buffer |-> IF frame.isLast THEN <<>> ELSE bytes,
        complete |-> IF frame.isLast THEN {bytes} ELSE {}]

(* Faulty variant: a delivered message stays in the buffer.                *)
push_kept(buffer, frame) ==
    LET bytes == buffer \o frame.payload
    IN [buffer |-> bytes, complete |-> IF frame.isLast THEN {bytes} ELSE {}]

(* MessageReassembler.push: the new buffer, and the message if complete.   *)
push(buffer, frame) ==
    LET bytes == buffer \o frame.payload
    IN [buffer |-> IF frame.isLast THEN <<>> ELSE bytes,
        complete |-> IF frame.isLast THEN {bytes} ELSE {}]

-----------------------------------------------------------------------------
(* BleTransportAdapter                                                     *)

At(d, c, step) == call[d][c].step = step

Goto(d, c, step) == call' = [call EXCEPT ![d][c].step = step]

(* A message of n bytes; the map decides whether it needs a connection.    *)
sendBle(d, c, n) ==
    /\ At(d, c, "idle") /\ Len(sizes[d]) < MaxMessages[d]
    /\ sizes' = [sizes EXCEPT ![d] = Append(@, n)]
    /\ call' = [call EXCEPT ![d][c] =
           [step |-> IF connections[d] = 0 THEN "connecting" ELSE "writing",
            offset |-> 0, message |-> Len(sizes'[d]), via |-> connections[d]]]
    /\ UNCHANGED <<mtu, connections, stale, reassembler, delivered, connects, spoilt>>

ConnectedToDevice(d, c) ==
    /\ At(d, c, "connecting")
    /\ Goto(d, c, "discovering")
    /\ UNCHANGED <<mtu, connections, stale, reassembler, delivered, connects, sizes, spoilt>>

ConnectRejects(d, c) ==
    /\ At(d, c, "connecting") \/ At(d, c, "discovering")
    /\ Goto(d, c, "failed")
    /\ UNCHANGED <<mtu, connections, stale, reassembler, delivered, connects, sizes, spoilt>>

(* Some chunks of the message that d's peer is sending went by already.    *)
MidMessage(d) == \E c \in Caller : At(d, c, "writing") /\ call[d][c].offset > 0

(* Services discovered: monitor, and set the entry of the map.             *)
Monitor(d, c) ==
    /\ At(d, c, "discovering") /\ connects[d] < MaxConnects
    /\ LET i == connects[d] + 1 IN
       /\ connects' = [connects EXCEPT ![d] = i]
       /\ connections' = [connections EXCEPT ![d] = i]
       /\ reassembler' = [reassembler EXCEPT ![d] =
              [j \in DOMAIN @ \cup {i} |-> IF j = i THEN <<>> ELSE @[j]]]
       /\ spoilt' = [spoilt EXCEPT ![d] = IF MidMessage(Other(d)) THEN @ \cup {i} ELSE @]
       /\ call' = [call EXCEPT ![d][c].step = "writing", ![d][c].via = i]
    /\ UNCHANGED <<mtu, stale, delivered, sizes>>

(* Numbers in increasing order.                                            *)
Sorted(S) ==
    CHOOSE s \in [1..Cardinality(S) -> S] : \A j, k \in DOMAIN s : j < k => s[j] < s[k]

(* One frame reaches every subscription of device e, the oldest first.     *)
Arrives(e, frame) ==
    LET pushed == [i \in DOMAIN reassembler[e] |-> push(reassembler[e][i], frame)]
        completed == Sorted({i \in DOMAIN pushed : pushed[i].complete # {}})
    IN /\ reassembler' = [reassembler EXCEPT ![e] = [i \in DOMAIN pushed |-> pushed[i].buffer]]
       /\ delivered' = [delivered EXCEPT ![e] = @ \o
              [k \in DOMAIN completed |->
                 [message |-> CHOOSE m \in pushed[completed[k]].complete : TRUE,
                  spoilt |-> completed[k] \in spoilt[e]]]]

Write(d, c) == Arrives(Other(d), Chunk(d, call[d][c].message, call[d][c].offset))

(* A chunk is written and answered; after the last one send() resolves.    *)
WriteChunk(d, c) ==
    /\ At(d, c, "writing") /\ call[d][c].via \notin stale[d]
    /\ Write(d, c)
    /\ LET offset == call[d][c].offset + payloadPerChunk IN
       IF offset < sizes[d][call[d][c].message]
       THEN /\ call' = [call EXCEPT ![d][c].offset = offset]
            /\ UNCHANGED spoilt
       ELSE /\ call' = [call EXCEPT ![d][c] = Idle]
            /\ spoilt' = [spoilt EXCEPT ![Other(d)] = {}]
    /\ UNCHANGED <<mtu, connections, stale, connects, sizes>>

(* The write rejects, whether or not the chunk got through; the rest of    *)
(* the message is never sent.                                              *)
WriteRejects(d, c) ==
    /\ At(d, c, "writing")
    /\ \/ call[d][c].via \notin stale[d] /\ Write(d, c)
       \/ UNCHANGED <<reassembler, delivered>>
    /\ spoilt' = [spoilt EXCEPT ![Other(d)] =
           {i \in DOMAIN reassembler'[Other(d)] : reassembler'[Other(d)][i] # <<>>}]
    /\ Goto(d, c, "failed")
    /\ UNCHANGED <<mtu, connections, stale, connects, sizes>>

(* Called by a swap that aborts: because its send failed, or between two   *)
(* sends.                                                                  *)
disconnect(d, c) ==
    /\ At(d, c, "idle") \/ At(d, c, "failed")
    /\ IF connections[d] = 0
       THEN /\ call' = [call EXCEPT ![d][c] = Idle]
            /\ UNCHANGED <<connections, reassembler, spoilt>>
       ELSE /\ reassembler' = [reassembler EXCEPT ![d] =
                   Restrict(@, DOMAIN @ \ {connections[d]})]
            /\ spoilt' = [spoilt EXCEPT ![d] = @ \ {connections[d]}]
            /\ connections' = [connections EXCEPT ![d] = 0]
            /\ Goto(d, c, "cancelling")
    /\ UNCHANGED <<mtu, stale, delivered, connects, sizes>>

(* cancelDeviceConnection resolves or rejects: the link is gone either way.*)
Cancelled(d, c) ==
    /\ At(d, c, "cancelling")
    /\ call' = [call EXCEPT ![d][c] = Idle]
    /\ stale' = [stale EXCEPT ![d] = 1..connects[d]]
    /\ UNCHANGED <<mtu, connections, reassembler, delivered, connects, sizes, spoilt>>

(* The monitor's listener returns on an error: the entry stays in the map. *)
LinkDrops(d) ==
    /\ connections[d] # 0 /\ connections[d] \notin stale[d]
    /\ stale' = [stale EXCEPT ![d] = @ \cup {connections[d]}]
    /\ reassembler' = [reassembler EXCEPT ![d] = Restrict(@, DOMAIN @ \ {connections[d]})]
    /\ spoilt' = [spoilt EXCEPT ![d] = @ \ {connections[d]}]
    /\ UNCHANGED <<mtu, connections, delivered, call, connects, sizes>>

BleNext ==
    \E d \in Device :
        \/ LinkDrops(d)
        \/ \E c \in Caller :
              \/ \E n \in Sizes : sendBle(d, c, n)
              \/ ConnectedToDevice(d, c) \/ ConnectRejects(d, c) \/ Monitor(d, c)
              \/ WriteChunk(d, c) \/ WriteRejects(d, c)
              \/ disconnect(d, c) \/ Cancelled(d, c)

(* The library answers every call, over a link that is gone by rejecting   *)
(* it, and a swap whose send failed cleans up.                             *)
Answered(d, c) ==
    \/ ConnectedToDevice(d, c) \/ ConnectRejects(d, c) \/ Monitor(d, c)
    \/ WriteChunk(d, c) \/ Cancelled(d, c)
    \/ call[d][c].via \in stale[d] /\ WriteRejects(d, c)
    \/ At(d, c, "failed") /\ disconnect(d, c)

Fairness == \A d \in Device : \A c \in Caller : WF_bleVars(Answered(d, c))

BleSpec == BleInit /\ [][BleNext]_bleVars /\ Fairness

-----------------------------------------------------------------------------
(* Properties *)

(* The framing carries neither a length nor an index.  Still, a message    *)
(* that is delivered is whole, and messages come in the order they were    *)
(* sent and once each: only the first one after a subscription made in the *)
(* middle of a message, or after a write that failed in the middle of one, *)
(* may be spoilt.                                                          *)
WholeAndInOrder ==
    \A d \in Device :
        LET clean == {k \in DOMAIN delivered[d] : ~delivered[d][k].spoilt}
            from == Other(d)
        IN \E number \in [clean -> DOMAIN sizes[from]] :
             /\ \A k \in clean : delivered[d][k].message = MessageBytes(from, number[k])
             /\ \A j, k \in clean : j < k => number[j] < number[k]

(* Every send ends, and so does the disconnect that may follow: whatever   *)
(* the MTU leaves for a chunk, the message gets through it.                *)
EveryBleSendEnds ==
    \A d \in Device : \A c \in Caller : ~At(d, c, "idle") ~> At(d, c, "idle")
=============================================================================
