--------------------------- MODULE HttpTransport ----------------------------
(***************************************************************************)
(* HttpTransportServer and HttpTransportClient for one peer: everything    *)
(* the server keeps for one x-peer-id, and everything the client keeps for *)
(* one server.  The client posts its messages; the server's reach it as    *)
(* answers to long polls.  A request a client has abandoned still exists   *)
(* at the server, which does not watch for closed connections: polls and   *)
(* handshakes are therefore numbered, several being under way at a time.   *)
(***************************************************************************)
EXTENDS Integers, Sequences, SequencesExt

CONSTANTS
    Poll,           (* numbers of the GET /messages under way at a time     *)
    Handshake,      (* numbers of the handshakes under way at a time        *)
    None,
    MaxDown, MaxUp, (* bounds on the messages sent by server and client     *)
    MaxDisturbances (* bound on disconnects, expiries and network failures  *)

ASSUME NumbersAssumption == None \notin Poll \cup Handshake
ASSUME BoundsAssumption == {MaxDown, MaxUp, MaxDisturbances} \subseteq Nat

VARIABLES
    (* the server *)
    queue,          (* outboundQueueByPeer                                  *)
    pending,        (* pendingLongPollByPeer: a poll, or None               *)
    known,          (* knownPeerIds has the peer                            *)
    challenge,      (* pendingChallengesByPeer: whose nonce, or None        *)
    session,        (* authenticatedSessionsByPeer has the peer             *)
    arrived,        (* messages handed to receive(), in order               *)
    (* the client *)
    loop,           (* the poll loop of the registered controller           *)
    memo,           (* authenticationByPeerId: a handshake, or None         *)
    authenticated,  (* authenticatedPeerIds has the server                  *)
    post,           (* the send() in progress                               *)
    received,       (* messages handed to receive(), in order               *)
    (* under way *)
    polls,          (* polls[i]: the poll numbered i                        *)
    handshakes,     (* handshakes[h]: the handshake numbered h              *)
    (* history *)
    sent, posted,   (* messages sent so far by the server and the client    *)
    disturbances

server == <<queue, pending, known, challenge, session, arrived>>
client == <<loop, memo, authenticated, post, received>>
vars == <<server, client, polls, handshakes, sent, posted, disturbances>>

Message == 1..MaxDown

(* What a poll was answered with: a message, or a status.                  *)
NoContent == 0
Unauthorized == -1

NoPoll == [stage |-> "free", answer |-> NoContent, live |-> FALSE]

TypeOK ==
    /\ queue \in Seq(Message) /\ received \in Seq(Message) /\ arrived \in Seq(1..MaxUp)
    /\ pending \in Poll \cup {None} /\ challenge \in Handshake \cup {None}
    /\ {known, session, authenticated} \subseteq BOOLEAN
    /\ loop \in {"none", "authenticating", "fetching", "polling", "ended"}
    /\ post \in {"none", "authenticating", "posting", "admitted", "accepted", "refused"}
    /\ polls \in [Poll -> [stage : {"free", "requested", "waiting", "answered"},
                           answer : Message \cup {NoContent, Unauthorized}, live : BOOLEAN]]
    /\ handshakes \in [Handshake -> {"free", "asking", "challenged", "accepted", "rejected",
                                     "ok", "failed"}]
    /\ memo = None \/ (memo \in Handshake /\ handshakes[memo] # "free")
    /\ sent \in 0..MaxDown /\ posted \in 0..MaxUp
    /\ disturbances \in 0..MaxDisturbances

Init ==
    /\ queue = <<>> /\ pending = None /\ known = FALSE
    /\ challenge = None /\ session = FALSE /\ arrived = <<>>
    /\ loop = "none" /\ memo = None /\ authenticated = FALSE
    /\ post = "none" /\ received = <<>>
    /\ polls = [i \in Poll |-> NoPoll]
    /\ handshakes = [h \in Handshake |-> "free"]
    /\ sent = 0 /\ posted = 0 /\ disturbances = 0

Disturb == disturbances < MaxDisturbances /\ disturbances' = disturbances + 1

-----------------------------------------------------------------------------
(* The handshake *)

(* authenticate(), when not authenticated: joins the remembered handshake, *)
(* failed or not, or starts one.                                           *)
JoinHandshake ==
    IF memo # None
    THEN UNCHANGED <<memo, handshakes>>
    ELSE \E h \in Handshake :
           /\ handshakes[h] = "free"
           /\ memo' = h
           /\ handshakes' = [handshakes EXCEPT ![h] = "asking"]

(* A handshake whose promise nobody remembers leaves no result.            *)
Settle(h, result) ==
    handshakes' = [handshakes EXCEPT ![h] = IF memo = h THEN result ELSE "free"]

(* POST /handshake/challenge: the nonce replaces the one issued before.    *)
HandshakeChallenge(h) ==
    /\ handshakes[h] = "asking"
    /\ handshakes' = [handshakes EXCEPT ![h] = "challenged"]
    /\ challenge' = h
    /\ UNCHANGED <<queue, pending, known, session, arrived, client, polls, sent, posted,
                   disturbances>>

(* POST /handshake/response: the challenge is used up whatever the outcome. *)
HandshakeResponse(h) ==
    /\ handshakes[h] = "challenged"
    /\ challenge' = None
    /\ session' = (session \/ challenge = h)
    /\ handshakes' = [handshakes EXCEPT ![h] = IF challenge = h THEN "accepted" ELSE "rejected"]
    /\ UNCHANGED <<queue, pending, known, arrived, client, polls, sent, posted, disturbances>>

(* Faulty variant: a rejected handshake never settles.                     *)
HandshakeDone_accepted(h) ==
    /\ handshakes[h] = "accepted"
    /\ authenticated' = TRUE
    /\ Settle(h, "ok")
    /\ UNCHANGED <<server, loop, memo, post, received, polls, sent, posted, disturbances>>

(* The client has the answer; even a forgotten handshake authenticates it. *)
HandshakeDone(h) ==
    /\ \/ handshakes[h] = "accepted" /\ authenticated' = TRUE /\ Settle(h, "ok")
       \/ handshakes[h] = "rejected" /\ UNCHANGED authenticated /\ Settle(h, "failed")
    /\ UNCHANGED <<server, loop, memo, post, received, polls, sent, posted, disturbances>>

(* The address made too many attempts: 429, and no nonce is issued.        *)
HandshakeRefused(h) ==
    /\ handshakes[h] = "asking" /\ Disturb
    /\ handshakes' = [handshakes EXCEPT ![h] = "rejected"]
    /\ UNCHANGED <<server, client, polls, sent, posted>>

(* The response comes after the time to live of the challenge, which stays *)
(* where it is.                                                            *)
ChallengeExpires(h) ==
    /\ handshakes[h] = "challenged" /\ Disturb
    /\ handshakes' = [handshakes EXCEPT ![h] = "rejected"]
    /\ UNCHANGED <<server, client, polls, sent, posted>>

(* One of the requests of a handshake fails.                               *)
HandshakeFails(h) ==
    /\ handshakes[h] \in {"asking", "challenged", "accepted", "rejected"} /\ Disturb
    /\ Settle(h, "failed")
    /\ UNCHANGED <<server, client, polls, sent, posted>>

-----------------------------------------------------------------------------
(* send() and connect() of the client *)

ensurePolling == loop' = IF loop = "none" THEN "fetching" ELSE loop

(* connect() starts a poll loop, which authenticates first.                *)
connect ==
    /\ loop = "none"
    /\ IF authenticated
       THEN loop' = "fetching" /\ UNCHANGED <<memo, handshakes>>
       ELSE loop' = "authenticating" /\ JoinHandshake
    /\ UNCHANGED <<server, authenticated, post, received, polls, sent, posted, disturbances>>

(* A loop that cannot authenticate ends, and stays registered.             *)
LoopAuthenticated ==
    /\ loop = "authenticating"
    /\ \/ handshakes[memo] = "ok" /\ loop' = "fetching"
       \/ handshakes[memo] = "failed" /\ loop' = "ended"
    /\ UNCHANGED <<server, memo, authenticated, post, received, polls, handshakes, sent, posted,
                   disturbances>>

send ==
    /\ post = "none" /\ posted < MaxUp /\ posted' = posted + 1
    /\ IF authenticated
       THEN post' = "posting" /\ ensurePolling /\ UNCHANGED <<memo, handshakes>>
       ELSE post' = "authenticating" /\ JoinHandshake /\ UNCHANGED loop
    /\ UNCHANGED <<server, authenticated, received, polls, sent, disturbances>>

SendAuthenticated ==
    /\ post = "authenticating"
    /\ \/ handshakes[memo] = "ok" /\ post' = "posting" /\ ensurePolling
       \/ handshakes[memo] = "failed" /\ post' = "none" /\ UNCHANGED loop
    /\ UNCHANGED <<server, memo, authenticated, received, polls, handshakes, sent, posted,
                   disturbances>>

(* handlePost up to the reading of the body.                               *)
PostArrives ==
    /\ post = "posting"
    /\ post' = IF session THEN "admitted" ELSE "refused"
    /\ UNCHANGED <<server, loop, memo, authenticated, received, polls, handshakes, sent, posted,
                   disturbances>>

(* onNewPeer starts a swap, and the message goes to a receive().           *)
PostRead ==
    /\ post = "admitted"
    /\ post' = "accepted" /\ known' = TRUE /\ arrived' = Append(arrived, posted)
    /\ UNCHANGED <<queue, pending, challenge, session, loop, memo, authenticated, received, polls,
                   handshakes, sent, posted, disturbances>>

SendDone ==
    /\ post \in {"accepted", "refused"}
    /\ post' = "none"
    /\ UNCHANGED <<server, loop, memo, authenticated, received, polls, handshakes, sent, posted,
                   disturbances>>

(* 429: the identity sent too many messages within the window.             *)
PostRefused ==
    /\ post = "posting" /\ session /\ Disturb
    /\ post' = "refused"
    /\ UNCHANGED <<server, loop, memo, authenticated, received, polls, handshakes, sent, posted>>

(* 413: the body is too large, as only its reading tells.                  *)
BodyRefused ==
    /\ post = "admitted" /\ Disturb
    /\ post' = "refused"
    /\ UNCHANGED <<server, loop, memo, authenticated, received, polls, handshakes, sent, posted>>

(* The network fails.                                                      *)
SendFails ==
    /\ post \in {"posting", "admitted", "accepted"} /\ Disturb
    /\ post' = "none"
    /\ UNCHANGED <<server, loop, memo, authenticated, received, polls, handshakes, sent, posted>>

-----------------------------------------------------------------------------
(* The long polls *)

Answer(i, answer) == polls' = [polls EXCEPT ![i].stage = "answered", ![i].answer = answer]

PollStart ==
    /\ loop = "fetching" /\ loop' = "polling"
    /\ \E i \in Poll :
         /\ polls[i] = NoPoll
         /\ polls' = [polls EXCEPT ![i] = [NoPoll EXCEPT !.stage = "requested", !.live = TRUE]]
    /\ UNCHANGED <<server, memo, authenticated, post, received, handshakes, sent, posted,
                   disturbances>>

(* Faulty variant: does not look into the queue first.                     *)
PollArrives_unqueued(i) ==
    /\ polls[i].stage = "requested"
    /\ IF session
       THEN pending' = i /\ polls' = [polls EXCEPT ![i].stage = "waiting"]
       ELSE Answer(i, Unauthorized) /\ UNCHANGED pending
    /\ UNCHANGED <<queue, known, challenge, session, arrived, client, handshakes, sent, posted,
                   disturbances>>

(* handleLongPoll: a poll that waits takes the place of one that waited.   *)
PollArrives(i) ==
    /\ polls[i].stage = "requested"
    /\ \/ ~session /\ Answer(i, Unauthorized) /\ UNCHANGED <<queue, pending>>
       \/ /\ session /\ queue # <<>>
          /\ Answer(i, Head(queue)) /\ queue' = Tail(queue) /\ UNCHANGED pending
       \/ /\ session /\ queue = <<>>
          /\ pending' = i /\ polls' = [polls EXCEPT ![i].stage = "waiting"]
          /\ UNCHANGED queue
    /\ UNCHANGED <<known, challenge, session, arrived, client, handshakes, sent, posted,
                   disturbances>>

(* Faulty variant: fires only while the poll is the registered one.        *)
PollTimesOut_registered(i) ==
    /\ polls[i].stage = "waiting" /\ pending = i
    /\ Answer(i, NoContent) /\ pending' = None
    /\ UNCHANGED <<queue, known, challenge, session, arrived, client, handshakes, sent, posted,
                   disturbances>>

(* The timer of a poll unregisters whichever poll is registered.           *)
PollTimesOut(i) ==
    /\ polls[i].stage = "waiting"
    /\ Answer(i, NoContent) /\ pending' = None
    /\ UNCHANGED <<queue, known, challenge, session, arrived, client, handshakes, sent, posted,
                   disturbances>>

(* The loop takes the answer: a message, 204 (poll again) or 401 (end).    *)
PollAnswered(i) ==
    /\ polls[i].stage = "answered" /\ polls[i].live
    /\ polls' = [polls EXCEPT ![i] = NoPoll]
    /\ received' = IF polls[i].answer \in Message THEN Append(received, polls[i].answer)
                                                  ELSE received
    /\ loop' = IF polls[i].answer = Unauthorized THEN "ended" ELSE "fetching"
    /\ UNCHANGED <<server, memo, authenticated, post, handshakes, sent, posted, disturbances>>

(* The answer to an abandoned poll is lost.                                *)
PollForgotten(i) ==
    /\ polls[i].stage = "answered" /\ ~polls[i].live
    /\ polls' = [polls EXCEPT ![i] = NoPoll]
    /\ UNCHANGED <<server, client, handshakes, sent, posted, disturbances>>

(* The network fails a poll: the loop ends, and stays registered.          *)
PollFails(i) ==
    /\ polls[i].live /\ Disturb
    /\ loop' = "ended"
    /\ \/ polls' = [polls EXCEPT ![i].live = FALSE]
       \/ polls[i].stage = "requested" /\ polls' = [polls EXCEPT ![i] = NoPoll]
    /\ UNCHANGED <<server, memo, authenticated, post, received, handshakes, sent, posted>>

-----------------------------------------------------------------------------
(* send() and disconnect() *)

(* Faulty variant: what a waiting poll takes is queued as well.            *)
ServerSend_requeued ==
    /\ known /\ sent < MaxDown /\ sent' = sent + 1
    /\ queue' = Append(queue, sent')
    /\ IF pending # None THEN Answer(pending, sent') /\ pending' = None
                         ELSE UNCHANGED <<pending, polls>>
    /\ UNCHANGED <<known, challenge, session, arrived, client, handshakes, posted, disturbances>>

(* Swaps send to peers that onNewPeer has told of.                         *)
ServerSend ==
    /\ known /\ sent < MaxDown /\ sent' = sent + 1
    /\ IF pending # None
       THEN Answer(pending, sent') /\ pending' = None /\ UNCHANGED queue
       ELSE queue' = Append(queue, sent') /\ UNCHANGED <<pending, polls>>
    /\ UNCHANGED <<known, challenge, session, arrived, client, handshakes, posted, disturbances>>

ServerDisconnect ==
    /\ known /\ Disturb
    /\ queue' = <<>> /\ pending' = None /\ known' = FALSE /\ session' = FALSE
    /\ IF pending # None THEN Answer(pending, NoContent) ELSE UNCHANGED polls
    /\ UNCHANGED <<challenge, arrived, client, handshakes, sent, posted>>

SessionExpires ==
    /\ session /\ Disturb
    /\ session' = FALSE
    /\ UNCHANGED <<queue, pending, known, challenge, arrived, client, polls, handshakes, sent,
                   posted>>

Abandoned == [i \in Poll |-> IF polls[i].live THEN [polls[i] EXCEPT !.live = FALSE] ELSE polls[i]]

(* A settled handshake is no longer remembered.                            *)
Unremembered ==
    [h \in Handshake |->
        IF memo = h /\ handshakes[h] \in {"ok", "failed"} THEN "free" ELSE handshakes[h]]

(* Faulty variants: the poll is not aborted; the promise is not forgotten. *)
ClientDisconnect_polling ==
    /\ post = "none" /\ Disturb
    /\ loop' = "none" /\ memo' = None /\ authenticated' = FALSE
    /\ handshakes' = Unremembered
    /\ UNCHANGED <<server, post, received, polls, sent, posted>>

ClientDisconnect_remembered ==
    /\ post = "none" /\ Disturb
    /\ loop' = "none" /\ authenticated' = FALSE
    /\ polls' = Abandoned /\ handshakes' = Unremembered
    /\ UNCHANGED <<server, memo, post, received, sent, posted>>

(* A swap disconnects after its own send() has ended.                      *)
ClientDisconnect ==
    /\ post = "none" /\ Disturb
    /\ loop' = "none" /\ memo' = None /\ authenticated' = FALSE
    /\ polls' = Abandoned /\ handshakes' = Unremembered
    /\ UNCHANGED <<server, post, received, sent, posted>>

-----------------------------------------------------------------------------
(* Everything that happens by itself once a request is under way           *)
HandshakeStep(h) == HandshakeChallenge(h) \/ HandshakeResponse(h) \/ HandshakeDone(h)

PollStep(i) == PollArrives(i) \/ PollTimesOut(i) \/ PollAnswered(i) \/ PollForgotten(i)

LoopStep == LoopAuthenticated \/ PollStart

PostStep == SendAuthenticated \/ PostArrives \/ PostRead \/ SendDone

Next ==
    \/ connect \/ send \/ ServerSend
    \/ LoopStep \/ PostStep
    \/ \E h \in Handshake : 
             HandshakeStep(h) \/ HandshakeRefused(h) \/ ChallengeExpires(h) \/ HandshakeFails(h)
    \/ \E i \in Poll : PollStep(i) \/ PollFails(i)
    \/ PostRefused \/ BodyRefused \/ SendFails \/ ServerDisconnect \/ SessionExpires \/ ClientDisconnect

Spec == Init /\ [][Next]_vars

(* Both event loops run their handlers and timers, and the network delivers *)
(* a request and its answer unless it fails them.                          *)
FairSpec ==
    /\ Spec
    /\ WF_vars(LoopStep) /\ WF_vars(PostStep)
    /\ \A h \in Handshake : WF_vars(HandshakeStep(h))
    /\ \A i \in Poll : WF_vars(PollStep(i))

-----------------------------------------------------------------------------
(* Properties *)

(* No message waits in the queue while a poll is registered to take it,    *)
(* although polls overtake and unregister one another.                     *)
QueueOrPoll == pending # None => queue = <<>> /\ polls[pending].stage = "waiting"

(* A client has one poll under way, and only while its loop waits for it:  *)
(* two would reorder the server's messages.                                *)
OnePoller ==
    /\ \A i, j \in Poll : polls[i].live /\ polls[j].live => i = j
    /\ (\E i \in Poll : polls[i].live) <=> loop = "polling"

(* The client receives the server's messages in the order they were sent,  *)
(* each at most once, through abandoned polls and reconnections.           *)
ReceivedInOrder ==
    \A i, j \in DOMAIN received : i < j => received[i] < received[j]

(* Every send() ends, also when two handshakes of one client overlap and   *)
(* spoil each other's challenge.                                           *)
EverySendEnds == post # "none" ~> post = "none"

(* No disturbance is to come, and no request or answer under way still     *)
(* belongs to an earlier one.                                              *)
Undisturbed ==
    /\ disturbances = MaxDisturbances
    /\ \A i \in Poll :
         /\ polls[i].stage = "requested" => polls[i].live
         /\ polls[i].answer # Unauthorized

(* Once the connection is no longer disturbed, a queued message reaches a  *)
(* client that is polling, even when the timer of an older poll has        *)
(* unregistered the client's own.                                          *)
QueuedIsFetched ==
    \A m \in Message :
        (m \in Range(queue) /\ session /\ loop \in {"fetching", "polling"} /\ Undisturbed)
            ~> m \in Range(received)
=============================================================================
