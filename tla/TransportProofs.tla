-------------------------- MODULE TransportProofs --------------------------
(***************************************************************************)
(* What TLAPS proves of two adapters of TransportPort, HttpTransport and   *)
(* BleTransport, each of which stands by itself.                           *)
(*                                                                         *)
(* HttpTransport, for every number of polls and handshakes under way and   *)
(* every bound: the types, that a message waits only where no poll does,   *)
(* that a client has one poll, and that it receives the server's messages  *)
(* in order.  A message is in the queue, in the answer of a poll, or       *)
(* received.  The order holds because these three follow one another: what *)
(* the client has received precedes what the answer of its own poll        *)
(* carries, which precedes what is queued.  That its poll is the only one  *)
(* is what keeps two answers from overtaking each other.                   *)
(*                                                                         *)
(* BleTransport, for every MTU, every size and every bound: the types,     *)
(* and, when a device has one caller, that what is reassembled is whole    *)
(* and in order.  The frames carry no number, so the proof is about what   *)
(* the receiver holds: a reassembler that has missed nothing holds exactly *)
(* the bytes its peer has written of the message under way.                *)
(***************************************************************************)
EXTENDS HttpTransport, BleTransport, TLAPS, SequenceTheorems, FiniteSetTheorems,
    WellFoundedInduction

Increasing(s) == \A j, k \in DOMAIN s : j < k => s[j] < s[k]

-----------------------------------------------------------------------------
(* What holds of HttpTransport *)

(* The client will be handed the answer of poll i, a message.              *)
Carries(i) == polls[i].live /\ polls[i].answer \in Message

(* A poll is given its answer when it is answered.                         *)
AnsweredOnce == \A i \in Poll : polls[i].stage # "answered" => polls[i].answer = NoContent

(* Messages are numbered as they are sent.                                 *)
AllSent ==
    /\ \A j \in DOMAIN received : received[j] <= sent
    /\ \A k \in DOMAIN queue : queue[k] <= sent
    /\ \A i \in Poll : Carries(i) => polls[i].answer <= sent

(* What is received precedes what an answer carries, and both what waits.  *)
InTurn ==
    /\ \A j \in DOMAIN received, k \in DOMAIN queue : received[j] < queue[k]
    /\ \A j \in DOMAIN received : \A i \in Poll : Carries(i) => received[j] < polls[i].answer
    /\ \A k \in DOMAIN queue : \A i \in Poll : Carries(i) => polls[i].answer < queue[k]

OrderInv ==
    /\ AnsweredOnce /\ AllSent /\ InTurn
    /\ Increasing(received) /\ Increasing(queue)

HttpInv == TypeOK /\ QueueOrPoll /\ OnePoller /\ OrderInv

-----------------------------------------------------------------------------
(* Types *)

SequencesTyped == queue \in Seq(Message) /\ received \in Seq(Message) /\ arrived \in Seq(1..MaxUp)

FlagsTyped ==
    /\ challenge \in Handshake \cup {None}
    /\ known \in BOOLEAN /\ session \in BOOLEAN /\ authenticated \in BOOLEAN
    /\ loop \in {"none", "authenticating", "fetching", "polling", "ended"}
    /\ post \in {"none", "authenticating", "posting", "admitted", "accepted", "refused"}

PollRecord ==
    [stage : {"free", "requested", "waiting", "answered"},
     answer : Message \cup {NoContent, Unauthorized}, live : BOOLEAN]

PollsTyped == pending \in Poll \cup {None} /\ polls \in [Poll -> PollRecord]

HandshakesTyped ==
    /\ handshakes \in [Handshake -> {"free", "asking", "challenged", "accepted", "rejected",
                                     "ok", "failed"}]
    /\ memo = None \/ (memo \in Handshake /\ handshakes[memo] # "free")

CountsTyped == sent \in 0..MaxDown /\ posted \in 0..MaxUp /\ disturbances \in 0..MaxDisturbances

(* A send() under way has a message.                                       *)
Begun == post # "none" => posted >= 1

LEMMA TypeParts ==
    TypeOK <=> SequencesTyped /\ FlagsTyped /\ PollsTyped /\ HandshakesTyped /\ CountsTyped
<1>1. {known, session, authenticated} \subseteq BOOLEAN
        <=> known \in BOOLEAN /\ session \in BOOLEAN /\ authenticated \in BOOLEAN
  OBVIOUS
<1> QED
  BY <1>1, Zenon DEF TypeOK, SequencesTyped, FlagsTyped, PollsTyped, PollRecord, HandshakesTyped,
                     CountsTyped

LEMMA InitTyped == Init => TypeOK
<1> SUFFICES ASSUME Init PROVE TypeOK OBVIOUS
<1>1. SequencesTyped BY EmptySeq DEF Init, SequencesTyped
<1>2. FlagsTyped BY DEF Init, FlagsTyped
<1>3. PollsTyped BY DEF Init, PollsTyped, PollRecord, NoPoll
<1>4. HandshakesTyped BY DEF Init, HandshakesTyped
<1>5. CountsTyped BY BoundsAssumption DEF Init, CountsTyped
<1> QED BY <1>1, <1>2, <1>3, <1>4, <1>5, TypeParts

LEMMA CountsNext == TypeOK /\ Begun /\ [Next]_vars => CountsTyped' /\ Begun'
<1> SUFFICES ASSUME CountsTyped, Begun, [Next]_vars PROVE CountsTyped' /\ Begun' BY TypeParts
<1> USE BoundsAssumption DEF CountsTyped, Begun, Disturb, client
<1>1. CASE connect \/ send \/ ServerSend BY <1>1 DEF connect, send, ServerSend
<1>2. CASE LoopStep \/ PostStep
  BY <1>2 DEF LoopStep, PostStep, LoopAuthenticated, PollStart, SendAuthenticated, PostArrives,
              PostRead, SendDone
<1>3. CASE \E h \in Handshake : 
             HandshakeStep(h) \/ HandshakeRefused(h) \/ ChallengeExpires(h) \/ HandshakeFails(h)
  BY <1>3 DEF HandshakeStep, HandshakeChallenge, HandshakeResponse, HandshakeDone,
              HandshakeRefused, ChallengeExpires, HandshakeFails
<1>4. CASE \E i \in Poll : PollStep(i) \/ PollFails(i)
  BY <1>4 DEF PollStep, PollArrives, PollTimesOut, PollAnswered, PollForgotten, PollFails
<1>5. CASE PostRefused \/ BodyRefused \/ SendFails \/ ServerDisconnect \/ SessionExpires
             \/ ClientDisconnect
  BY <1>5 DEF PostRefused, BodyRefused, SendFails, ServerDisconnect, SessionExpires,
              ClientDisconnect
<1>6. CASE UNCHANGED vars BY <1>6 DEF vars
<1> QED BY <1>1, <1>2, <1>3, <1>4, <1>5, <1>6, Zenon DEF Next

LEMMA FlagsNext == TypeOK /\ [Next]_vars => FlagsTyped'
<1> SUFFICES ASSUME FlagsTyped, [Next]_vars PROVE FlagsTyped' BY TypeParts
<1> USE DEF FlagsTyped, server, client
<1>1. CASE connect \/ send \/ ServerSend BY <1>1 DEF connect, send, ServerSend, ensurePolling
<1>2. CASE LoopStep \/ PostStep
  BY <1>2 DEF LoopStep, PostStep, LoopAuthenticated, PollStart, SendAuthenticated, PostArrives,
              PostRead, SendDone, ensurePolling
<1>3. CASE \E h \in Handshake : 
             HandshakeStep(h) \/ HandshakeRefused(h) \/ ChallengeExpires(h) \/ HandshakeFails(h)
  <2>1. ASSUME NEW h \in Handshake, HandshakeStep(h) PROVE FlagsTyped'
    BY <2>1 DEF HandshakeStep, HandshakeChallenge, HandshakeResponse, HandshakeDone
  <2>2. ASSUME NEW h \in Handshake, HandshakeRefused(h) \/ ChallengeExpires(h) \/ HandshakeFails(h)
        PROVE  FlagsTyped'
    BY <2>2 DEF HandshakeRefused, ChallengeExpires, HandshakeFails
  <2> QED BY <1>3, <2>1, <2>2
<1>4. CASE \E i \in Poll : PollStep(i) \/ PollFails(i)
  BY <1>4 DEF PollStep, PollArrives, PollTimesOut, PollAnswered, PollForgotten, PollFails
<1>5. CASE PostRefused \/ BodyRefused \/ SendFails \/ ServerDisconnect \/ SessionExpires
             \/ ClientDisconnect
  BY <1>5 DEF PostRefused, BodyRefused, SendFails, ServerDisconnect, SessionExpires,
              ClientDisconnect
<1>6. CASE UNCHANGED vars BY <1>6 DEF vars
<1> QED BY <1>1, <1>2, <1>3, <1>4, <1>5, <1>6, Zenon DEF Next

(* A poll answered, begun, abandoned or given up is a poll.                *)
LEMMA AnswerTyped ==
    ASSUME PollsTyped, NEW i \in Poll, NEW answer \in Message \cup {NoContent, Unauthorized},
           Answer(i, answer)
    PROVE  polls' \in [Poll -> PollRecord]
BY DEF PollsTyped, PollRecord, Answer

LEMMA PollsNext == TypeOK /\ Begun /\ [Next]_vars => PollsTyped'
<1> SUFFICES ASSUME TypeOK, Begun, [Next]_vars PROVE PollsTyped' OBVIOUS
<1>0. PollsTyped /\ CountsTyped /\ CountsTyped' /\ SequencesTyped BY TypeParts, CountsNext
<1> USE DEF PollsTyped
<1>1. CASE UNCHANGED <<pending, polls>> BY <1>0, <1>1
<1>2. CASE connect \/ send \/ PostStep \/ LoopAuthenticated
  BY <1>1, <1>2 DEF connect, send, LoopAuthenticated, PostStep, SendAuthenticated, PostArrives,
                    PostRead, SendDone, server
<1>3. CASE \E h \in Handshake : 
             HandshakeStep(h) \/ HandshakeRefused(h) \/ ChallengeExpires(h) \/ HandshakeFails(h)
  BY <1>1, <1>3 DEF HandshakeStep, HandshakeChallenge, HandshakeResponse, HandshakeDone,
                    HandshakeRefused, ChallengeExpires, HandshakeFails, server
<1>4. CASE PostRefused \/ BodyRefused \/ SendFails \/ SessionExpires \/ UNCHANGED vars
  BY <1>1, <1>4 DEF PostRefused, BodyRefused, SendFails, SessionExpires, server, vars
<1>5. CASE ServerSend
  <2>1. sent' \in Message BY <1>0, <1>5, BoundsAssumption DEF ServerSend, CountsTyped, Message
  <2>2. CASE pending # None
    <3>1. pending \in Poll /\ Answer(pending, sent') /\ pending' = None
      BY <1>0, <1>5, <2>2 DEF ServerSend
    <3> QED BY <1>0, <2>1, <3>1, AnswerTyped
  <2>3. CASE pending = None BY <1>0, <1>5, <2>3 DEF ServerSend
  <2> QED BY <2>2, <2>3
<1>6. CASE PollStart
  <2> DEFINE begun == [NoPoll EXCEPT !.stage = "requested", !.live = TRUE]
  <2>1. begun \in PollRecord BY DEF NoPoll, PollRecord
  <2>2. \E i \in Poll : polls' = [polls EXCEPT ![i] = begun] BY <1>6 DEF PollStart
  <2> HIDE DEF begun
  <2>3. UNCHANGED pending BY <1>6 DEF PollStart, server
  <2> QED BY <1>0, <2>1, <2>2, <2>3
<1>7. ASSUME NEW i \in Poll, PollArrives(i) PROVE PollsTyped'
  <2>1. CASE Answer(i, Unauthorized) /\ UNCHANGED pending BY <1>0, <2>1, AnswerTyped
  <2>2. CASE queue # <<>> /\ Answer(i, Head(queue)) /\ UNCHANGED pending
    <3>1. Head(queue) \in Message BY <1>0, <2>2, HeadTailProperties DEF SequencesTyped
    <3> QED BY <1>0, <2>2, <3>1, AnswerTyped
  <2>3. CASE pending' = i /\ polls' = [polls EXCEPT ![i].stage = "waiting"]
    BY <1>0, <2>3 DEF PollRecord
  <2> QED BY <1>7, <2>1, <2>2, <2>3 DEF PollArrives
<1>8. ASSUME NEW i \in Poll, PollTimesOut(i) PROVE PollsTyped'
  BY <1>0, <1>8, AnswerTyped DEF PollTimesOut
<1>9. ASSUME NEW i \in Poll, PollAnswered(i) \/ PollForgotten(i) \/ PollFails(i) PROVE PollsTyped'
  <2>1. NoPoll \in PollRecord BY DEF NoPoll, PollRecord
  <2>2. CASE polls' = [polls EXCEPT ![i] = NoPoll] /\ UNCHANGED pending BY <1>0, <2>1, <2>2
  <2>3. CASE polls' = [polls EXCEPT ![i].live = FALSE] /\ UNCHANGED pending
    BY <1>0, <2>3 DEF PollRecord
  <2> QED BY <1>9, <2>2, <2>3 DEF PollAnswered, PollForgotten, PollFails, server
<1>10. CASE ServerDisconnect
  <2>1. CASE pending # None BY <1>0, <1>10, <2>1, AnswerTyped DEF ServerDisconnect
  <2>2. CASE pending = None BY <1>0, <1>10, <2>2 DEF ServerDisconnect
  <2> QED BY <2>1, <2>2
<1>11. CASE ClientDisconnect
  BY <1>0, <1>11 DEF ClientDisconnect, Abandoned, PollRecord, server
<1> QED
  BY <1>2, <1>3, <1>4, <1>5, <1>6, <1>7, <1>8, <1>9, <1>10, <1>11
  DEF Next, LoopStep, PollStep

LEMMA HandshakesNext == TypeOK /\ [Next]_vars => HandshakesTyped'
<1> SUFFICES ASSUME HandshakesTyped, [Next]_vars PROVE HandshakesTyped' BY TypeParts
<1> USE NumbersAssumption DEF HandshakesTyped
<1>1. CASE UNCHANGED <<memo, handshakes>> BY <1>1
<1>2. CASE ServerSend \/ LoopStep \/ PostStep
  BY <1>1, <1>2 DEF ServerSend, LoopStep, PostStep, LoopAuthenticated, PollStart,
                    SendAuthenticated, PostArrives, PostRead, SendDone, client
<1>3. CASE \E i \in Poll : PollStep(i) \/ PollFails(i)
  BY <1>1, <1>3 DEF PollStep, PollArrives, PollTimesOut, PollAnswered, PollForgotten, PollFails,
                    client
<1>4. CASE PostRefused \/ BodyRefused \/ SendFails \/ ServerDisconnect \/ SessionExpires
             \/ UNCHANGED vars
  BY <1>1, <1>4 DEF PostRefused, BodyRefused, SendFails, ServerDisconnect, SessionExpires, vars,
                    client
<1>5. CASE connect \/ send BY <1>5 DEF connect, send, JoinHandshake
<1>6. ASSUME NEW h \in Handshake,
             HandshakeStep(h) \/ HandshakeRefused(h) \/ ChallengeExpires(h) \/ HandshakeFails(h)
      PROVE  HandshakesTyped'
  BY <1>6 DEF HandshakeStep, HandshakeChallenge, HandshakeResponse, HandshakeDone,
              HandshakeRefused, ChallengeExpires, HandshakeFails, Settle, client
<1>7. CASE ClientDisconnect BY <1>7 DEF ClientDisconnect, Unremembered
<1> QED BY <1>2, <1>3, <1>4, <1>5, <1>6, <1>7 DEF Next

(* Sequences grow at their end and shrink at their head.                   *)
LEMMA SequencesNext == TypeOK /\ Begun /\ [Next]_vars => SequencesTyped'
<1> SUFFICES ASSUME TypeOK, Begun, [Next]_vars PROVE SequencesTyped' OBVIOUS
<1>0. SequencesTyped /\ CountsTyped /\ CountsTyped' BY TypeParts, CountsNext
<1> USE DEF SequencesTyped
<1>1. CASE UNCHANGED <<queue, received, arrived>> BY <1>0, <1>1
<1>2. CASE connect \/ send \/ LoopStep
  BY <1>1, <1>2 DEF connect, send, LoopStep, LoopAuthenticated, PollStart, server
<1>3. CASE SendAuthenticated \/ PostArrives \/ SendDone
  BY <1>1, <1>3 DEF SendAuthenticated, PostArrives, SendDone, server
<1>4. CASE \E h \in Handshake : 
             HandshakeStep(h) \/ HandshakeRefused(h) \/ ChallengeExpires(h) \/ HandshakeFails(h)
  BY <1>1, <1>4 DEF HandshakeStep, HandshakeChallenge, HandshakeResponse, HandshakeDone,
                    HandshakeRefused, ChallengeExpires, HandshakeFails, server, client
<1>5. CASE PostRefused \/ BodyRefused \/ SendFails \/ SessionExpires \/ ClientDisconnect
             \/ UNCHANGED vars
  BY <1>1, <1>5 DEF PostRefused, BodyRefused, SendFails, SessionExpires, ClientDisconnect, vars,
                    server, client
<1>6. CASE \E i \in Poll : PollTimesOut(i) \/ PollForgotten(i) \/ PollFails(i)
  BY <1>1, <1>6 DEF PollTimesOut, PollForgotten, PollFails, server, client
<1>7. CASE PostRead
  <2>1. posted \in 1..MaxUp BY <1>0, <1>7, BoundsAssumption DEF PostRead, Begun, CountsTyped
  <2> QED BY <1>0, <1>7, <2>1, AppendProperties DEF PostRead
<1>8. CASE ServerSend
  <2>1. sent' \in Message BY <1>0, <1>8, BoundsAssumption DEF ServerSend, CountsTyped, Message
  <2>2. queue' = queue \/ queue' = Append(queue, sent') BY <1>8 DEF ServerSend
  <2>3. UNCHANGED <<received, arrived>> BY <1>8 DEF ServerSend, client
  <2>4. queue' \in Seq(Message) BY <1>0, <2>1, <2>2, AppendProperties
  <2> QED BY <1>0, <2>3, <2>4
<1>9. CASE ServerDisconnect BY <1>0, <1>9, EmptySeq DEF ServerDisconnect, client
<1>10. ASSUME NEW i \in Poll, PollArrives(i) PROVE SequencesTyped'
  BY <1>0, <1>10, HeadTailProperties DEF PollArrives, client
<1>11. ASSUME NEW i \in Poll, PollAnswered(i) PROVE SequencesTyped'
  BY <1>0, <1>11, AppendProperties DEF PollAnswered, server
<1> QED
  BY <1>2, <1>3, <1>4, <1>5, <1>6, <1>7, <1>8, <1>9, <1>10, <1>11 DEF Next, PollStep, PostStep

TypeInv == TypeOK /\ Begun

LEMMA TypeInit == Init => TypeInv
BY InitTyped DEF Init, TypeInv, Begun

LEMMA TypeNext == TypeInv /\ [Next]_vars => TypeInv'
<1> SUFFICES ASSUME TypeOK, Begun, [Next]_vars PROVE TypeOK' /\ Begun' BY DEF TypeInv
<1>1. /\ SequencesTyped' /\ FlagsTyped' /\ PollsTyped' /\ HandshakesTyped' /\ CountsTyped'
      /\ Begun'
  BY SequencesNext, FlagsNext, PollsNext, HandshakesNext, CountsNext
<1> QED BY <1>1, TypeParts, PTL

(* The state of the server and of the client, and of what is under way     *)
(* between them, stays in its types.                                       *)
THEOREM TypeCorrect == Spec => []TypeOK
BY TypeInit, TypeNext, PTL DEF Spec, TypeInv

-----------------------------------------------------------------------------
(* A message waits in the queue only while no poll is registered           *)

LEMMA QueueOrPollNext == TypeOK /\ QueueOrPoll /\ [Next]_vars => QueueOrPoll'
<1> SUFFICES ASSUME PollsTyped, QueueOrPoll, [Next]_vars PROVE QueueOrPoll' BY TypeParts
<1> USE NumbersAssumption DEF QueueOrPoll, PollsTyped
<1>1. CASE UNCHANGED <<queue, pending, polls>> BY <1>1
<1>2. CASE connect \/ send \/ PostStep \/ LoopAuthenticated
  BY <1>1, <1>2 DEF connect, send, LoopAuthenticated, PostStep, SendAuthenticated, PostArrives,
                    PostRead, SendDone, server
<1>3. CASE \E h \in Handshake : 
             HandshakeStep(h) \/ HandshakeRefused(h) \/ ChallengeExpires(h) \/ HandshakeFails(h)
  BY <1>1, <1>3 DEF HandshakeStep, HandshakeChallenge, HandshakeResponse, HandshakeDone,
                    HandshakeRefused, ChallengeExpires, HandshakeFails, server
<1>4. CASE PostRefused \/ BodyRefused \/ SendFails \/ SessionExpires \/ UNCHANGED vars
  BY <1>1, <1>4 DEF PostRefused, BodyRefused, SendFails, SessionExpires, server, vars
<1>5. CASE ServerSend \/ ServerDisconnect BY <1>5 DEF ServerSend, ServerDisconnect
<1>6. CASE PollStart BY <1>6 DEF PollStart, NoPoll, server
<1>7. ASSUME NEW i \in Poll, PollArrives(i) PROVE QueueOrPoll'
  BY <1>7 DEF PollArrives, Answer, PollRecord
<1>8. ASSUME NEW i \in Poll, PollTimesOut(i) PROVE QueueOrPoll' BY <1>8 DEF PollTimesOut
<1>9. ASSUME NEW i \in Poll, PollAnswered(i) \/ PollForgotten(i) \/ PollFails(i) PROVE QueueOrPoll'
  BY <1>9 DEF PollAnswered, PollForgotten, PollFails, PollRecord, server
<1>10. CASE ClientDisconnect BY <1>10 DEF ClientDisconnect, Abandoned, PollRecord, server
<1> QED
  BY <1>2, <1>3, <1>4, <1>5, <1>6, <1>7, <1>8, <1>9, <1>10 DEF Next, LoopStep, PollStep

(* As long as a poll is registered to take the next message the queue is   *)
(* empty, although polls replace one another and the timer of one          *)
(* unregisters another.                                                    *)
THEOREM NothingWaitsForAPoll == Spec => []QueueOrPoll
<1>1. Init => QueueOrPoll BY DEF Init, QueueOrPoll
<1> QED BY <1>1, TypeCorrect, QueueOrPollNext, PTL DEF Spec

-----------------------------------------------------------------------------
(* A client has one poll under way                                         *)

LEMMA OnePollerNext == TypeOK /\ OnePoller /\ [Next]_vars => OnePoller'
<1> SUFFICES ASSUME PollsTyped, OnePoller, [Next]_vars PROVE OnePoller' BY TypeParts
<1> USE DEF OnePoller, PollsTyped
(* polls[i].live stays, and the loop neither begins nor ends to poll.      *)
<1>1. ASSUME \A i \in Poll : polls'[i].live = polls[i].live,
             loop' = loop \/ (loop # "polling" /\ loop' # "polling")
      PROVE  OnePoller'
  BY <1>1
<1>2. ASSUME UNCHANGED polls, loop' = loop \/ (loop # "polling" /\ loop' # "polling")
      PROVE  OnePoller'
  BY <1>1, <1>2
<1>3. CASE connect \/ send \/ PostStep \/ LoopAuthenticated
  BY <1>2, <1>3 DEF connect, send, LoopAuthenticated, PostStep, SendAuthenticated, PostArrives,
                    PostRead, SendDone, ensurePolling
<1>4. CASE \E h \in Handshake : 
             HandshakeStep(h) \/ HandshakeRefused(h) \/ ChallengeExpires(h) \/ HandshakeFails(h)
  BY <1>2, <1>4 DEF HandshakeStep, HandshakeChallenge, HandshakeResponse, HandshakeDone,
                    HandshakeRefused, ChallengeExpires, HandshakeFails, client
<1>5. CASE PostRefused \/ BodyRefused \/ SendFails \/ SessionExpires \/ UNCHANGED vars
  BY <1>2, <1>5 DEF PostRefused, BodyRefused, SendFails, SessionExpires, client, vars
<1>6. CASE ServerSend \/ ServerDisconnect
  <2>1. \A i \in Poll : polls'[i].live = polls[i].live
    BY <1>6 DEF ServerSend, ServerDisconnect, Answer, PollRecord
  <2> QED BY <1>1, <1>6, <2>1 DEF ServerSend, ServerDisconnect, client
<1>7. ASSUME NEW i \in Poll, PollArrives(i) \/ PollTimesOut(i) PROVE OnePoller'
  <2>1. \A j \in Poll : polls'[j].live = polls[j].live
    BY <1>7 DEF PollArrives, PollTimesOut, Answer, PollRecord
  <2> QED BY <1>1, <1>7, <2>1 DEF PollArrives, PollTimesOut, client
<1>8. CASE PollStart
  <2>1. PICK i \in Poll :
          polls' = [polls EXCEPT ![i] = [NoPoll EXCEPT !.stage = "requested", !.live = TRUE]]
    BY <1>8 DEF PollStart
  <2>2. \A j \in Poll : polls'[j].live <=> j = i BY <1>8, <2>1 DEF PollStart, NoPoll, PollRecord
  <2> QED BY <1>8, <2>2 DEF PollStart
<1>9. ASSUME NEW i \in Poll, PollAnswered(i) PROVE OnePoller'
  <2>1. \A j \in Poll : ~polls'[j].live BY <1>9 DEF PollAnswered, NoPoll, PollRecord
  <2> QED BY <1>9, <2>1 DEF PollAnswered
<1>10. ASSUME NEW i \in Poll, PollFails(i) PROVE OnePoller'
  <2>1. \A j \in Poll : ~polls'[j].live BY <1>10 DEF PollFails, NoPoll, PollRecord
  <2> QED BY <1>10, <2>1 DEF PollFails
<1>11. ASSUME NEW i \in Poll, PollForgotten(i) PROVE OnePoller'
  <2>1. \A j \in Poll : polls'[j].live = polls[j].live
    BY <1>11 DEF PollForgotten, NoPoll, PollRecord
  <2> QED BY <1>1, <1>11, <2>1 DEF PollForgotten, client
<1>12. CASE ClientDisconnect
  <2>1. \A j \in Poll : ~polls'[j].live BY <1>12 DEF ClientDisconnect, Abandoned, PollRecord
  <2> QED BY <1>12, <2>1 DEF ClientDisconnect
<1> QED
  BY <1>3, <1>4, <1>5, <1>6, <1>7, <1>8, <1>9, <1>10, <1>11, <1>12 DEF Next, LoopStep, PollStep

(* A client never has two polls whose answers it would take, and has one   *)
(* exactly while its loop waits, through failures and reconnections.       *)
THEOREM OnePollAtATime == Spec => []OnePoller
<1>1. Init => OnePoller BY DEF Init, OnePoller, NoPoll
<1> QED BY <1>1, TypeCorrect, OnePollerNext, PTL DEF Spec

-----------------------------------------------------------------------------
(* The order of the server's messages                                      *)

(* A greater number at the end keeps a sequence increasing.                *)
LEMMA AppendIncreases ==
    ASSUME NEW s \in Seq(Message), NEW m \in Message,
           Increasing(s), \A j \in DOMAIN s : s[j] < m
    PROVE  /\ Increasing(Append(s, m))
           /\ \A j \in DOMAIN Append(s, m) : \/ j \in DOMAIN s /\ Append(s, m)[j] = s[j]
                                             \/ Append(s, m)[j] = m
<1>1. /\ Len(Append(s, m)) = Len(s) + 1 /\ Append(s, m)[Len(s) + 1] = m
      /\ \A j \in 1..Len(s) : Append(s, m)[j] = s[j]
  BY AppendProperties
<1>2. /\ Len(s) \in Nat /\ DOMAIN s = 1..Len(s)
      /\ DOMAIN Append(s, m) = 1..(Len(s) + 1)
  BY <1>1, AppendProperties, LenProperties
<1> QED BY <1>1, <1>2 DEF Increasing

(* The head of an increasing sequence precedes its tail.                   *)
LEMMA HeadPrecedes ==
    ASSUME NEW s \in Seq(Message), s # <<>>, Increasing(s)
    PROVE  /\ 1 \in DOMAIN s /\ Head(s) = s[1] /\ Increasing(Tail(s))
           /\ \A k \in DOMAIN Tail(s) : /\ k + 1 \in DOMAIN s /\ Tail(s)[k] = s[k + 1]
                                        /\ Head(s) < Tail(s)[k]
<1>1. /\ Len(s) \in Nat /\ DOMAIN s = 1..Len(s) /\ Len(s) # 0 
  BY LenProperties, EmptySeq
<1>2. /\ Tail(s) \in Seq(Message) /\ Len(Tail(s)) = Len(s) - 1
      /\ \A k \in 1..Len(Tail(s)) : Tail(s)[k] = s[k + 1]
  BY HeadTailProperties
<1>3. DOMAIN Tail(s) = 1..(Len(s) - 1) BY <1>2, LenProperties
<1>4. Head(s) = s[1] OBVIOUS
<1>5. \A k \in DOMAIN Tail(s) : k + 1 \in DOMAIN s /\ Tail(s)[k] = s[k + 1] BY <1>1, <1>2, <1>3
<1>6. 1 \in DOMAIN s BY <1>1
<1>7. \A k \in DOMAIN Tail(s) : s[1] < s[k + 1]
  BY <1>1, <1>3, <1>5, <1>6 DEF Increasing
<1>8. Increasing(Tail(s)) BY <1>1, <1>3, <1>5 DEF Increasing
<1> QED BY <1>4, <1>5, <1>6, <1>7, <1>8

(* What a sequence of messages holds is a number.                          *)
LEMMA Numbers ==
    ASSUME SequencesTyped
    PROVE  /\ \A j \in DOMAIN received : received[j] \in Int
           /\ \A k \in DOMAIN queue : queue[k] \in Int
BY LenProperties, ElementOfSeq, BoundsAssumption DEF SequencesTyped, Message

(* A step that brings no message on its way disturbs no order.             *)
LEMMA NothingNew ==
    ASSUME OrderInv, UNCHANGED <<received, sent>>, queue' = queue \/ queue' = <<>>,
           AnsweredOnce', 
           \A i \in Poll : Carries(i)' => Carries(i) /\ polls'[i].answer = polls[i].answer
    PROVE  OrderInv'
<1>1. CASE queue' = queue BY <1>1 DEF OrderInv, AllSent, InTurn, Increasing, Carries
<1>2. CASE queue' = <<>>
  <2>1. DOMAIN queue' = {} BY <1>2
  <2> QED BY <2>1 DEF OrderInv, AllSent, InTurn, Increasing, Carries
<1> QED BY <1>1, <1>2

(* A message that leaves the queue for the answer of a poll stays between  *)
(* what is received and what is queued.                                    *)
LEMMA HeadAnswers ==
    ASSUME TypeOK, OrderInv, NEW i \in Poll, queue # <<>>,
           Answer(i, Head(queue)), queue' = Tail(queue), UNCHANGED <<received, sent>>
    PROVE  OrderInv'
<1>0. PollsTyped /\ SequencesTyped /\ CountsTyped BY TypeParts
<1>1. polls' = [polls EXCEPT ![i] = [polls[i] EXCEPT !.stage = "answered", !.answer = Head(queue)]]
  BY <1>0 DEF Answer, PollsTyped, PollRecord
<1>2. /\ polls'[i].stage = "answered" /\ polls'[i].answer = Head(queue)
      /\ polls'[i].live = polls[i].live
      /\ \A j \in Poll : j # i => polls'[j] = polls[j]
  BY <1>0, <1>1 DEF PollsTyped, PollRecord
<1>3. /\ 1 \in DOMAIN queue /\ Head(queue) = queue[1] /\ Increasing(queue')
      /\ \A k \in DOMAIN queue' : /\ k + 1 \in DOMAIN queue /\ queue'[k] = queue[k + 1]
                                  /\ Head(queue) < queue'[k]
  BY <1>0, HeadPrecedes DEF SequencesTyped, OrderInv
<1>4. AnsweredOnce' BY <1>2 DEF OrderInv, AnsweredOnce
<1>5. \A j \in Poll : Carries(j)' => \/ polls'[j].answer = Head(queue)
                                     \/ Carries(j) /\ polls'[j].answer = polls[j].answer
  BY <1>2 DEF Carries
<1>6. AllSent' BY <1>3, <1>5 DEF OrderInv, AllSent
<1>7. InTurn'
  <2>1. \A j \in DOMAIN received, k \in DOMAIN queue' : received[j] < queue'[k]
    BY <1>3 DEF OrderInv, InTurn
  <2>2. \A j \in DOMAIN received : \A l \in Poll : Carries(l)' => received[j] < polls'[l].answer
    BY <1>3, <1>5 DEF OrderInv, InTurn
  <2>3. \A k \in DOMAIN queue' : \A l \in Poll : Carries(l)' => polls'[l].answer < queue'[k]
    BY <1>3, <1>5 DEF OrderInv, InTurn
  <2> QED BY <2>1, <2>2, <2>3 DEF InTurn
<1> QED BY <1>3, <1>4, <1>6, <1>7 DEF OrderInv, Increasing

(* The client takes the answer of its poll, and has no other poll whose    *)
(* answer could come before it.                                            *)
LEMMA AnswerReceived ==
    ASSUME TypeOK, OnePoller, OrderInv, NEW i \in Poll, PollAnswered(i)
    PROVE  OrderInv'
<1>0. PollsTyped /\ SequencesTyped BY TypeParts
<1>1. /\ polls'[i] = NoPoll /\ \A j \in Poll : j # i => polls'[j] = polls[j]
      /\ UNCHANGED <<queue, sent>> /\ polls[i].live
  BY <1>0 DEF PollAnswered, PollsTyped, server
<1>2. \A j \in Poll : ~Carries(j)' BY <1>1 DEF OnePoller, Carries, NoPoll
<1>3. AnsweredOnce' BY <1>1 DEF OrderInv, AnsweredOnce, NoPoll
<1>4. CASE polls[i].answer \notin Message
  <2>1. UNCHANGED received BY <1>4 DEF PollAnswered
  <2> QED BY <1>1, <1>2, <1>3, <2>1, NothingNew
<1>5. CASE polls[i].answer \in Message
  <2> DEFINE m == polls[i].answer
  <2>1. received' = Append(received, m) BY <1>5 DEF PollAnswered
  <2>2. \A j \in DOMAIN received : received[j] < m BY <1>1, <1>5 DEF OrderInv, InTurn, Carries
  <2>3. /\ Increasing(received')
        /\ \A j \in DOMAIN received' : \/ j \in DOMAIN received /\ received'[j] = received[j]
                                      \/ received'[j] = m
    BY <1>0, <1>5, <2>1, <2>2, AppendIncreases DEF OrderInv, SequencesTyped
  <2>4. m <= sent /\ \A k \in DOMAIN queue : m < queue[k]
    BY <1>1, <1>5 DEF OrderInv, AllSent, InTurn, Carries
  <2> HIDE DEF m
  <2>5. AllSent' BY <1>1, <1>2, <2>3, <2>4 DEF OrderInv, AllSent
  <2>6. InTurn' BY <1>1, <1>2, <2>3, <2>4 DEF OrderInv, InTurn
  <2> QED BY <1>1, <1>3, <2>3, <2>5, <2>6 DEF OrderInv, Increasing
<1> QED BY <1>4, <1>5

(* A new message follows all others, wherever it goes.                     *)
LEMMA SendFollows ==
    ASSUME TypeOK, QueueOrPoll, OrderInv, ServerSend
    PROVE  OrderInv'
<1>0. PollsTyped /\ SequencesTyped /\ CountsTyped BY TypeParts
<1>1. /\ sent' \in Message /\ sent \in Int /\ sent' = sent + 1 /\ UNCHANGED received
  BY <1>0, BoundsAssumption DEF ServerSend, CountsTyped, Message, client
<1>2. /\ \A j \in DOMAIN received : received[j] \in Int /\ received[j] <= sent
      /\ \A k \in DOMAIN queue : queue[k] \in Int /\ queue[k] <= sent
  BY <1>0, Numbers DEF OrderInv, AllSent
<1>3. \A i \in Poll : Carries(i) => polls[i].answer \in Int /\ polls[i].answer <= sent
  BY BoundsAssumption DEF OrderInv, AllSent, Carries, Message
<1>4. CASE pending # None
  <2>1. /\ pending \in Poll /\ queue = <<>> /\ queue' = queue
        /\ polls'[pending].answer = sent' /\ polls'[pending].stage = "answered"
        /\ \A j \in Poll : j # pending => polls'[j] = polls[j]
    BY <1>0, <1>4 DEF QueueOrPoll, ServerSend, Answer, PollsTyped, PollRecord
  <2>2. DOMAIN queue' = {} /\ Increasing(queue') BY <2>1 DEF Increasing
  <2>3. AnsweredOnce' BY <2>1 DEF OrderInv, AnsweredOnce
  <2>4. \A j \in Poll : Carries(j)' => \/ polls'[j].answer = sent'
                                       \/ Carries(j) /\ polls'[j].answer = polls[j].answer
    BY <2>1 DEF Carries
  <2>5. AllSent'
    <3>1. \A j \in DOMAIN received : received[j] <= sent' BY <1>1, <1>2
    <3>2. \A j \in Poll : Carries(j)' => polls'[j].answer <= sent' BY <1>1, <1>3, <2>4
    <3> QED BY <1>1, <2>2, <3>1, <3>2 DEF AllSent
  <2>6. InTurn'
    <3>1. \A j \in DOMAIN received : received[j] < sent' BY <1>1, <1>2
    <3> QED BY <1>1, <2>2, <2>4, <3>1 DEF OrderInv, InTurn
  <2> QED BY <1>1, <2>2, <2>3, <2>5, <2>6 DEF OrderInv, Increasing
<1>5. CASE pending = None
  <2>1. UNCHANGED polls /\ queue' = Append(queue, sent') BY <1>5 DEF ServerSend
  <2>2. \A k \in DOMAIN queue : queue[k] < sent' BY <1>1, <1>2
  <2>3. /\ Increasing(queue')
        /\ \A k \in DOMAIN queue' : \/ k \in DOMAIN queue /\ queue'[k] = queue[k]
                                   \/ queue'[k] = sent'
    BY <1>0, <1>1, <2>1, <2>2, AppendIncreases DEF OrderInv, SequencesTyped
  <2>4. \A i \in Poll : Carries(i)' <=> Carries(i) BY <2>1 DEF Carries
  <2>5. AllSent'
    <3>1. \A j \in DOMAIN received : received[j] <= sent' BY <1>1, <1>2
    <3>2. \A k \in DOMAIN queue' : queue'[k] <= sent' BY <1>1, <1>2, <2>3
    <3>3. \A i \in Poll : Carries(i)' => polls'[i].answer <= sent' BY <1>1, <1>3, <2>1, <2>4
    <3> QED BY <1>1, <3>1, <3>2, <3>3 DEF AllSent
  <2>6. InTurn'
    <3>1. \A j \in DOMAIN received, k \in DOMAIN queue' : received[j] < queue'[k]
      BY <1>1, <1>2, <2>3 DEF OrderInv, InTurn
    <3>2. \A k \in DOMAIN queue' : \A i \in Poll : Carries(i)' => polls'[i].answer < queue'[k]
      BY <1>1, <1>3, <2>1, <2>3, <2>4 DEF OrderInv, InTurn
    <3> QED BY <1>1, <2>1, <2>4, <3>1, <3>2 DEF OrderInv, InTurn
  <2> QED BY <1>1, <2>1, <2>3, <2>5, <2>6 DEF OrderInv, AnsweredOnce, Increasing
<1> QED BY <1>4, <1>5

LEMMA OrderNext == TypeOK /\ QueueOrPoll /\ OnePoller /\ OrderInv /\ [Next]_vars => OrderInv'
<1> SUFFICES ASSUME TypeOK, QueueOrPoll, OnePoller, OrderInv, [Next]_vars PROVE OrderInv' OBVIOUS
<1>0. PollsTyped /\ AnsweredOnce BY TypeParts DEF OrderInv
<1> USE DEF AnsweredOnce, PollsTyped
<1>1. ASSUME UNCHANGED <<polls, received, queue, sent>> PROVE OrderInv'
  BY <1>0, <1>1, NothingNew DEF Carries
<1>2. CASE connect \/ PostStep \/ LoopAuthenticated
  BY <1>1, <1>2 DEF connect, LoopAuthenticated, PostStep, SendAuthenticated, PostArrives, PostRead,
                    SendDone, server
<1>3. CASE send BY <1>1, <1>3 DEF send, server
<1>4. CASE \E h \in Handshake : 
             HandshakeStep(h) \/ HandshakeRefused(h) \/ ChallengeExpires(h) \/ HandshakeFails(h)
  BY <1>1, <1>4 DEF HandshakeStep, HandshakeChallenge, HandshakeResponse, HandshakeDone,
                    HandshakeRefused, ChallengeExpires, HandshakeFails, client, server
<1>5. CASE PostRefused \/ BodyRefused \/ SendFails \/ SessionExpires \/ UNCHANGED vars
  BY <1>1, <1>5 DEF PostRefused, BodyRefused, SendFails, SessionExpires, client, server, vars
<1>6. CASE ServerSend BY <1>6, SendFollows
<1>7. CASE ServerDisconnect
  <2>1. UNCHANGED <<received, sent>> /\ queue' = <<>> BY <1>7 DEF ServerDisconnect, client
  <2>2. /\ AnsweredOnce'
        /\ \A i \in Poll : Carries(i)' => Carries(i) /\ polls'[i].answer = polls[i].answer
    BY <1>0, <1>7, BoundsAssumption
    DEF ServerDisconnect, Answer, Carries, PollRecord, NoContent, Message
  <2> QED BY <2>1, <2>2, NothingNew
<1>8. CASE PollStart
  <2>1. UNCHANGED <<received, sent, queue>> BY <1>8 DEF PollStart, server
  <2>2. PICK i \in Poll :
          polls' = [polls EXCEPT ![i] = [NoPoll EXCEPT !.stage = "requested", !.live = TRUE]]
    BY <1>8 DEF PollStart
  <2>3. /\ polls'[i].answer = NoContent /\ NoContent \notin Message
        /\ \A j \in Poll : j # i => polls'[j] = polls[j]
    BY <1>0, <2>2, BoundsAssumption DEF NoPoll, NoContent, Message
  <2>4. /\ AnsweredOnce'
        /\ \A j \in Poll : Carries(j)' => Carries(j) /\ polls'[j].answer = polls[j].answer
    BY <1>0, <2>3 DEF Carries
  <2> QED BY <2>1, <2>4, NothingNew
<1>9. ASSUME NEW i \in Poll, PollArrives(i) PROVE OrderInv'
  <2>0. UNCHANGED <<received, sent>> BY <1>9 DEF PollArrives, client
  <2>1. CASE Answer(i, Unauthorized) /\ UNCHANGED queue
    <3>1. /\ AnsweredOnce'
          /\ \A j \in Poll : Carries(j)' => Carries(j) /\ polls'[j].answer = polls[j].answer
      BY <1>0, <2>1, BoundsAssumption DEF Answer, Carries, PollRecord, Unauthorized, Message
    <3> QED BY <2>0, <2>1, <3>1, NothingNew
  <2>2. CASE queue # <<>> /\ Answer(i, Head(queue)) /\ queue' = Tail(queue)
    BY <2>0, <2>2, HeadAnswers
  <2>3. CASE /\ polls[i].stage = "requested" /\ polls' = [polls EXCEPT ![i].stage = "waiting"]
             /\ UNCHANGED queue
    <3>1. /\ AnsweredOnce'
          /\ \A j \in Poll : Carries(j)' => Carries(j) /\ polls'[j].answer = polls[j].answer
      BY <1>0, <2>3 DEF Carries, PollRecord
    <3> QED BY <2>0, <2>3, <3>1, NothingNew
  <2> QED BY <1>9, <2>1, <2>2, <2>3 DEF PollArrives
<1>10. ASSUME NEW i \in Poll, PollTimesOut(i) \/ PollForgotten(i) \/ PollFails(i) PROVE OrderInv'
  <2>1. UNCHANGED <<received, sent, queue>>
    BY <1>10 DEF PollTimesOut, PollForgotten, PollFails, client, server
  <2>2. /\ AnsweredOnce'
        /\ \A j \in Poll : Carries(j)' => Carries(j) /\ polls'[j].answer = polls[j].answer
    BY <1>0, <1>10, BoundsAssumption
    DEF PollTimesOut, PollForgotten, PollFails, Answer, Carries, PollRecord, NoPoll, NoContent,
        Message
  <2> QED BY <2>1, <2>2, NothingNew
<1>11. ASSUME NEW i \in Poll, PollAnswered(i) PROVE OrderInv' BY <1>11, AnswerReceived
<1>12. CASE ClientDisconnect
  <2>1. UNCHANGED <<received, sent, queue>> BY <1>12 DEF ClientDisconnect, server
  <2>2. /\ AnsweredOnce'
        /\ \A i \in Poll : Carries(i)' => Carries(i) /\ polls'[i].answer = polls[i].answer
    BY <1>0, <1>12 DEF ClientDisconnect, Abandoned, Carries, PollRecord
  <2> QED BY <2>1, <2>2, NothingNew
<1> QED
  BY <1>2, <1>3, <1>4, <1>5, <1>6, <1>7, <1>8, <1>9, <1>10, <1>11, <1>12
  DEF Next, LoopStep, PollStep

LEMMA OrderInit == Init => OrderInv
BY DEF Init, OrderInv, AnsweredOnce, AllSent, InTurn, Increasing, Carries, NoPoll

(* The client receives the server's messages in the order in which they    *)
(* were sent, each at most once, however polls are abandoned, overtaken or *)
(* timed out and however often it reconnects.                              *)
THEOREM MessagesInOrder == Spec => []ReceivedInOrder
<1>1. OrderInv => ReceivedInOrder BY DEF OrderInv, Increasing, ReceivedInOrder
<1> QED
  BY <1>1, OrderInit, OrderNext, TypeCorrect, NothingWaitsForAPoll, OnePollAtATime, PTL DEF Spec

-----------------------------------------------------------------------------
(* What holds of BleTransport *)

(* A message of d is under way: its send() has not ended.                  *)
UnderWay(d, c) == call[d][c].step \in {"connecting", "discovering", "writing"}

(* What is under way was counted, and no more than all of it was written.  *)
WithinMessage ==
    \A d \in Device, c \in Caller : UnderWay(d, c) =>
        /\ call[d][c].message \in DOMAIN sizes[d]
        /\ call[d][c].offset <= sizes[d][call[d][c].message]

BleTypeInv == BleTypeOK /\ WithinMessage

(* With one caller: what is under way is the last message, and the call    *)
(* that connects finds no connection in the map when it is done.           *)
LastUnderWay ==
    \A d \in Device, c \in Caller : UnderWay(d, c) =>
        /\ call[d][c].message = Len(sizes[d])
        /\ call[d][c].step # "writing" => connections[d] = 0 /\ call[d][c].offset = 0

(* A subscription that is alive is the one of the connection in the map.   *)
OneSubscription == \A d \in Device : DOMAIN reassembler[d] \subseteq {connections[d]}

(* The first n bytes of message m.                                         *)
FirstBytes(m, n) == [j \in 1..n |-> <<m, j>>]

(* What has been written of the message under way.                         *)
Holding(d, c) ==
    IF call[d][c].step = "writing"
    THEN FirstBytes(call[d][c].message, call[d][c].offset) ELSE <<>>

(* A reassembler that missed nothing of the message holds just that.       *)
Holds ==
    \A d \in Device, c \in Caller :
        \A i \in DOMAIN reassembler[Other(d)] \ spoilt[Other(d)] :
            reassembler[Other(d)][i] = Holding(d, c)

Clean(d) == {k \in DOMAIN delivered[d] : ~delivered[d][k].spoilt}

(* number[k] is the number of the message that k-th delivery was; a        *)
(* message under way is not delivered yet.                                 *)
Numbered(d, number) ==
    /\ \A k \in Clean(d) : delivered[d][k].message = MessageBytes(Other(d), number[k])
    /\ \A j, k \in Clean(d) : j < k => number[j] < number[k]
    /\ \A k \in Clean(d), c \in Caller :
         UnderWay(Other(d), c) => number[k] < call[Other(d)][c].message

DeliveredSoFar ==
    \A d \in Device : \E number \in [Clean(d) -> DOMAIN sizes[Other(d)]] : Numbered(d, number)

BleInv == BleTypeInv /\ LastUnderWay /\ OneSubscription /\ Holds /\ DeliveredSoFar

-----------------------------------------------------------------------------
(* The operators of BleTransport *)

(* There are two devices, each the other's peer.                           *)
LEMMA Others ==
    ASSUME NEW d \in Device
    PROVE  Other(d) \in Device /\ Other(d) # d /\ Other(Other(d)) = d
<1>1. PICK a \in Device, b \in Device : a # b /\ Device = {a, b}
  BY DeviceAssumption
<1>2. \A x \in Device : \E e \in Device : e # x
  BY <1>1
<1>3. \A x \in Device : Other(x) \in Device /\ Other(x) # x
  BY <1>2 DEF Other
<1> QED
  BY <1>1, <1>3

(* A chunk carries at least one byte, whatever the MTU is.                 *)
LEMMA PayloadPositive ==
    ASSUME mtu \in Mtu
    PROVE  payloadPerChunk \in Nat \ {0}
<1>1. mtu \in Nat
  BY SizeAssumption
<1>2. \A a, b \in Int : Max({a, b}) = IF a >= b THEN a ELSE b
  BY DEF Max
<1>3. payloadPerChunk = IF mtu - 3 - 1 >= 1 THEN mtu - 3 - 1 ELSE 1
  BY <1>1, <1>2 DEF payloadPerChunk
<1> QED
  BY <1>1, <1>3

(* A chunk of message m that starts at o carries the bytes after the o-th  *)
(* up to some other, and is the last one when that other is the last.      *)
LEMMA ChunkCarries ==
    ASSUME mtu \in Mtu, NEW d \in Device, sizes[d] \in Seq(Sizes),
           NEW m \in DOMAIN sizes[d], NEW o \in Nat, o <= sizes[d][m]
    PROVE  \E end \in Nat :
             /\ o <= end /\ end <= sizes[d][m]
             /\ Chunk(d, m, o).payload = [j \in 1..(end - o) |-> <<m, o + j>>]
             /\ Chunk(d, m, o).isLast = (end >= sizes[d][m])
             /\ IF o + payloadPerChunk < sizes[d][m]
                THEN end = o + payloadPerChunk ELSE end = sizes[d][m]
<1> DEFINE p == payloadPerChunk
           size == sizes[d][m]
           end == IF o + p < size THEN o + p ELSE size
           bytes == MessageBytes(d, m)
           slice == SubSeq(bytes, o + 1, Min({o + p, size}))
<1>1. size \in Nat /\ o <= size
  <2>1. size \in Sizes
    OBVIOUS
  <2> QED
    BY <2>1, SizeAssumption
<1>2. p \in Nat \ {0}
  BY PayloadPositive
<1>3. bytes = [j \in 1..size |-> <<m, j>>]
  BY DEF MessageBytes
<1>4. Chunk(d, m, o) = [isLast |-> o + Len(slice) >= size, payload |-> slice]
  BY DEF Chunk
<1> HIDE DEF p, size, bytes
<1>5. \A a, b \in Nat : Min({a, b}) = IF a < b THEN a ELSE b
  BY DEF Min
<1>6. Min({o + p, size}) = end /\ end \in Nat /\ o <= end /\ end <= size
  <2>1. Min({o + p, size}) = end
    BY <1>1, <1>2, <1>5
  <2>2. end \in Nat /\ o <= end /\ end <= size
    BY <1>1, <1>2
  <2> QED
    BY <2>1, <2>2
<1> DEFINE Pair == Nat \X Nat
<1>7. m \in Nat /\ bytes \in Seq(Pair) /\ Len(bytes) = size
  <2>1. m \in Nat
    OBVIOUS
  <2>2. \A j \in 1..size : <<m, j>> \in Pair
    BY <1>1, <2>1
  <2> HIDE DEF Pair
  <2>3. bytes \in [1..size -> Pair]
    BY <1>3, <2>2
  <2>4. bytes \in Seq(Pair)
    BY <1>1, <2>3
  <2> QED
    BY <1>1, <2>1, <2>3, <2>4
<1> HIDE DEF Pair, end
<1>8. /\ slice \in Seq(Pair) /\ Len(slice) = end - o
      /\ \A j \in 1..(end - o) : slice[j] = bytes[o + j]
  <2>1. o + 1 \in 1..(Len(bytes) + 1) /\ end \in (o + 1 - 1)..Len(bytes)
    BY <1>1, <1>6, <1>7
  <2>2. /\ SubSeq(bytes, o + 1, end) \in Seq(Pair)
        /\ Len(SubSeq(bytes, o + 1, end)) = end - (o + 1) + 1
        /\ \A j \in 1..(end - (o + 1) + 1) : SubSeq(bytes, o + 1, end)[j] = bytes[o + 1 + j - 1]
    BY <1>7, <2>1, SubSeqProperties
  <2>3. end - (o + 1) + 1 = end - o /\ \A j \in 1..(end - o) : o + 1 + j - 1 = o + j
    BY <1>6
  <2> QED
    BY <1>6, <2>2, <2>3
<1>9. slice = [j \in 1..(end - o) |-> <<m, o + j>>]
  <2>1. \A j \in 1..(end - o) : slice[j] = <<m, o + j>>
    <3> SUFFICES ASSUME NEW j \in 1..(end - o) PROVE slice[j] = <<m, o + j>>
      OBVIOUS
    <3>1. o + j \in 1..size
      BY <1>1, <1>6
    <3> QED
      BY <1>3, <1>8, <3>1
  <2> DEFINE rest == [j \in 1..(end - o) |-> <<m, o + j>>]
  <2>2. end - o \in Nat /\ \A j \in 1..(end - o) : <<m, o + j>> \in Pair
    <3>1. end - o \in Nat /\ \A j \in 1..(end - o) : o + j \in Nat
      BY <1>6
    <3> QED
      BY <1>7, <3>1 DEF Pair
  <2>3. rest \in Seq(Pair) /\ Len(rest) = end - o
    BY <2>2
  <2>4. \A j \in 1..(end - o) : rest[j] = <<m, o + j>>
    OBVIOUS
  <2> HIDE DEF rest, slice
  <2>5. slice = rest
    BY <1>8, <2>1, <2>3, <2>4, SeqEqual
  <2> QED
    BY <2>5 DEF rest
<1>10. o + Len(slice) = end
  BY <1>6, <1>8
<1>11. IF o + p < size THEN end = o + p ELSE end = size
  BY DEF end
<1>12. /\ Chunk(d, m, o).payload = [j \in 1..(end - o) |-> <<m, o + j>>]
       /\ Chunk(d, m, o).isLast = (end >= size)
  <2>1. [isLast |-> o + Len(slice) >= size, payload |-> slice].payload = slice
    OBVIOUS
  <2>2. [isLast |-> o + Len(slice) >= size, payload |-> slice].isLast = (o + Len(slice) >= size)
    BY Zenon
  <2> HIDE DEF slice
  <2> QED
    BY <1>4, <1>9, <1>10, <2>1, <2>2, Zenon
<1> QED
  BY <1>6, <1>11, <1>12 DEF p, size

(* What has been written of a message, and the bytes of the next chunk.    *)
LEMMA FirstBytesJoin ==
    ASSUME NEW m \in Nat, NEW o \in Nat, NEW end \in Nat, o <= end
    PROVE  FirstBytes(m, o) \o [j \in 1..(end - o) |-> <<m, o + j>>] = FirstBytes(m, end)
<1> DEFINE a == FirstBytes(m, o)
           b == [j \in 1..(end - o) |-> <<m, o + j>>]
<1>1. a \in Seq(Nat \X Nat) /\ Len(a) = o /\ \A j \in 1..o : a[j] = <<m, j>>
  BY DEF FirstBytes
<1>2. b \in Seq(Nat \X Nat) /\ Len(b) = end - o /\ \A j \in 1..(end - o) : b[j] = <<m, o + j>>
  OBVIOUS
<1> HIDE DEF a, b
<1>3. /\ a \o b \in Seq(Nat \X Nat) /\ Len(a \o b) = end
      /\ \A j \in 1..end : (a \o b)[j] = IF j <= o THEN a[j] ELSE b[j - o]
  <2>1. /\ a \o b \in Seq(Nat \X Nat) /\ Len(a \o b) = Len(a) + Len(b)
        /\ \A j \in 1..(Len(a) + Len(b)) : (a \o b)[j] = IF j <= Len(a) THEN a[j] ELSE b[j - Len(a)]
    BY <1>1, <1>2, ConcatProperties
  <2>2. Len(a) + Len(b) = end
    BY <1>1, <1>2
  <2> QED
    BY <1>1, <2>1, <2>2
<1>4. \A j \in 1..end : (a \o b)[j] = <<m, j>>
  <2> SUFFICES ASSUME NEW j \in 1..end PROVE (a \o b)[j] = <<m, j>>
    OBVIOUS
  <2>1. CASE j <= o
    BY <1>1, <1>3, <2>1
  <2>2. CASE ~(j <= o)
    <3>1. j - o \in 1..(end - o) /\ o + (j - o) = j
      BY <2>2
    <3>2. b[j - o] = <<m, o + (j - o)>>
      BY <1>2, <3>1
    <3> QED
      BY <1>3, <2>2, <3>1, <3>2
  <2> QED
    BY <2>1, <2>2
<1>5. a \o b = [j \in 1..end |-> <<m, j>>]
  <2> DEFINE all == [j \in 1..end |-> <<m, j>>]
  <2>1. all \in Seq(Nat \X Nat) /\ Len(all) = end /\ \A j \in 1..end : all[j] = <<m, j>>
    OBVIOUS
  <2> HIDE DEF all
  <2>2. a \o b = all
    BY <1>3, <1>4, <2>1, SeqEqual
  <2> QED
    BY <2>2 DEF all
<1> QED
  BY <1>5 DEF FirstBytes, a, b

(* Every finite set of numbers can be put in increasing order.             *)
Orderings(S) == {s \in [1..Cardinality(S) -> S] : Increasing(s)}

LEMMA LargestAppended ==
    ASSUME NEW S \in SUBSET Nat, IsFiniteSet(S), NEW n \in S, \A i \in S : i <= n,
           Orderings(S \ {n}) # {}
    PROVE  Orderings(S) # {}
<1>1. PICK s \in [1..Cardinality(S \ {n}) -> S \ {n}] : Increasing(s)
  BY DEF Orderings
<1> DEFINE c == Cardinality(S)
           t == [k \in 1..c |-> IF k = c THEN n ELSE s[k]]
<1>2. c \in Nat /\ Cardinality(S \ {n}) = c - 1 /\ c \in Nat \ {0}
  <2>1. c \in Nat /\ (c = 0 <=> S = {})
    BY FS_CardinalityType, FS_EmptySet
  <2>2. Cardinality(S \ {n}) = c - 1
    BY FS_RemoveElement
  <2> QED
    BY <2>1, <2>2
<1>6. s \in [1..(c - 1) -> S \ {n}] /\ DOMAIN s = 1..(c - 1)
  BY <1>1, <1>2
<1> HIDE DEF c
<1>3. \A k \in 1..(c - 1) : s[k] \in S /\ s[k] < n
  <2> SUFFICES ASSUME NEW k \in 1..(c - 1) PROVE s[k] \in S /\ s[k] < n
    OBVIOUS
  <2>1. s[k] \in S /\ s[k] # n
    BY <1>6
  <2>2. s[k] \in Nat /\ n \in Nat /\ s[k] <= n
    BY <2>1
  <2> QED
    BY <2>1, <2>2
<1>4. t \in [1..c -> S]
  <2>1. \A k \in 1..c : k # c => k \in 1..(c - 1)
    BY <1>2
  <2> QED
    BY <1>3, <2>1
<1>5. Increasing(t)
  <2> SUFFICES ASSUME NEW j \in 1..c, NEW k \in 1..c, j < k PROVE t[j] < t[k]
    BY DEF Increasing
  <2>1. j \in 1..(c - 1) /\ t[j] = s[j]
    BY <1>2
  <2>2. CASE k = c
    BY <1>3, <2>1, <2>2
  <2>3. CASE k # c
    <3>1. k \in 1..(c - 1) /\ t[k] = s[k]
      BY <1>2, <2>3
    <3> QED
      BY <1>1, <1>6, <2>1, <3>1 DEF Increasing
  <2> QED
    BY <2>2, <2>3
<1> QED
  BY <1>4, <1>5 DEF Orderings, c

LEMMA OrderingExists ==
    ASSUME NEW n \in Nat, NEW S \in SUBSET (1..n)
    PROVE  Orderings(S) # {}
<1> DEFINE Unordered(m) == \E T \in SUBSET (1..m) : Orderings(T) = {}
           bad == {m \in Nat : Unordered(m)}
<1>1. SUFFICES ASSUME bad # {} PROVE FALSE
  OBVIOUS
<1>2. PICK m \in bad : \A k \in bad : ~(<<k, m>> \in OpToRel(<, Nat))
  <2>1. bad \in SUBSET Nat
    OBVIOUS
  <2> HIDE DEF bad
  <2> QED
    BY <1>1, <2>1, NatLessThanWellFounded, WFMin, ZenonT(60)
<1>3. \A k \in bad : ~(k < m)
  BY <1>2 DEF OpToRel
<1>4. PICK T \in SUBSET (1..m) : Orderings(T) = {}
  OBVIOUS
<1>5. IsFiniteSet(T)
  <2>1. IsFiniteSet(1..m)
    BY FS_Interval
  <2> QED
    BY <2>1, FS_Subset
<1>6. CASE T = {}
  <2>1. <<>> \in [1..0 -> T] /\ Increasing(<<>>)
    BY DEF Increasing
  <2> QED
    BY <1>4, <1>6, <2>1, FS_EmptySet DEF Orderings
<1>7. CASE T # {}
  <2>0. m \in Nat
    OBVIOUS
  <2>1. m \in Nat \ {0} /\ m - 1 \in Nat /\ m - 1 \notin bad
    <3> HIDE DEF bad
    <3>1. ASSUME m = 0 PROVE FALSE
      <4>1. PICK i \in T : TRUE
        BY <1>7
      <4>2. i \in 1..0
        BY <3>1, <4>1
      <4> QED
        BY <4>2
    <3>2. m - 1 \in Nat /\ m - 1 < m
      BY <2>0, <3>1
    <3> QED
      BY <1>3, <2>0, <3>1, <3>2
  <2>2. \A U \in SUBSET (1..(m - 1)) : Orderings(U) # {}
    BY <2>1
  <2>3. m \in T
    <3>1. CASE m \notin T
      <4>1. T \in SUBSET (1..(m - 1))
        BY <2>1, <3>1
      <4> QED
        BY <1>4, <2>2, <4>1
    <3> QED
      BY <3>1
  <2>4. T \ {m} \in SUBSET (1..(m - 1)) /\ \A i \in T : i <= m
    BY <2>1
  <2>5. T \in SUBSET Nat
    OBVIOUS
  <2> QED
    BY <1>4, <1>5, <2>2, <2>3, <2>4, <2>5, LargestAppended
<1> QED
  BY <1>6, <1>7

LEMMA SortedOrders ==
    ASSUME NEW n \in Nat, NEW S \in SUBSET (1..n)
    PROVE  /\ Cardinality(S) \in Nat
           /\ Sorted(S) \in [1..Cardinality(S) -> S]
           /\ Increasing(Sorted(S))
<1>1. Cardinality(S) \in Nat
  <2>1. IsFiniteSet(1..n)
    BY FS_Interval
  <2>2. IsFiniteSet(S)
    BY <2>1, FS_Subset
  <2> QED
    BY <2>2, FS_CardinalityType
<1>2. \E s \in [1..Cardinality(S) -> S] : \A j, k \in DOMAIN s : j < k => s[j] < s[k]
  BY OrderingExists DEF Orderings, Increasing
<1>3. /\ Sorted(S) \in [1..Cardinality(S) -> S]
      /\ \A j, k \in DOMAIN Sorted(S) : j < k => Sorted(S)[j] < Sorted(S)[k]
  <2> DEFINE All == [1..Cardinality(S) -> S]
             P(s) == \A j, k \in DOMAIN s : j < k => s[j] < s[k]
  <2>1. Sorted(S) = CHOOSE s \in All : P(s)
    BY Zenon DEF Sorted
  <2>2. \E s \in All : P(s)
    BY <1>2
  <2> HIDE DEF All, P
  <2>3. Sorted(S) \in All /\ P(Sorted(S))
    BY <2>1, <2>2
  <2> QED
    BY <2>3 DEF All, P
<1> QED
  BY <1>1, <1>3 DEF Increasing

LEMMA PushIs ==
    ASSUME NEW buffer, NEW frame
    PROVE  /\ push(buffer, frame).buffer =
                IF frame.isLast THEN <<>> ELSE buffer \o frame.payload
           /\ push(buffer, frame).complete =
                IF frame.isLast THEN {buffer \o frame.payload} ELSE {}
BY DEF push

(* The subscriptions of e that frame completes a message for, the message  *)
(* it completes, and what is delivered.                                    *)
Completed(e, frame) == IF frame.isLast THEN DOMAIN reassembler[e] ELSE {}

Joined(e, frame, i) == reassembler[e][i] \o frame.payload

Deliveries(e, frame) ==
    [k \in 1..Cardinality(Completed(e, frame)) |->
        [message |-> Joined(e, frame, Sorted(Completed(e, frame))[k]),
         spoilt |-> Sorted(Completed(e, frame))[k] \in spoilt[e]]]

Buffers(e, frame) ==
    [i \in DOMAIN reassembler[e] |-> IF frame.isLast THEN <<>> ELSE Joined(e, frame, i)]

LEMMA ArrivesIs ==
    ASSUME BleTypeOK, NEW e \in Device, NEW frame, Arrives(e, frame)
    PROVE  /\ reassembler' = [reassembler EXCEPT ![e] = Buffers(e, frame)]
           /\ delivered' = [delivered EXCEPT ![e] = delivered[e] \o Deliveries(e, frame)]
           /\ Cardinality(Completed(e, frame)) \in Nat
           /\ Sorted(Completed(e, frame)) \in
                [1..Cardinality(Completed(e, frame)) -> Completed(e, frame)]
<1> DEFINE pushed == [i \in DOMAIN reassembler[e] |-> push(reassembler[e][i], frame)]
           done == {i \in DOMAIN pushed : pushed[i].complete # {}}
           completed == Sorted(done)
           added == [k \in DOMAIN completed |->
                       [message |-> CHOOSE m \in pushed[completed[k]].complete : TRUE,
                        spoilt |-> completed[k] \in spoilt[e]]]
           n == Cardinality(Completed(e, frame))
           s == Sorted(Completed(e, frame))
<1>1. /\ reassembler' = [reassembler EXCEPT ![e] = [i \in DOMAIN pushed |-> pushed[i].buffer]]
      /\ delivered' = [delivered EXCEPT ![e] = delivered[e] \o added]
  BY DEF Arrives
<1>2. \A i \in DOMAIN reassembler[e] :
        /\ pushed[i].buffer = IF frame.isLast THEN <<>> ELSE Joined(e, frame, i)
        /\ pushed[i].complete = IF frame.isLast THEN {Joined(e, frame, i)} ELSE {}
  BY PushIs DEF Joined
<1>3. DOMAIN pushed = DOMAIN reassembler[e]
  OBVIOUS
<1>4. done = Completed(e, frame)
  BY <1>2, <1>3 DEF Completed
<1>5. n \in Nat /\ s \in [1..n -> Completed(e, frame)]
  <2>1. connects[e] \in Nat /\ Completed(e, frame) \in SUBSET (1..connects[e])
    BY BoundAssumption DEF BleTypeOK, Completed
  <2> QED
    BY <2>1, SortedOrders
<1> HIDE DEF pushed, n
<1>6. [i \in DOMAIN pushed |-> pushed[i].buffer] = Buffers(e, frame)
  BY <1>2, <1>3 DEF Buffers
<1>7. added = Deliveries(e, frame)
  <2>1. completed = s
    BY <1>4
  <2> HIDE DEF done, completed, s
  <2>2. \A k \in 1..n : s[k] \in DOMAIN reassembler[e] /\ frame.isLast
    BY <1>5 DEF Completed
  <2>3. \A k \in 1..n : (CHOOSE m \in pushed[s[k]].complete : TRUE) = Joined(e, frame, s[k])
    <3> SUFFICES ASSUME NEW k \in 1..n
                 PROVE (CHOOSE m \in pushed[s[k]].complete : TRUE) = Joined(e, frame, s[k])
      OBVIOUS
    <3>1. pushed[s[k]].complete = {Joined(e, frame, s[k])}
      BY <1>2, <2>2
    <3> QED
      BY <3>1
  <2>4. DOMAIN completed = 1..n
    BY <1>5, <2>1
  <2>5. added = [k \in 1..n |-> [message |-> Joined(e, frame, s[k]), spoilt |-> s[k] \in spoilt[e]]]
    BY <2>1, <2>3, <2>4
  <2> QED
    BY <2>5 DEF Deliveries, n, s
<1> HIDE DEF done, completed, added, s
<1> QED
  BY <1>1, <1>5, <1>6, <1>7 DEF n, s

-----------------------------------------------------------------------------
(* The types of BleTransport *)

LinksTyped ==
    /\ mtu \in Mtu
    /\ connections \in [Device -> Ids \cup {0}]
    /\ connects \in [Device -> 0..MaxConnects]
    /\ stale \in [Device -> SUBSET Ids]
    /\ \A d \in Device : connections[d] <= connects[d] /\ stale[d] \subseteq 1..connects[d]

SizesTyped ==
    /\ sizes \in [Device -> Seq(Sizes)]
    /\ \A d \in Device : Len(sizes[d]) <= MaxMessages[d]

CallRecord ==
    [step : {"idle", "connecting", "discovering", "writing", "failed", "cancelling"},
     offset : Nat, message : Nat, via : Ids \cup {0}]

CallsTyped == call \in [Device -> [Caller -> CallRecord]]

BuffersTyped ==
    /\ DOMAIN reassembler = Device /\ spoilt \in [Device -> SUBSET Ids]
    /\ \A d \in Device :
         /\ spoilt[d] \subseteq DOMAIN reassembler[d]
         /\ reassembler[d] \in [DOMAIN reassembler[d] -> Seq(Byte)]
         /\ DOMAIN reassembler[d] \subseteq 1..connects[d]

Delivery == [message : Seq(Byte), spoilt : BOOLEAN]

DeliveredTyped == delivered \in [Device -> Seq(Delivery)]

LEMMA BleTypeParts ==
    BleTypeOK <=> LinksTyped /\ SizesTyped /\ CallsTyped /\ BuffersTyped /\ DeliveredTyped
BY Zenon DEF BleTypeOK, LinksTyped, SizesTyped, CallsTyped, CallRecord, BuffersTyped,
             DeliveredTyped, Delivery

(* What one device does in a step.                                         *)
BleStep(d, c) ==
    \/ \E n \in Sizes : sendBle(d, c, n)
    \/ ConnectedToDevice(d, c) \/ ConnectRejects(d, c) \/ Monitor(d, c)
    \/ WriteChunk(d, c) \/ WriteRejects(d, c)
    \/ disconnect(d, c) \/ Cancelled(d, c)

LEMMA BleNextSteps ==
    [BleNext]_bleVars =>
        \/ \E d \in Device : LinkDrops(d) \/ \E c \in Caller : BleStep(d, c)
        \/ UNCHANGED bleVars
BY Zenon DEF BleNext, BleStep

LEMMA SizesKept ==
    ASSUME [BleNext]_bleVars
    PROVE  \/ \E d \in Device : \E c \in Caller : \E n \in Sizes : sendBle(d, c, n)
           \/ UNCHANGED sizes
<1>1. ASSUME NEW d \in Device, NEW c \in Caller, BleStep(d, c)
      PROVE  (\E n \in Sizes : sendBle(d, c, n)) \/ UNCHANGED sizes
  BY <1>1, Zenon
  DEF BleStep, ConnectedToDevice, ConnectRejects, Monitor, WriteChunk,
      WriteRejects, disconnect, Cancelled
<1>2. ASSUME NEW d \in Device, LinkDrops(d) PROVE UNCHANGED sizes
  BY <1>2 DEF LinkDrops
<1>3. UNCHANGED bleVars => UNCHANGED sizes
  BY DEF bleVars
<1> QED
  BY <1>1, <1>2, <1>3, BleNextSteps

LEMMA SizesNext ==
    ASSUME SizesTyped, [BleNext]_bleVars
    PROVE  SizesTyped'
<1>1. ASSUME NEW d \in Device, NEW c \in Caller, NEW n \in Sizes, sendBle(d, c, n)
      PROVE  SizesTyped'
  <2>1. sizes' = [sizes EXCEPT ![d] = Append(sizes[d], n)] /\ Len(sizes[d]) < MaxMessages[d]
    BY <1>1 DEF sendBle
  <2>2. sizes[d] \in Seq(Sizes) /\ MaxMessages[d] \in Nat
    BY BoundAssumption DEF SizesTyped
  <2>3. Append(sizes[d], n) \in Seq(Sizes) /\ Len(Append(sizes[d], n)) <= MaxMessages[d]
    BY <2>1, <2>2
  <2> QED
    BY <2>1, <2>3 DEF SizesTyped
<1>2. CASE UNCHANGED sizes
  BY <1>2 DEF SizesTyped
<1> QED
  BY <1>1, <1>2, SizesKept

LEMMA LinksNext ==
    ASSUME LinksTyped, [BleNext]_bleVars
    PROVE  LinksTyped'
<1> USE DEF Ids
<1>0. MaxConnects \in Nat
  BY BoundAssumption
<1>1. ASSUME NEW d \in Device, NEW c \in Caller, Monitor(d, c) PROVE LinksTyped'
  <2> DEFINE i == connects[d] + 1
  <2>1. /\ connects' = [connects EXCEPT ![d] = i] /\ connections' = [connections EXCEPT ![d] = i]
        /\ connects[d] < MaxConnects /\ UNCHANGED <<mtu, stale>>
    BY <1>1 DEF Monitor
  <2>2. connects[d] \in 0..MaxConnects
    BY DEF LinksTyped
  <2>3. i \in 1..MaxConnects
    BY <1>0, <2>1, <2>2
  <2>4. \A e \in Device : connections'[e] <= connects'[e] /\ stale'[e] \subseteq 1..connects'[e]
    <3> SUFFICES ASSUME NEW e \in Device
                 PROVE connections'[e] <= connects'[e] /\ stale'[e] \subseteq 1..connects'[e]
      OBVIOUS
    <3>1. connects[e] \in Nat /\ connections[e] \in Nat
      BY DEF LinksTyped
    <3>2. CASE e = d
      BY <2>1, <2>3, <3>1, <3>2 DEF LinksTyped
    <3>3. CASE e # d
      BY <2>1, <3>1, <3>3 DEF LinksTyped
    <3> QED
      BY <3>2, <3>3
  <2> QED
    BY <2>1, <2>3, <2>4 DEF LinksTyped
<1>2. ASSUME NEW d \in Device, NEW c \in Caller, disconnect(d, c) PROVE LinksTyped'
  <2>1. UNCHANGED <<mtu, stale, connects>> /\ connections' \in {connections, [connections EXCEPT ![d] = 0]}
    BY <1>2 DEF disconnect
  <2>2. \A e \in Device : connects[e] >= 0
    BY DEF LinksTyped
  <2> QED
    BY <2>1, <2>2 DEF LinksTyped
<1>3. ASSUME NEW d \in Device, NEW new \in SUBSET (1..connects[d]),
             UNCHANGED <<mtu, connections, connects>>, stale' = [stale EXCEPT ![d] = new]
      PROVE  LinksTyped'
  <2>1. new \in SUBSET Ids
    <3>1. connects[d] \in 0..MaxConnects
      BY DEF LinksTyped
    <3>2. \A i \in 1..connects[d] : i \in 1..MaxConnects
      BY <1>0, <3>1
    <3> QED
      BY <3>2
  <2> QED
    BY <1>3, <2>1 DEF LinksTyped
<1>4. ASSUME NEW d \in Device, NEW c \in Caller, Cancelled(d, c) PROVE LinksTyped'
  BY <1>3, <1>4 DEF Cancelled
<1>5. ASSUME NEW d \in Device, LinkDrops(d) PROVE LinksTyped'
  <2>1. connections[d] \in 1..connects[d]
    BY <1>5 DEF LinkDrops, LinksTyped
  <2>2. stale[d] \cup {connections[d]} \in SUBSET (1..connects[d])
    BY <2>1 DEF LinksTyped
  <2> QED
    BY <1>3, <1>5, <2>2 DEF LinkDrops
<1>6. CASE UNCHANGED <<mtu, connections, connects, stale>>
  BY <1>6 DEF LinksTyped
<1> QED
  BY <1>1, <1>2, <1>4, <1>5, <1>6, BleNextSteps
  DEF BleStep, bleVars, sendBle, ConnectedToDevice, ConnectRejects,
      WriteChunk, WriteRejects

LEMMA CallsNext ==
    ASSUME BleTypeOK, [BleNext]_bleVars
    PROVE  CallsTyped'
<1> USE BleTypeParts
<1>0. /\ CallsTyped /\ SizesTyped /\ LinksTyped
      /\ MaxConnects \in Nat /\ payloadPerChunk \in Nat
  BY PayloadPositive, BoundAssumption DEF LinksTyped
<1>1. ASSUME NEW d \in Device, NEW c \in Caller, NEW r \in CallRecord,
             call' = [call EXCEPT ![d][c] = r]
      PROVE  CallsTyped'
  BY <1>0, <1>1 DEF CallsTyped
<1>2. Idle \in CallRecord
  BY DEF Idle, CallRecord
<1>3. ASSUME NEW d \in Device, NEW c \in Caller,
             NEW to \in {"discovering", "writing", "failed", "cancelling"}, Goto(d, c, to)
      PROVE  CallsTyped'
  <2>1. call[d][c] \in CallRecord /\ call' = [call EXCEPT ![d][c].step = to]
    BY <1>0, <1>3 DEF CallsTyped, Goto
  <2>2. [call[d][c] EXCEPT !.step = to] \in CallRecord
    BY <2>1 DEF CallRecord
  <2> QED
    BY <1>1, <2>1, <2>2
<1>4. ASSUME NEW d \in Device, NEW c \in Caller, NEW n \in Sizes, sendBle(d, c, n)
      PROVE  CallsTyped'
  <2> DEFINE r == [step |-> IF connections[d] = 0 THEN "connecting" ELSE "writing",
                   offset |-> 0, message |-> Len(sizes'[d]), via |-> connections[d]]
  <2>1. call' = [call EXCEPT ![d][c] = r]
    BY <1>4 DEF sendBle
  <2>2. Len(sizes'[d]) \in Nat
    BY SizesNext, <1>0 DEF SizesTyped
  <2>3. connections[d] \in Ids \cup {0}
    BY <1>0 DEF LinksTyped
  <2>4. r \in CallRecord
    BY <2>2, <2>3 DEF CallRecord
  <2> HIDE DEF r
  <2> QED
    BY <1>1, <2>1, <2>4
<1>5. ASSUME NEW d \in Device, NEW c \in Caller, Monitor(d, c) PROVE CallsTyped'
  <2> DEFINE i == connects[d] + 1
             r == [call[d][c] EXCEPT !.step = "writing", !.via = i]
  <2>1. call' = [call EXCEPT ![d][c].step = "writing", ![d][c].via = i] /\ connects[d] < MaxConnects
    BY <1>5 DEF Monitor
  <2>2. call[d][c] \in CallRecord /\ i \in Ids
    <3>1. connects[d] \in 0..MaxConnects
      BY <1>0 DEF LinksTyped
    <3> QED
      BY <1>0, <2>1, <3>1 DEF CallsTyped, Ids
  <2>3. r \in CallRecord
    BY <2>2 DEF CallRecord
  <2>4. call' = [call EXCEPT ![d][c] = r]
    BY <1>0, <2>1 DEF CallsTyped
  <2> HIDE DEF r
  <2> QED
    BY <1>1, <2>3, <2>4
<1>6. ASSUME NEW d \in Device, NEW c \in Caller, WriteChunk(d, c) PROVE CallsTyped'
  <2> DEFINE o == call[d][c].offset + payloadPerChunk
             r == [call[d][c] EXCEPT !.offset = o]
  <2>1. \/ call' = [call EXCEPT ![d][c].offset = o]
        \/ call' = [call EXCEPT ![d][c] = Idle]
    BY <1>6 DEF WriteChunk
  <2>2. CASE call' = [call EXCEPT ![d][c].offset = o]
    <3>1. call[d][c] \in CallRecord /\ o \in Nat
      BY <1>0 DEF CallsTyped, CallRecord
    <3> HIDE DEF o
    <3>2. r \in CallRecord
      BY <3>1 DEF CallRecord
    <3>3. call' = [call EXCEPT ![d][c] = r]
      BY <1>0, <2>2 DEF CallsTyped
    <3> HIDE DEF r
    <3> QED
      BY <1>1, <3>2, <3>3
  <2>3. CASE call' = [call EXCEPT ![d][c] = Idle]
    BY <1>1, <1>2, <2>3
  <2> QED
    BY <2>1, <2>2, <2>3
<1>7. ASSUME NEW d \in Device, NEW c \in Caller, disconnect(d, c) PROVE CallsTyped'
  <2>1. call' = [call EXCEPT ![d][c] = Idle] \/ Goto(d, c, "cancelling")
    BY <1>7 DEF disconnect
  <2> QED
    BY <1>1, <1>2, <1>3, <2>1
<1>8. ASSUME NEW d \in Device, NEW c \in Caller, Cancelled(d, c) PROVE CallsTyped'
  BY <1>1, <1>2, <1>8 DEF Cancelled
<1>9. ASSUME NEW d \in Device, NEW c \in Caller,
             ConnectedToDevice(d, c) \/ ConnectRejects(d, c) \/ WriteRejects(d, c)
      PROVE  CallsTyped'
  BY <1>3, <1>9 DEF ConnectedToDevice, ConnectRejects, WriteRejects
<1>10. CASE UNCHANGED call
  BY <1>0, <1>10 DEF CallsTyped
<1>11. ASSUME NEW d \in Device, LinkDrops(d) PROVE UNCHANGED call
  BY <1>11 DEF LinkDrops
<1>12. UNCHANGED bleVars => UNCHANGED call
  BY DEF bleVars
<1>13. ASSUME NEW d \in Device, NEW c \in Caller, BleStep(d, c) PROVE CallsTyped'
  BY <1>4, <1>5, <1>6, <1>7, <1>8, <1>9, <1>13 DEF BleStep
<1> QED
  BY <1>10, <1>11, <1>12, <1>13, BleNextSteps

(* A step of c on d is no other caller's.                                  *)
LEMMA OtherCalls ==
    ASSUME CallsTyped, NEW d \in Device, NEW c \in Caller, BleStep(d, c),
           NEW e \in Device, NEW a \in Caller, ~(e = d /\ a = c)
    PROVE  call'[e][a] = call[e][a]
<1> USE DEF CallsTyped, Goto
<1>1. ASSUME NEW to, Goto(d, c, to) PROVE call'[e][a] = call[e][a]
  BY <1>1
<1>2. ASSUME NEW r, call' = [call EXCEPT ![d][c] = r] PROVE call'[e][a] = call[e][a]
  BY <1>2
<1>3. CASE \E n \in Sizes : sendBle(d, c, n)
  BY <1>2, <1>3 DEF sendBle
<1>4. CASE ConnectedToDevice(d, c) \/ ConnectRejects(d, c) \/ WriteRejects(d, c)
  BY <1>1, <1>4 DEF ConnectedToDevice, ConnectRejects, WriteRejects
<1>5. CASE Monitor(d, c)
  <2>1. call' = [call EXCEPT ![d][c].step = "writing", ![d][c].via = connects[d] + 1]
    BY <1>5 DEF Monitor
  <2> QED
    BY <2>1
<1>6. CASE WriteChunk(d, c)
  <2>1. \/ call' = [call EXCEPT ![d][c].offset = call[d][c].offset + payloadPerChunk]
        \/ call' = [call EXCEPT ![d][c] = Idle]
    BY <1>6 DEF WriteChunk
  <2> QED
    BY <2>1
<1>7. CASE disconnect(d, c) \/ Cancelled(d, c)
  <2>1. call' = [call EXCEPT ![d][c] = Idle] \/ Goto(d, c, "cancelling")
    BY <1>7 DEF disconnect, Cancelled
  <2> QED
    BY <1>1, <1>2, <2>1
<1> QED
  BY <1>3, <1>4, <1>5, <1>6, <1>7 DEF BleStep

LEMMA WithinMessageNext ==
    ASSUME BleTypeOK, WithinMessage, [BleNext]_bleVars
    PROVE  WithinMessage'
<1> DEFINE Left(e, a) ==
             /\ call[e][a].message \in DOMAIN sizes[e]
             /\ call[e][a].offset <= sizes[e][call[e][a].message]
<1>0. CallsTyped /\ SizesTyped
  BY BleTypeParts
<1>1. \A e \in Device, a \in Caller : UnderWay(e, a) => Left(e, a)
  BY DEF WithinMessage
<1>2. SUFFICES ASSUME NEW e \in Device, NEW a \in Caller, UnderWay(e, a)' PROVE Left(e, a)'
  BY DEF WithinMessage
<1>3. ASSUME NEW d \in Device, NEW c \in Caller, NEW n \in Sizes, sendBle(d, c, n)
      PROVE  Left(e, a)'
  <2>1. /\ sizes' = [sizes EXCEPT ![d] = Append(sizes[d], n)]
        /\ call' = [call EXCEPT ![d][c] =
             [step |-> IF connections[d] = 0 THEN "connecting" ELSE "writing",
              offset |-> 0, message |-> Len(sizes'[d]), via |-> connections[d]]]
    BY <1>3 DEF sendBle
  <2>2. sizes[d] \in Seq(Sizes) /\ n \in Nat
    BY <1>0, SizeAssumption DEF SizesTyped
  <2>3. /\ sizes'[d] = Append(sizes[d], n)
        /\ Len(sizes'[d]) \in DOMAIN sizes'[d] /\ sizes'[d][Len(sizes'[d])] = n
        /\ \A m \in DOMAIN sizes[d] : m \in DOMAIN sizes'[d] /\ sizes'[d][m] = sizes[d][m]
    BY <1>0, <2>1, <2>2 DEF SizesTyped
  <2>4. CASE e = d /\ a = c
    <3>1. call'[e][a].message = Len(sizes'[d]) /\ call'[e][a].offset = 0
      BY <1>0, <2>1, <2>4 DEF CallsTyped
    <3> QED
      BY <2>2, <2>3, <2>4, <3>1
  <2>5. CASE ~(e = d /\ a = c)
    <3>1. call'[e][a] = call[e][a]
      BY <1>0, <2>1, <2>5 DEF CallsTyped
    <3>2. Left(e, a)
      BY <1>1, <1>2, <3>1 DEF UnderWay
    <3>3. CASE e = d
      BY <2>3, <3>1, <3>2, <3>3
    <3>4. CASE e # d
      <4>1. sizes'[e] = sizes[e]
        BY <1>0, <2>1, <3>4 DEF SizesTyped
      <4> QED
        BY <3>1, <3>2, <4>1
    <3> QED
      BY <3>3, <3>4
  <2> QED
    BY <2>4, <2>5
<1>4. ASSUME UNCHANGED sizes, UnderWay(e, a), call'[e][a].message = call[e][a].message,
             call'[e][a].offset = call[e][a].offset
      PROVE  Left(e, a)'
  BY <1>1, <1>4
<1>5. ASSUME UNCHANGED sizes, UNCHANGED call PROVE Left(e, a)'
  BY <1>2, <1>4, <1>5 DEF UnderWay
<1>6. ASSUME NEW d \in Device, NEW c \in Caller, BleStep(d, c), UNCHANGED sizes,
             ~(e = d /\ a = c)
      PROVE  Left(e, a)'
  <2>1. call'[e][a] = call[e][a]
    BY <1>0, <1>6, OtherCalls
  <2> QED
    BY <1>2, <1>4, <1>6, <2>1 DEF UnderWay
<1>7. ASSUME NEW to \in {"discovering", "writing", "failed", "cancelling"}, UNCHANGED sizes,
             call' = [call EXCEPT ![e][a].step = to], to \in {"discovering", "writing"} => UnderWay(e, a)
      PROVE  Left(e, a)'
  <2>1. /\ call'[e][a].message = call[e][a].message /\ call'[e][a].offset = call[e][a].offset
        /\ call'[e][a].step = to
    BY <1>0, <1>7 DEF CallsTyped, CallRecord
  <2> QED
    BY <1>2, <1>4, <1>7, <2>1 DEF UnderWay
<1>8. ASSUME call' = [call EXCEPT ![e][a] = Idle] PROVE FALSE
  BY <1>0, <1>2, <1>8 DEF CallsTyped, UnderWay, Idle
<1>9. ASSUME BleStep(e, a), UNCHANGED sizes PROVE Left(e, a)'
  <2>1. CASE ConnectedToDevice(e, a)
    BY <1>7, <1>9, <2>1 DEF ConnectedToDevice, Goto, At, UnderWay
  <2>2. CASE ConnectRejects(e, a) \/ WriteRejects(e, a)
    BY <1>7, <1>9, <2>2 DEF ConnectRejects, WriteRejects, Goto
  <2>3. CASE Monitor(e, a)
    <3>1. /\ call' = [call EXCEPT ![e][a].step = "writing", ![e][a].via = connects[e] + 1]
          /\ UnderWay(e, a)
      BY <2>3 DEF Monitor, At, UnderWay
    <3>2. call'[e][a].message = call[e][a].message /\ call'[e][a].offset = call[e][a].offset
      BY <1>0, <3>1 DEF CallsTyped, CallRecord
    <3> QED
      BY <1>4, <1>9, <3>1, <3>2
  <2>4. CASE WriteChunk(e, a)
    <3>1. UnderWay(e, a)
      BY <2>4 DEF WriteChunk, At, UnderWay
    <3> DEFINE o == call[e][a].offset + payloadPerChunk
    <3>2. \/ call' = [call EXCEPT ![e][a].offset = o] /\ o < sizes[e][call[e][a].message]
          \/ call' = [call EXCEPT ![e][a] = Idle]
      BY <2>4 DEF WriteChunk
    <3>3. o \in Nat
      BY <1>0, BleTypeParts, PayloadPositive DEF LinksTyped, CallsTyped, CallRecord
    <3> HIDE DEF o
    <3>4. CASE call' = [call EXCEPT ![e][a].offset = o] /\ o < sizes[e][call[e][a].message]
      <4>1. call'[e][a].message = call[e][a].message /\ call'[e][a].offset = o
        BY <1>0, <3>4 DEF CallsTyped, CallRecord
      <4> DEFINE m == call[e][a].message
      <4>2. m \in DOMAIN sizes[e] /\ sizes[e] \in Seq(Sizes)
        BY <1>0, <1>1, <3>1 DEF SizesTyped
      <4> HIDE DEF m
      <4>3. sizes[e][m] \in Nat
        <5>1. sizes[e][m] \in Sizes
          BY <4>2
        <5> QED
          BY <5>1, SizeAssumption
      <4>4. o <= sizes[e][m]
        BY <3>3, <3>4, <4>3 DEF m
      <4>5. call'[e][a].message = m /\ sizes' = sizes
        BY <1>9, <4>1 DEF m
      <4> QED
        BY <4>1, <4>2, <4>4, <4>5
    <3> QED
      BY <1>8, <3>2, <3>4
  <2>5. CASE disconnect(e, a)
    <3>1. call' = [call EXCEPT ![e][a] = Idle] \/ Goto(e, a, "cancelling")
      BY <2>5 DEF disconnect
    <3> QED
      BY <1>7, <1>8, <1>9, <3>1 DEF Goto
  <2>6. CASE Cancelled(e, a)
    BY <1>8, <2>6 DEF Cancelled
  <2>7. CASE \E n \in Sizes : sendBle(e, a, n)
    BY <1>3, <2>7
  <2> QED
    BY <1>9, <2>1, <2>2, <2>3, <2>4, <2>5, <2>6, <2>7 DEF BleStep
<1>10. ASSUME NEW d \in Device, LinkDrops(d) PROVE UNCHANGED call
  BY <1>10 DEF LinkDrops
<1>11. UNCHANGED bleVars => UNCHANGED call
  BY DEF bleVars
<1>12. CASE UNCHANGED sizes
  BY <1>5, <1>6, <1>9, <1>10, <1>11, <1>12, BleNextSteps
<1> QED
  BY <1>3, <1>12, SizesKept

(* The chunk that c on d writes next.                                      *)
Frame(d, c) == Chunk(d, call[d][c].message, call[d][c].offset)

(* How much of its message has been written once that chunk has arrived.   *)
LEMMA FrameCarries ==
    ASSUME BleTypeInv, NEW d \in Device, NEW c \in Caller, At(d, c, "writing")
    PROVE  /\ call[d][c].message \in Nat \ {0} /\ call[d][c].message \in DOMAIN sizes[d]
           /\ call[d][c].offset \in Nat
           /\ sizes[d][call[d][c].message] \in Nat
           /\ \E end \in Nat :
                LET m == call[d][c].message
                    o == call[d][c].offset
                IN /\ o <= end /\ end <= sizes[d][m]
                   /\ Frame(d, c).payload = [j \in 1..(end - o) |-> <<m, o + j>>]
                   /\ Frame(d, c).isLast = (end >= sizes[d][m])
                   /\ IF o + payloadPerChunk < sizes[d][m]
                      THEN end = o + payloadPerChunk ELSE end = sizes[d][m]
<1>1. LinksTyped /\ SizesTyped /\ CallsTyped /\ WithinMessage
  BY BleTypeParts DEF BleTypeInv
<1>2. /\ call[d][c].message \in DOMAIN sizes[d]
      /\ call[d][c].offset <= sizes[d][call[d][c].message]
  BY <1>1 DEF WithinMessage, UnderWay, At
<1>3. sizes[d] \in Seq(Sizes) /\ mtu \in Mtu /\ call[d][c].offset \in Nat
  BY <1>1 DEF SizesTyped, LinksTyped, CallsTyped, CallRecord
<1> DEFINE m == call[d][c].message
           o == call[d][c].offset
<1> HIDE DEF m, o
<1>4. m \in DOMAIN sizes[d] /\ o <= sizes[d][m] /\ o \in Nat
  BY <1>2, <1>3 DEF m, o
<1>5. m \in Nat \ {0} /\ sizes[d][m] \in Nat
  <2>1. sizes[d][m] \in Sizes /\ m \in 1..Len(sizes[d]) /\ Len(sizes[d]) \in Nat
    BY <1>3, <1>4
  <2>2. sizes[d][m] \in Nat
    BY <2>1, SizeAssumption
  <2> QED
    BY <2>1, <2>2
<1>6. Frame(d, c) = Chunk(d, m, o)
  BY DEF Frame, m, o
<1>7. \E end \in Nat :
        /\ o <= end /\ end <= sizes[d][m]
        /\ Frame(d, c).payload = [j \in 1..(end - o) |-> <<m, o + j>>]
        /\ Frame(d, c).isLast = (end >= sizes[d][m])
        /\ IF o + payloadPerChunk < sizes[d][m]
           THEN end = o + payloadPerChunk ELSE end = sizes[d][m]
  <2>1. \E end \in Nat :
          /\ o <= end /\ end <= sizes[d][m]
          /\ Chunk(d, m, o).payload = [j \in 1..(end - o) |-> <<m, o + j>>]
          /\ Chunk(d, m, o).isLast = (end >= sizes[d][m])
          /\ IF o + payloadPerChunk < sizes[d][m]
             THEN end = o + payloadPerChunk ELSE end = sizes[d][m]
    BY <1>3, <1>4, ChunkCarries, Zenon
  <2> QED
    BY <1>6, <2>1, Zenon
<1> QED
  BY <1>4, <1>5, <1>7, Zenon DEF m, o

LEMMA FrameTyped ==
    ASSUME BleTypeInv, NEW d \in Device, NEW c \in Caller, At(d, c, "writing")
    PROVE  Frame(d, c).isLast \in BOOLEAN /\ Frame(d, c).payload \in Seq(Byte)
<1> DEFINE m == call[d][c].message
           o == call[d][c].offset
<1>1. PICK end \in Nat :
        /\ o <= end
        /\ Frame(d, c).payload = [j \in 1..(end - o) |-> <<m, o + j>>]
        /\ Frame(d, c).isLast = (end >= sizes[d][m])
  BY FrameCarries
<1>2. m \in Nat \ {0} /\ o \in Nat
  BY FrameCarries
<1> HIDE DEF m, o
<1>3. Frame(d, c).payload \in Seq(Byte)
  <2>1. \A j \in 1..(end - o) : <<m, o + j>> \in Byte
    BY <1>2 DEF Byte
  <2>2. end - o \in Nat
    BY <1>1, <1>2
  <2> QED
    BY <1>1, <2>1, <2>2
<1> QED
  BY <1>1, <1>3

(* A chunk is the last one when nothing is left after it.                  *)
LEMMA LastFrame ==
    ASSUME BleTypeInv, NEW d \in Device, NEW c \in Caller, At(d, c, "writing")
    PROVE  /\ Frame(d, c).isLast \in BOOLEAN
           /\ Frame(d, c).isLast <=>
                ~(call[d][c].offset + payloadPerChunk < sizes[d][call[d][c].message])
<1> DEFINE m == call[d][c].message
           o == call[d][c].offset
           size == sizes[d][m]
           next == o + payloadPerChunk
<1>1. o \in Nat /\ size \in Nat
  BY FrameCarries
<1>2. PICK end \in Nat :
        /\ o <= end /\ end <= size
        /\ Frame(d, c).payload = [j \in 1..(end - o) |-> <<m, o + j>>]
        /\ Frame(d, c).isLast = (end >= size)
        /\ IF next < size THEN end = next ELSE end = size
  BY FrameCarries, Zenon
<1>3. payloadPerChunk \in Nat
  BY BleTypeParts, PayloadPositive DEF BleTypeInv, LinksTyped
<1> HIDE DEF o, size
<1>4. (end >= size) <=> ~(next < size)
  BY <1>1, <1>2, <1>3
<1> HIDE DEF next
<1>5. Frame(d, c).isLast <=> ~(next < size)
  BY <1>2, <1>4, Zenon
<1>6. Frame(d, c).isLast \in BOOLEAN
  BY FrameTyped
<1> QED
  BY <1>5, <1>6, Zenon DEF next, m, size, o

(* What a chunk does when it arrives at the other device.                  *)
LEMMA WriteIs ==
    ASSUME BleTypeInv, NEW d \in Device, NEW c \in Caller, At(d, c, "writing"),
           Write(d, c), NEW e, e = Other(d)
    PROVE  /\ e \in Device
           /\ reassembler' = [reassembler EXCEPT ![e] = Buffers(e, Frame(d, c))]
           /\ delivered' = [delivered EXCEPT ![e] = delivered[e] \o Deliveries(e, Frame(d, c))]
           /\ Cardinality(Completed(e, Frame(d, c))) \in Nat
           /\ Sorted(Completed(e, Frame(d, c))) \in
                [1..Cardinality(Completed(e, Frame(d, c))) -> Completed(e, Frame(d, c))]
           /\ Buffers(e, Frame(d, c)) \in [DOMAIN reassembler[e] -> Seq(Byte)]
           /\ Deliveries(e, Frame(d, c)) \in Seq(Delivery)
<1> DEFINE frame == Frame(d, c)
<1>1. e \in Device /\ Arrives(e, frame)
  BY Others DEF Write, Frame
<1>2. BleTypeOK /\ BuffersTyped
  BY BleTypeParts DEF BleTypeInv
<1>3. frame.isLast \in BOOLEAN /\ frame.payload \in Seq(Byte)
  BY FrameTyped
<1> HIDE DEF frame
<1>4. /\ reassembler' = [reassembler EXCEPT ![e] = Buffers(e, frame)]
      /\ delivered' = [delivered EXCEPT ![e] = delivered[e] \o Deliveries(e, frame)]
      /\ Cardinality(Completed(e, frame)) \in Nat
      /\ Sorted(Completed(e, frame)) \in
           [1..Cardinality(Completed(e, frame)) -> Completed(e, frame)]
  BY <1>1, <1>2, ArrivesIs
<1>5. \A i \in DOMAIN reassembler[e] : Joined(e, frame, i) \in Seq(Byte)
  <2> SUFFICES ASSUME NEW i \in DOMAIN reassembler[e] PROVE Joined(e, frame, i) \in Seq(Byte)
    OBVIOUS
  <2>1. reassembler[e][i] \in Seq(Byte)
    BY <1>1, <1>2 DEF BuffersTyped
  <2> QED
    BY <1>3, <2>1 DEF Joined
<1>6. Buffers(e, frame) \in [DOMAIN reassembler[e] -> Seq(Byte)]
  <2>1. <<>> \in Seq(Byte)
    OBVIOUS
  <2> QED
    BY <1>5, <2>1 DEF Buffers
<1>7. Deliveries(e, frame) \in Seq(Delivery)
  <2> DEFINE n == Cardinality(Completed(e, frame))
             s == Sorted(Completed(e, frame))
             r(k) == [message |-> Joined(e, frame, s[k]), spoilt |-> s[k] \in spoilt[e]]
  <2>1. \A k \in 1..n : r(k) \in Delivery
    <3> SUFFICES ASSUME NEW k \in 1..n PROVE r(k) \in Delivery
      OBVIOUS
    <3>1. s[k] \in DOMAIN reassembler[e]
      BY <1>4 DEF Completed
    <3>2. Joined(e, frame, s[k]) \in Seq(Byte)
      BY <1>5, <3>1
    <3>3. (s[k] \in spoilt[e]) \in BOOLEAN
      OBVIOUS
    <3> HIDE DEF s
    <3> QED
      BY <3>2, <3>3, Zenon DEF Delivery
  <2>2. n \in Nat
    BY <1>4
  <2>3. Deliveries(e, frame) = [k \in 1..n |-> r(k)]
    BY Zenon DEF Deliveries
  <2> HIDE DEF r, n
  <2> QED
    BY <2>1, <2>2, <2>3, IsASeq
<1> QED
  BY <1>1, <1>4, <1>6, <1>7 DEF frame

LEMMA BuffersNext ==
    ASSUME BleTypeInv, [BleNext]_bleVars
    PROVE  BuffersTyped' /\ DeliveredTyped'
<1> USE DEF Ids
<1>0. LinksTyped /\ BuffersTyped /\ DeliveredTyped /\ MaxConnects \in Nat
  BY BleTypeParts, BoundAssumption DEF BleTypeInv
<1>1. \A d \in Device : connects[d] \in Nat /\ 1..connects[d] \subseteq Ids
  <2> SUFFICES ASSUME NEW d \in Device
               PROVE connects[d] \in Nat /\ 1..connects[d] \subseteq Ids
    OBVIOUS
  <2>1. connects[d] \in 0..MaxConnects
    BY <1>0 DEF LinksTyped
  <2> QED
    BY <1>0, <2>1
(* The buffers of one device change, and those that are spoilt.            *)
<1>2. ASSUME NEW e \in Device, NEW new, NEW bad \in SUBSET (DOMAIN new),
             new \in [DOMAIN new -> Seq(Byte)], DOMAIN new \subseteq 1..connects[e],
             reassembler' = [reassembler EXCEPT ![e] = new],
             spoilt' = [spoilt EXCEPT ![e] = bad], UNCHANGED connects
      PROVE  BuffersTyped'
  <2>1. bad \in SUBSET Ids
    BY <1>1, <1>2
  <2>2. \A x \in Device :
          /\ spoilt'[x] \subseteq DOMAIN reassembler'[x]
          /\ reassembler'[x] \in [DOMAIN reassembler'[x] -> Seq(Byte)]
          /\ DOMAIN reassembler'[x] \subseteq 1..connects'[x]
    <3> SUFFICES ASSUME NEW x \in Device
                 PROVE  /\ spoilt'[x] \subseteq DOMAIN reassembler'[x]
                        /\ reassembler'[x] \in [DOMAIN reassembler'[x] -> Seq(Byte)]
                        /\ DOMAIN reassembler'[x] \subseteq 1..connects'[x]
      OBVIOUS
    <3>1. CASE x = e
      <4>1. reassembler'[x] = new /\ spoilt'[x] = bad /\ connects'[x] = connects[e]
        BY <1>0, <1>2, <3>1 DEF BuffersTyped
      <4> QED
        BY <1>2, <4>1
    <3>2. CASE x # e
      <4>1. reassembler'[x] = reassembler[x] /\ spoilt'[x] = spoilt[x] /\ connects'[x] = connects[x]
        BY <1>0, <1>2, <3>2 DEF BuffersTyped
      <4> QED
        BY <1>0, <4>1 DEF BuffersTyped
    <3> QED
      BY <3>1, <3>2
  <2>3. DOMAIN reassembler' = Device /\ spoilt' \in [Device -> SUBSET Ids]
    BY <1>0, <1>2, <2>1 DEF BuffersTyped
  <2> QED
    BY <2>2, <2>3 DEF BuffersTyped
<1>3. CASE UNCHANGED <<reassembler, spoilt, connects, delivered>>
  BY <1>0, <1>3 DEF BuffersTyped, DeliveredTyped
<1>4. ASSUME NEW e \in Device, NEW new \in Seq(Delivery),
             delivered' = [delivered EXCEPT ![e] = delivered[e] \o new]
      PROVE  DeliveredTyped'
  <2>1. delivered[e] \o new \in Seq(Delivery)
    <3>1. delivered[e] \in Seq(Delivery)
      BY <1>0 DEF DeliveredTyped
    <3> QED
      BY <3>1, ConcatProperties
  <2> QED
    BY <1>0, <1>4, <2>1 DEF DeliveredTyped
<1>5. ASSUME NEW d \in Device, NEW c \in Caller, Write(d, c), At(d, c, "writing"),
             NEW bad, bad \in SUBSET (DOMAIN reassembler[Other(d)]),
             spoilt' = [spoilt EXCEPT ![Other(d)] = bad], UNCHANGED connects
      PROVE  BuffersTyped' /\ DeliveredTyped'
  <2> DEFINE e == Other(d)
             new == Buffers(e, Frame(d, c))
  <2>1. /\ e \in Device /\ reassembler' = [reassembler EXCEPT ![e] = new]
        /\ delivered' = [delivered EXCEPT ![e] = delivered[e] \o Deliveries(e, Frame(d, c))]
        /\ Deliveries(e, Frame(d, c)) \in Seq(Delivery)
        /\ new \in [DOMAIN reassembler[e] -> Seq(Byte)]
    BY <1>5, WriteIs
  <2>2. bad \in SUBSET (DOMAIN reassembler[e]) /\ spoilt' = [spoilt EXCEPT ![e] = bad]
    BY <1>5
  <2> HIDE DEF e, new
  <2>3. DOMAIN new = DOMAIN reassembler[e] /\ DOMAIN new \subseteq 1..connects[e]
    BY <1>0, <2>1 DEF BuffersTyped
  <2>4. BuffersTyped'
    BY <1>2, <1>5, <2>1, <2>2, <2>3
  <2> QED
    BY <1>4, <2>1, <2>4
<1>6. ASSUME NEW d \in Device, NEW c \in Caller, WriteChunk(d, c)
      PROVE  BuffersTyped' /\ DeliveredTyped'
  <2>1. /\ Write(d, c) /\ At(d, c, "writing") /\ UNCHANGED connects
        /\ \/ UNCHANGED spoilt
           \/ spoilt' = [spoilt EXCEPT ![Other(d)] = {}]
    BY <1>6 DEF WriteChunk
  <2>2. Other(d) \in Device
    BY Others
  <2>3. UNCHANGED spoilt => spoilt' = [spoilt EXCEPT ![Other(d)] = spoilt[Other(d)]]
    BY <1>0, <2>2 DEF BuffersTyped
  <2>4. spoilt[Other(d)] \in SUBSET (DOMAIN reassembler[Other(d)])
    BY <1>0, <2>2 DEF BuffersTyped
  <2> QED
    BY <1>5, <2>1, <2>3, <2>4
<1>7. ASSUME NEW d \in Device, NEW c \in Caller, WriteRejects(d, c)
      PROVE  BuffersTyped' /\ DeliveredTyped'
  <2> DEFINE e == Other(d)
             bad == {i \in DOMAIN reassembler'[e] : reassembler'[e][i] # <<>>}
  <2>1. /\ At(d, c, "writing") /\ UNCHANGED connects /\ e \in Device
        /\ Write(d, c) \/ UNCHANGED <<reassembler, delivered>>
        /\ spoilt' = [spoilt EXCEPT ![e] = bad]
    BY <1>7, Others DEF WriteRejects
  <2>2. CASE Write(d, c)
    <3>1. /\ reassembler' = [reassembler EXCEPT ![e] = Buffers(e, Frame(d, c))]
          /\ Buffers(e, Frame(d, c)) \in [DOMAIN reassembler[e] -> Seq(Byte)]
      BY <2>1, <2>2, WriteIs
    <3>2. reassembler'[e] = Buffers(e, Frame(d, c))
      BY <1>0, <2>1, <3>1 DEF BuffersTyped
    <3>3. bad \in SUBSET (DOMAIN reassembler[e])
      BY <3>1, <3>2
    <3> QED
      BY <1>5, <2>1, <2>2, <3>3
  <2>3. CASE UNCHANGED <<reassembler, delivered>>
    <3>1. bad \in SUBSET (DOMAIN reassembler[e])
      BY <2>3
    <3>2. bad \in SUBSET Ids
      BY <1>0, <1>1, <2>1, <3>1 DEF BuffersTyped
    <3> HIDE DEF bad
    <3>3. BuffersTyped'
      BY <1>0, <2>1, <2>3, <3>1, <3>2 DEF BuffersTyped
    <3> QED
      BY <1>0, <2>3, <3>3 DEF DeliveredTyped
  <2> QED
    BY <2>1, <2>2, <2>3
<1>8. ASSUME NEW d \in Device, NEW x,
             reassembler' = [reassembler EXCEPT ![d] =
                 Restrict(reassembler[d], DOMAIN reassembler[d] \ {x})],
             spoilt' = [spoilt EXCEPT ![d] = spoilt[d] \ {x}], UNCHANGED <<connects, delivered>>
      PROVE  BuffersTyped' /\ DeliveredTyped'
  <2> DEFINE new == Restrict(reassembler[d], DOMAIN reassembler[d] \ {x})
             bad == spoilt[d] \ {x}
  <2>1. new = [i \in DOMAIN reassembler[d] \ {x} |-> reassembler[d][i]]
    BY DEF Restrict
  <2>2. /\ DOMAIN new = DOMAIN reassembler[d] \ {x} /\ new \in [DOMAIN new -> Seq(Byte)]
        /\ DOMAIN new \subseteq 1..connects[d] /\ bad \in SUBSET (DOMAIN new)
    BY <1>0, <2>1 DEF BuffersTyped
  <2> HIDE DEF new
  <2>3. BuffersTyped'
    BY <1>2, <1>8, <2>2 DEF new
  <2> QED
    BY <1>0, <1>8, <2>3 DEF DeliveredTyped
<1>9. ASSUME NEW d \in Device, LinkDrops(d) PROVE BuffersTyped' /\ DeliveredTyped'
  BY <1>8, <1>9 DEF LinkDrops
<1>10. ASSUME NEW d \in Device, NEW c \in Caller, disconnect(d, c)
       PROVE  BuffersTyped' /\ DeliveredTyped'
  <2>1. CASE connections[d] = 0
    BY <1>3, <1>10, <2>1 DEF disconnect
  <2>2. CASE connections[d] # 0
    BY <1>8, <1>10, <2>2 DEF disconnect
  <2> QED
    BY <2>1, <2>2
<1>11. ASSUME NEW d \in Device, NEW c \in Caller, Monitor(d, c)
       PROVE  BuffersTyped' /\ DeliveredTyped'
  <2> DEFINE i == connects[d] + 1
             all == DOMAIN reassembler[d] \cup {i}
             new == [j \in all |-> IF j = i THEN <<>> ELSE reassembler[d][j]]
  <2>1. /\ connects' = [connects EXCEPT ![d] = i] /\ connects[d] < MaxConnects
        /\ reassembler' = [reassembler EXCEPT ![d] = new]
        /\ spoilt' \in {spoilt, [spoilt EXCEPT ![d] = spoilt[d] \cup {i}]}
        /\ UNCHANGED delivered
    BY <1>0, <1>11 DEF Monitor, BuffersTyped
  <2>2. /\ connects[d] \in Nat /\ DOMAIN reassembler[d] \subseteq 1..connects[d]
        /\ spoilt[d] \subseteq DOMAIN reassembler[d]
        /\ \A j \in DOMAIN reassembler[d] : reassembler[d][j] \in Seq(Byte)
    BY <1>0, <1>1 DEF BuffersTyped
  <2>3. i \in Ids
    BY <1>0, <2>1, <2>2
  <2>4. all \subseteq 1..i
    BY <2>2
  <2>5. new \in [all -> Seq(Byte)] /\ DOMAIN new = all
    BY <2>2
  <2>6. spoilt' \in [Device -> SUBSET Ids] /\ spoilt'[d] \subseteq all
    <3>1. CASE spoilt' = spoilt
      BY <1>0, <2>2, <3>1 DEF BuffersTyped
    <3>2. CASE spoilt' = [spoilt EXCEPT ![d] = spoilt[d] \cup {i}]
      <4> HIDE DEF i
      <4>1. spoilt[d] \cup {i} \in SUBSET Ids
        BY <1>0, <2>3 DEF BuffersTyped
      <4> QED
        BY <1>0, <2>2, <3>2, <4>1 DEF BuffersTyped
    <3> QED
      BY <2>1, <3>1, <3>2
  <2> HIDE DEF i, all, new
  <2>7. ASSUME NEW x \in Device
        PROVE  /\ spoilt'[x] \subseteq DOMAIN reassembler'[x]
               /\ reassembler'[x] \in [DOMAIN reassembler'[x] -> Seq(Byte)]
               /\ DOMAIN reassembler'[x] \subseteq 1..connects'[x]
    <3>1. CASE x = d
      <4>1. reassembler'[x] = new /\ connects'[x] = i
        BY <1>0, <2>1, <3>1 DEF BuffersTyped, LinksTyped
      <4> QED
        BY <2>4, <2>5, <2>6, <3>1, <4>1
    <3>2. CASE x # d
      <4>1. reassembler'[x] = reassembler[x] /\ connects'[x] = connects[x]
        BY <1>0, <2>1, <3>2 DEF BuffersTyped, LinksTyped
      <4>2. spoilt'[x] = spoilt[x]
        BY <1>0, <2>1, <3>2 DEF BuffersTyped
      <4> QED
        BY <1>0, <4>1, <4>2 DEF BuffersTyped
    <3> QED
      BY <3>1, <3>2
  <2>8. DOMAIN reassembler' = Device
    BY <1>0, <2>1 DEF BuffersTyped
  <2> QED
    BY <1>0, <2>1, <2>6, <2>7, <2>8 DEF BuffersTyped, DeliveredTyped
<1>12. ASSUME NEW d \in Device, NEW c \in Caller, BleStep(d, c)
       PROVE  BuffersTyped' /\ DeliveredTyped'
  <2>1. ASSUME ConnectedToDevice(d, c) \/ ConnectRejects(d, c) \/ Cancelled(d, c)
                 \/ \E n \in Sizes : sendBle(d, c, n)
        PROVE  UNCHANGED <<reassembler, spoilt, connects, delivered>>
    BY <2>1 DEF ConnectedToDevice, ConnectRejects, Cancelled, sendBle
  <2> QED
    BY <1>3, <1>6, <1>7, <1>10, <1>11, <1>12, <2>1 DEF BleStep
<1>13. UNCHANGED bleVars => UNCHANGED <<reassembler, spoilt, connects, delivered>>
  BY DEF bleVars
<1> QED
  BY <1>3, <1>9, <1>12, <1>13, BleNextSteps

LEMMA BleTypeNext ==
    ASSUME BleTypeInv, [BleNext]_bleVars
    PROVE  BleTypeInv'
<1>1. LinksTyped' /\ SizesTyped' /\ CallsTyped' /\ BuffersTyped' /\ DeliveredTyped'
  <2>1. LinksTyped /\ SizesTyped /\ BleTypeOK
    BY BleTypeParts DEF BleTypeInv
  <2> QED
    BY <2>1, LinksNext, SizesNext, CallsNext, BuffersNext
<1>2. BleTypeOK'
  BY <1>1, BleTypeParts, PTL
<1>3. WithinMessage'
  BY WithinMessageNext DEF BleTypeInv
<1> QED
  BY <1>2, <1>3 DEF BleTypeInv

LEMMA BleTypeInit ==
    ASSUME BleInit
    PROVE  BleTypeInv
<1>0. MaxConnects \in Nat /\ MaxMessages \in [Device -> Nat]
  BY BoundAssumption
<1>1. LinksTyped
  BY <1>0 DEF BleInit, LinksTyped, Ids
<1>2. SizesTyped
  BY <1>0 DEF BleInit, SizesTyped
<1>3. CallsTyped /\ WithinMessage
  BY DEF BleInit, Idle, CallsTyped, CallRecord, WithinMessage, UnderWay
<1>4. BuffersTyped /\ DeliveredTyped
  BY <1>0 DEF BleInit, BuffersTyped, DeliveredTyped, Ids
<1> QED
  BY <1>1, <1>2, <1>3, <1>4, BleTypeParts DEF BleTypeInv

(* Every variable of BleTransport keeps its type, for any number of        *)
(* callers on each device, any sizes and any MTU.                          *)
THEOREM BleTypeCorrect == BleSpec => []BleTypeOK
<1>1. BleInit => BleTypeInv
  BY BleTypeInit
<1>2. BleTypeInv /\ [BleNext]_bleVars => BleTypeInv'
  BY BleTypeNext
<1>3. BleTypeInv => BleTypeOK
  BY DEF BleTypeInv
<1> QED
  BY <1>1, <1>2, <1>3, PTL DEF BleSpec

-----------------------------------------------------------------------------
(* The order of what BleTransport delivers, with one caller on each device *)

OneCaller == \A a, b \in Caller : a = b

BleTyped == LinksTyped /\ SizesTyped /\ CallsTyped /\ BuffersTyped /\ DeliveredTyped

LEMMA Typed == BleTypeInv => BleTyped
BY BleTypeParts DEF BleTypeInv, BleTyped

(* A step of one device leaves what the other one keeps of its calls.      *)
LEMMA OtherDevice ==
    ASSUME BleTyped, NEW d \in Device, NEW e \in Device, e # d,
           LinkDrops(d) \/ \E c \in Caller : BleStep(d, c)
    PROVE  /\ sizes'[e] = sizes[e] /\ connections'[e] = connections[e]
           /\ \A a \in Caller : call'[e][a] = call[e][a]
<1> USE DEF BleTyped
<1>1. CASE LinkDrops(d)
  BY <1>1 DEF LinkDrops
<1>2. ASSUME NEW c \in Caller, BleStep(d, c)
      PROVE  /\ sizes'[e] = sizes[e] /\ connections'[e] = connections[e]
             /\ \A a \in Caller : call'[e][a] = call[e][a]
  <2>1. \A a \in Caller : call'[e][a] = call[e][a]
    BY <1>2, OtherCalls
  <2>2. ASSUME NEW n \in Sizes, sendBle(d, c, n)
        PROVE  sizes'[e] = sizes[e] /\ connections'[e] = connections[e]
    BY <2>2 DEF sendBle, SizesTyped
  <2>3. CASE Monitor(d, c)
    BY <2>1, <2>3 DEF Monitor, LinksTyped
  <2>4. CASE disconnect(d, c)
    <3>1. UNCHANGED sizes /\ connections' \in {connections, [connections EXCEPT ![d] = 0]}
      BY <2>4 DEF disconnect
    <3> QED
      BY <2>1, <3>1 DEF LinksTyped
  <2>5. CASE WriteChunk(d, c) \/ WriteRejects(d, c)
    BY <2>1, <2>5 DEF WriteChunk, WriteRejects
  <2>6. CASE ConnectedToDevice(d, c) \/ ConnectRejects(d, c) \/ Cancelled(d, c)
    BY <2>1, <2>6 DEF ConnectedToDevice, ConnectRejects, Cancelled
  <2> QED
    BY <1>2, <2>1, <2>2, <2>3, <2>4, <2>5, <2>6 DEF BleStep
<1> QED
  BY <1>1, <1>2

(* How a step of a caller changes its own call.                            *)
LEMMA OwnCall ==
    ASSUME BleTyped, NEW d \in Device, NEW c \in Caller, BleStep(d, c), UnderWay(d, c)'
    PROVE  \/ /\ \E n \in Sizes : sendBle(d, c, n)
              /\ call'[d][c].message = Len(sizes'[d]) /\ call'[d][c].offset = 0
              /\ call'[d][c].step = IF connections[d] = 0 THEN "connecting" ELSE "writing"
              /\ UNCHANGED connections
           \/ /\ UNCHANGED sizes /\ UnderWay(d, c)
              /\ call'[d][c].message = call[d][c].message
              /\ \/ /\ ConnectedToDevice(d, c) /\ call[d][c].step = "connecting"
                    /\ call'[d][c].offset = call[d][c].offset /\ UNCHANGED connections
                 \/ /\ Monitor(d, c) /\ call'[d][c].step = "writing"
                    /\ call'[d][c].offset = call[d][c].offset
                 \/ /\ WriteChunk(d, c) /\ call'[d][c].step = "writing"
                    /\ call'[d][c].offset = call[d][c].offset + payloadPerChunk
                    /\ call'[d][c].offset < sizes[d][call[d][c].message]
<1>0. CallsTyped
  BY DEF BleTyped
<1>1. ASSUME NEW n \in Sizes, sendBle(d, c, n)
      PROVE  /\ call'[d][c].message = Len(sizes'[d]) /\ call'[d][c].offset = 0
             /\ call'[d][c].step = IF connections[d] = 0 THEN "connecting" ELSE "writing"
             /\ UNCHANGED connections
  BY <1>0, <1>1 DEF sendBle, CallsTyped
<1>2. ASSUME NEW to, call' = [call EXCEPT ![d][c].step = to]
      PROVE  /\ call'[d][c].message = call[d][c].message
             /\ call'[d][c].offset = call[d][c].offset /\ call'[d][c].step = to
  BY <1>0, <1>2 DEF CallsTyped, CallRecord
<1>3. call' # [call EXCEPT ![d][c] = Idle]
  BY <1>0 DEF CallsTyped, UnderWay, Idle
<1>4. ~ConnectRejects(d, c) /\ ~WriteRejects(d, c)
  <2>1. call' # [call EXCEPT ![d][c].step = "failed"]
    BY <1>2 DEF UnderWay
  <2> QED
    BY <2>1 DEF ConnectRejects, WriteRejects, Goto
<1>5. ~disconnect(d, c)
  <2>1. call' # [call EXCEPT ![d][c].step = "cancelling"]
    BY <1>2 DEF UnderWay
  <2> QED
    BY <1>3, <2>1 DEF disconnect, Goto
<1>6. ~Cancelled(d, c)
  BY <1>3 DEF Cancelled
<1>7. CASE ConnectedToDevice(d, c)
  <2>1. /\ call[d][c].step = "connecting" /\ UNCHANGED <<sizes, connections>>
        /\ call' = [call EXCEPT ![d][c].step = "discovering"]
    BY <1>7 DEF ConnectedToDevice, At, Goto
  <2> QED
    BY <1>2, <1>7, <2>1 DEF UnderWay
<1>8. CASE Monitor(d, c)
  <2>1. /\ call[d][c].step = "discovering" /\ UNCHANGED sizes
        /\ call' = [call EXCEPT ![d][c].step = "writing", ![d][c].via = connects[d] + 1]
    BY <1>8 DEF Monitor, At
  <2>2. /\ call'[d][c].message = call[d][c].message
        /\ call'[d][c].offset = call[d][c].offset /\ call'[d][c].step = "writing"
    BY <1>0, <2>1 DEF CallsTyped, CallRecord
  <2> QED
    BY <1>8, <2>1, <2>2 DEF UnderWay
<1>9. CASE WriteChunk(d, c)
  <2> DEFINE o == call[d][c].offset + payloadPerChunk
  <2>1. /\ call[d][c].step = "writing" /\ UNCHANGED sizes
        /\ o < sizes[d][call[d][c].message] /\ call' = [call EXCEPT ![d][c].offset = o]
    BY <1>3, <1>9 DEF WriteChunk, At
  <2> HIDE DEF o
  <2>2. /\ call'[d][c].message = call[d][c].message
        /\ call'[d][c].offset = o /\ call'[d][c].step = "writing"
    BY <1>0, <2>1 DEF CallsTyped, CallRecord
  <2> QED
    BY <1>9, <2>1, <2>2 DEF UnderWay, o
<1> QED
  BY <1>1, <1>4, <1>5, <1>6, <1>7, <1>8, <1>9 DEF BleStep

LEMMA LastUnderWayNext ==
    ASSUME OneCaller, BleTypeInv, LastUnderWay, [BleNext]_bleVars
    PROVE  LastUnderWay'
<1> DEFINE LastOf(e, a) ==
             /\ call[e][a].message = Len(sizes[e])
             /\ call[e][a].step # "writing" => connections[e] = 0 /\ call[e][a].offset = 0
<1>0. BleTyped
  BY Typed
<1>1. \A e \in Device, a \in Caller : UnderWay(e, a) => LastOf(e, a)
  BY DEF LastUnderWay
<1>2. SUFFICES ASSUME NEW e \in Device, NEW a \in Caller, UnderWay(e, a)' PROVE LastOf(e, a)'
  BY DEF LastUnderWay
<1>3. ASSUME sizes'[e] = sizes[e], connections'[e] = connections[e], call'[e][a] = call[e][a]
      PROVE  LastOf(e, a)'
  BY <1>1, <1>2, <1>3 DEF UnderWay
<1>4. ASSUME NEW d \in Device, d # e, LinkDrops(d) \/ \E c \in Caller : BleStep(d, c)
      PROVE  LastOf(e, a)'
  BY <1>0, <1>3, <1>4, OtherDevice
<1>5. ASSUME LinkDrops(e) PROVE LastOf(e, a)'
  BY <1>3, <1>5 DEF LinkDrops
<1>6. ASSUME BleStep(e, a) PROVE LastOf(e, a)'
  BY <1>0, <1>1, <1>2, <1>6, OwnCall
<1>7. ASSUME NEW c \in Caller, BleStep(e, c) PROVE LastOf(e, a)'
  BY <1>6, <1>7 DEF OneCaller
<1>8. CASE UNCHANGED bleVars
  BY <1>3, <1>8 DEF bleVars
<1> QED
  BY <1>4, <1>5, <1>7, <1>8, BleNextSteps

LEMMA OneSubscriptionNext ==
    ASSUME OneCaller, BleTypeInv, LastUnderWay, OneSubscription,
           [BleNext]_bleVars
    PROVE  OneSubscription'
<1>0. BleTyped
  BY Typed
<1> USE DEF BleTyped
<1>1. ASSUME NEW e \in Device, NEW new, DOMAIN new = DOMAIN reassembler[e],
             reassembler' = [reassembler EXCEPT ![e] = new], UNCHANGED connections
      PROVE  OneSubscription'
  BY <1>0, <1>1 DEF OneSubscription, BuffersTyped
<1>2. CASE UNCHANGED <<reassembler, connections>>
  BY <1>2 DEF OneSubscription
<1>3. ASSUME NEW d \in Device, NEW c \in Caller, At(d, c, "writing"), Write(d, c),
             UNCHANGED connections
      PROVE  OneSubscription'
  <2> DEFINE e == Other(d)
             new == Buffers(e, Frame(d, c))
  <2>1. e \in Device /\ reassembler' = [reassembler EXCEPT ![e] = new]
    BY <1>3, WriteIs
  <2>2. DOMAIN new = DOMAIN reassembler[e]
    BY DEF Buffers
  <2> HIDE DEF e, new
  <2> QED
    BY <1>1, <1>3, <2>1, <2>2
<1>4. ASSUME NEW d \in Device, NEW c \in Caller, WriteChunk(d, c) PROVE OneSubscription'
  BY <1>3, <1>4 DEF WriteChunk
<1>5. ASSUME NEW d \in Device, NEW c \in Caller, WriteRejects(d, c) PROVE OneSubscription'
  BY <1>2, <1>3, <1>5 DEF WriteRejects
<1>6. ASSUME NEW d \in Device, NEW c \in Caller, Monitor(d, c) PROVE OneSubscription'
  <2> DEFINE i == connects[d] + 1
             all == DOMAIN reassembler[d] \cup {i}
             new == [j \in all |-> IF j = i THEN <<>> ELSE reassembler[d][j]]
  <2>1. /\ connections' = [connections EXCEPT ![d] = i]
        /\ reassembler' = [reassembler EXCEPT ![d] = new] /\ UnderWay(d, c)
        /\ call[d][c].step # "writing"
    BY <1>6 DEF Monitor, At, UnderWay
  <2>2. connections[d] = 0
    BY <2>1 DEF LastUnderWay
  <2>3. DOMAIN reassembler[d] = {}
    BY <1>0, <2>2 DEF OneSubscription, BuffersTyped
  <2>4. DOMAIN new = {i}
    BY <2>3
  <2> HIDE DEF new, i
  <2> QED
    BY <1>0, <2>1, <2>4 DEF OneSubscription, BuffersTyped, LinksTyped
<1>7. ASSUME NEW d \in Device, NEW conn \in {connections[d], 0},
             connections' = [connections EXCEPT ![d] = conn],
             reassembler' = [reassembler EXCEPT ![d] =
                 Restrict(reassembler[d], DOMAIN reassembler[d] \ {connections[d]})]
      PROVE  OneSubscription'
  <2> DEFINE new == Restrict(reassembler[d], DOMAIN reassembler[d] \ {connections[d]})
  <2>1. DOMAIN new = DOMAIN reassembler[d] \ {connections[d]}
    BY DEF Restrict
  <2>2. DOMAIN new = {}
    BY <2>1 DEF OneSubscription
  <2> HIDE DEF new
  <2>3. reassembler' = [reassembler EXCEPT ![d] = new]
    BY <1>7 DEF new
  <2> QED
    BY <1>0, <1>7, <2>2, <2>3 DEF OneSubscription, BuffersTyped, LinksTyped
<1>8. ASSUME NEW d \in Device, LinkDrops(d) PROVE OneSubscription'
  <2>1. connections' = [connections EXCEPT ![d] = connections[d]]
    BY <1>0, <1>8 DEF LinkDrops, LinksTyped
  <2> QED
    BY <1>7, <1>8, <2>1 DEF LinkDrops
<1>9. ASSUME NEW d \in Device, NEW c \in Caller, disconnect(d, c) PROVE OneSubscription'
  <2>1. CASE connections[d] = 0
    BY <1>2, <1>9, <2>1 DEF disconnect
  <2>2. CASE connections[d] # 0
    BY <1>7, <1>9, <2>2 DEF disconnect
  <2> QED
    BY <2>1, <2>2
<1>10. ASSUME NEW d \in Device, NEW c \in Caller, BleStep(d, c) PROVE OneSubscription'
  <2>1. ASSUME ConnectedToDevice(d, c) \/ ConnectRejects(d, c) \/ Cancelled(d, c)
                 \/ \E n \in Sizes : sendBle(d, c, n)
        PROVE  UNCHANGED <<reassembler, connections>>
    BY <2>1 DEF ConnectedToDevice, ConnectRejects, Cancelled, sendBle
  <2> QED
    BY <1>2, <1>4, <1>5, <1>6, <1>9, <1>10, <2>1 DEF BleStep
<1>11. UNCHANGED bleVars => UNCHANGED <<reassembler, connections>>
  BY DEF bleVars
<1> QED
  BY <1>2, <1>8, <1>10, <1>11, BleNextSteps

LEMMA NoBytes == \A m : FirstBytes(m, 0) = <<>>
BY DEF FirstBytes

(* A device's own step drops a subscription of its own, or makes one.      *)
LEMMA OwnBuffers ==
    ASSUME BleTyped, NEW e \in Device,
           LinkDrops(e) \/ \E c \in Caller : BleStep(e, c)
    PROVE  \A i \in DOMAIN reassembler'[e] \ spoilt'[e] :
             \/ /\ i \in DOMAIN reassembler[e] \ spoilt[e]
                /\ reassembler'[e][i] = reassembler[e][i]
             \/ ~MidMessage(Other(e)) /\ reassembler'[e][i] = <<>>
<1> DEFINE Goal ==
             \A i \in DOMAIN reassembler'[e] \ spoilt'[e] :
               \/ /\ i \in DOMAIN reassembler[e] \ spoilt[e]
                  /\ reassembler'[e][i] = reassembler[e][i]
               \/ ~MidMessage(Other(e)) /\ reassembler'[e][i] = <<>>
<1>0. BuffersTyped /\ Other(e) \in Device /\ Other(e) # e /\ Other(Other(e)) = e
  BY Others DEF BleTyped
<1>1. ASSUME reassembler'[e] = reassembler[e], spoilt'[e] = spoilt[e] PROVE Goal
  BY <1>1
<1>2. ASSUME NEW x,
             reassembler' = [reassembler EXCEPT ![e] =
                 Restrict(reassembler[e], DOMAIN reassembler[e] \ {x})],
             spoilt' = [spoilt EXCEPT ![e] = spoilt[e] \ {x}]
      PROVE  Goal
  <2>1. reassembler'[e] = [i \in DOMAIN reassembler[e] \ {x} |-> reassembler[e][i]]
    BY <1>0, <1>2 DEF BuffersTyped, Restrict
  <2>2. spoilt'[e] = spoilt[e] \ {x}
    BY <1>0, <1>2 DEF BuffersTyped
  <2> QED
    BY <2>1, <2>2
<1>3. ASSUME LinkDrops(e) PROVE Goal
  BY <1>2, <1>3 DEF LinkDrops
<1>4. ASSUME NEW c \in Caller, Monitor(e, c) PROVE Goal
  <2> DEFINE i == connects[e] + 1
             all == DOMAIN reassembler[e] \cup {i}
             new == [j \in all |-> IF j = i THEN <<>> ELSE reassembler[e][j]]
             mid == MidMessage(Other(e))
  <2>1. /\ reassembler' = [reassembler EXCEPT ![e] = new]
        /\ spoilt' = [spoilt EXCEPT ![e] = IF mid THEN spoilt[e] \cup {i} ELSE spoilt[e]]
    BY <1>4 DEF Monitor
  <2> HIDE DEF mid, i
  <2>2. /\ reassembler'[e] = new
        /\ spoilt'[e] = IF mid THEN spoilt[e] \cup {i} ELSE spoilt[e]
    BY <1>0, <2>1 DEF BuffersTyped
  <2>3. ASSUME NEW j \in DOMAIN reassembler'[e] \ spoilt'[e]
        PROVE  \/ /\ j \in DOMAIN reassembler[e] \ spoilt[e]
                  /\ reassembler'[e][j] = reassembler[e][j]
               \/ ~mid /\ reassembler'[e][j] = <<>>
    <3>1. CASE j = i
      BY <2>2, <3>1
    <3>2. CASE j # i
      BY <2>2, <3>2
    <3> QED
      BY <3>1, <3>2
  <2> QED
    BY <2>3 DEF mid
<1>5. ASSUME NEW c \in Caller, disconnect(e, c) PROVE Goal
  <2>1. CASE connections[e] = 0
    <3>1. UNCHANGED <<reassembler, spoilt>>
      BY <1>5, <2>1 DEF disconnect
    <3> QED
      BY <1>1, <3>1
  <2>2. CASE connections[e] # 0
    BY <1>2, <1>5, <2>2 DEF disconnect
  <2> QED
    BY <2>1, <2>2
<1>6. ASSUME NEW c \in Caller, WriteChunk(e, c) \/ WriteRejects(e, c) PROVE Goal
  <2> DEFINE o == Other(e)
  <2>1. Write(e, c) => reassembler'[e] = reassembler[e]
    <3>1. ASSUME NEW new, reassembler' = [reassembler EXCEPT ![o] = new]
          PROVE  reassembler'[e] = reassembler[e]
      BY <1>0, <3>1 DEF BuffersTyped
    <3> QED
      BY <3>1 DEF Write, Arrives
  <2>2. \E bad : spoilt' = [spoilt EXCEPT ![o] = bad] \/ UNCHANGED spoilt
    BY <1>6 DEF WriteChunk, WriteRejects
  <2>3. spoilt'[e] = spoilt[e]
    <3> HIDE DEF o
    <3>1. o # e
      BY <1>0 DEF o
    <3> QED
      BY <1>0, <2>2, <3>1 DEF BuffersTyped
  <2>4. reassembler'[e] = reassembler[e]
    BY <1>6, <2>1 DEF WriteChunk, WriteRejects
  <2> QED
    BY <1>1, <2>3, <2>4
<1>7. ASSUME NEW c \in Caller,
             ConnectedToDevice(e, c) \/ ConnectRejects(e, c) \/ Cancelled(e, c)
               \/ \E n \in Sizes : sendBle(e, c, n)
      PROVE  Goal
  <2>1. UNCHANGED <<reassembler, spoilt>>
    BY <1>7 DEF ConnectedToDevice, ConnectRejects, Cancelled, sendBle
  <2> QED
    BY <1>1, <2>1
<1> HIDE DEF Goal
<1>8. Goal
  BY <1>3, <1>4, <1>5, <1>6, <1>7 DEF BleStep
<1> QED
  BY <1>8 DEF Goal

(* What has been written, once a chunk has got through to the other side.  *)
LEMMA JoinedIs ==
    ASSUME BleTypeInv, Holds, NEW d \in Device, NEW c \in Caller,
           At(d, c, "writing"), NEW e, e = Other(d),
           NEW i \in DOMAIN reassembler[e] \ spoilt[e]
    PROVE  LET m == call[d][c].message
               next == call[d][c].offset + payloadPerChunk
           IN IF next < sizes[d][m]
              THEN Joined(e, Frame(d, c), i) = FirstBytes(m, next)
              ELSE Joined(e, Frame(d, c), i) = MessageBytes(d, m)
<1> DEFINE m == call[d][c].message
           o == call[d][c].offset
           size == sizes[d][m]
           next == o + payloadPerChunk
<1>1. m \in Nat \ {0} /\ o \in Nat /\ size \in Nat
  BY FrameCarries
<1>2. PICK end \in Nat :
        /\ o <= end /\ end <= size
        /\ Frame(d, c).payload = [j \in 1..(end - o) |-> <<m, o + j>>]
        /\ Frame(d, c).isLast = (end >= size)
        /\ IF next < size THEN end = next ELSE end = size
  BY FrameCarries, Zenon
<1>4. reassembler[e][i] = FirstBytes(m, o)
  BY DEF Holds, Holding, At
<1>5. Joined(e, Frame(d, c), i) = FirstBytes(m, end)
  <2> HIDE DEF m, o, size, next
  <2>0. m \in Nat /\ o \in Nat /\ o <= end
    BY <1>1, <1>2
  <2>1. FirstBytes(m, o) \o [j \in 1..(end - o) |-> <<m, o + j>>] = FirstBytes(m, end)
    BY <2>0, FirstBytesJoin
  <2> QED
    BY <1>2, <1>4, <2>1, Zenon DEF Joined
<1>6. FirstBytes(m, size) = MessageBytes(d, m)
  BY DEF FirstBytes, MessageBytes
<1> HIDE DEF m, o, size, next
<1>7. IF next < size THEN Joined(e, Frame(d, c), i) = FirstBytes(m, next)
      ELSE Joined(e, Frame(d, c), i) = MessageBytes(d, m)
  BY <1>2, <1>5, <1>6, Zenon
<1> QED
  BY <1>7, Zenon DEF next, m, size, o

LEMMA HoldsNext ==
    ASSUME OneCaller, BleTypeInv, LastUnderWay, Holds, [BleNext]_bleVars
    PROVE  Holds'
<1>0. BleTyped
  BY Typed
<1>1. SUFFICES ASSUME NEW d \in Device, NEW c \in Caller, NEW e, e = Other(d)
               PROVE  \A i \in DOMAIN reassembler'[e] \ spoilt'[e] :
                        reassembler'[e][i] = Holding(d, c)'
  BY DEF Holds
<1> DEFINE Goal == \A i \in DOMAIN reassembler'[e] \ spoilt'[e] :
                     reassembler'[e][i] = Holding(d, c)'
<1>2. e \in Device /\ e # d /\ Other(e) = d
  BY <1>1, Others
<1>3. \A i \in DOMAIN reassembler[e] \ spoilt[e] : reassembler[e][i] = Holding(d, c)
  BY <1>1 DEF Holds
<1>4. call'[d][c] = call[d][c] => Holding(d, c)' = Holding(d, c)
  BY DEF Holding
<1>5. ASSUME call[d][c].step # "writing", call'[d][c].step # "writing"
      PROVE  Holding(d, c)' = Holding(d, c)
  BY <1>5 DEF Holding
<1>6. ASSUME reassembler'[e] = reassembler[e], spoilt'[e] = spoilt[e],
             Holding(d, c)' = Holding(d, c)
      PROVE  Goal
  BY <1>3, <1>6
<1>7. ASSUME LinkDrops(e) \/ \E a \in Caller : BleStep(e, a) PROVE Goal
  <2>1. Holding(d, c)' = Holding(d, c)
    BY <1>0, <1>2, <1>4, <1>7, OtherDevice
  <2>2. ~MidMessage(d) => Holding(d, c) = <<>>
    <3>1. ASSUME ~MidMessage(d), call[d][c].step = "writing" PROVE call[d][c].offset = 0
      <4>1. ~(call[d][c].offset > 0)
        BY <3>1 DEF MidMessage, At
      <4>2. call[d][c].offset \in Nat
        BY <1>0 DEF BleTyped, CallsTyped, CallRecord
      <4> QED
        BY <4>1, <4>2
    <3> QED
      BY <3>1, NoBytes DEF Holding
  <2>3. \A i \in DOMAIN reassembler'[e] \ spoilt'[e] :
          \/ /\ i \in DOMAIN reassembler[e] \ spoilt[e]
             /\ reassembler'[e][i] = reassembler[e][i]
          \/ ~MidMessage(d) /\ reassembler'[e][i] = <<>>
    BY <1>0, <1>2, <1>7, OwnBuffers
  <2> QED
    BY <1>3, <2>1, <2>2, <2>3
<1>8. ASSUME NEW new, NEW bad, reassembler' = [reassembler EXCEPT ![d] = new],
             spoilt' = [spoilt EXCEPT ![d] = bad]
      PROVE  reassembler'[e] = reassembler[e] /\ spoilt'[e] = spoilt[e]
  BY <1>0, <1>2, <1>8 DEF BleTyped, BuffersTyped
<1>9. ASSUME LinkDrops(d) PROVE Goal
  <2>1. UNCHANGED call /\ reassembler'[e] = reassembler[e] /\ spoilt'[e] = spoilt[e]
    BY <1>8, <1>9 DEF LinkDrops
  <2> QED
    BY <1>4, <1>6, <2>1
<1>10. ASSUME NEW n \in Sizes, sendBle(d, c, n) PROVE Goal
  <2>1. call[d][c].step = "idle" /\ UNCHANGED <<reassembler, spoilt>>
    BY <1>10 DEF sendBle, At
  <2>2. call'[d][c].offset = 0
    BY <1>0, <1>10 DEF sendBle, BleTyped, CallsTyped
  <2>3. Holding(d, c)' = <<>> /\ Holding(d, c) = <<>>
    BY <2>1, <2>2, NoBytes DEF Holding
  <2> QED
    BY <1>6, <2>1, <2>3
<1>11. ASSUME NEW to, to # "writing", Goto(d, c, to)
       PROVE  call'[d][c].step # "writing"
  BY <1>0, <1>11 DEF Goto, BleTyped, CallsTyped, CallRecord
<1>12. call' = [call EXCEPT ![d][c] = Idle] => call'[d][c].step # "writing"
  BY <1>0 DEF BleTyped, CallsTyped, Idle
<1>13. ASSUME ConnectedToDevice(d, c) \/ ConnectRejects(d, c) \/ Cancelled(d, c)
       PROVE  Goal
  <2>1. /\ call[d][c].step \in {"connecting", "discovering", "cancelling"}
        /\ UNCHANGED <<reassembler, spoilt>>
        /\ \/ Goto(d, c, "discovering") \/ Goto(d, c, "failed")
           \/ call' = [call EXCEPT ![d][c] = Idle]
    BY <1>13 DEF ConnectedToDevice, ConnectRejects, Cancelled, At
  <2> QED
    BY <1>5, <1>6, <1>11, <1>12, <2>1
<1>14. ASSUME disconnect(d, c) PROVE Goal
  <2>1. /\ call[d][c].step \in {"idle", "failed"}
        /\ Goto(d, c, "cancelling") \/ call' = [call EXCEPT ![d][c] = Idle]
    BY <1>14 DEF disconnect, At
  <2>2. reassembler'[e] = reassembler[e] /\ spoilt'[e] = spoilt[e]
    <3>1. CASE connections[d] = 0
      BY <1>14, <3>1 DEF disconnect
    <3>2. CASE connections[d] # 0
      BY <1>8, <1>14, <3>2 DEF disconnect
    <3> QED
      BY <3>1, <3>2
  <2> QED
    BY <1>5, <1>6, <1>11, <1>12, <2>1, <2>2
<1>15. ASSUME Monitor(d, c) PROVE Goal
  <2>1. call[d][c].step = "discovering"
    BY <1>15 DEF Monitor, At
  <2>2. call[d][c].offset = 0
    BY <2>1 DEF LastUnderWay, UnderWay
  <2>3. call' = [call EXCEPT ![d][c].step = "writing", ![d][c].via = connects[d] + 1]
    BY <1>15 DEF Monitor
  <2>4. call'[d][c].offset = 0
    BY <1>0, <2>2, <2>3 DEF BleTyped, CallsTyped, CallRecord
  <2>5. Holding(d, c)' = <<>> /\ Holding(d, c) = <<>>
    BY <2>1, <2>4, NoBytes DEF Holding
  <2>6. \E new, bad : /\ reassembler' = [reassembler EXCEPT ![d] = new]
                      /\ spoilt' = [spoilt EXCEPT ![d] = bad]
    BY <1>15 DEF Monitor
  <2> QED
    BY <1>6, <1>8, <2>5, <2>6
<1>16. ASSUME At(d, c, "writing"), Write(d, c)
       PROVE  /\ reassembler'[e] = Buffers(e, Frame(d, c))
              /\ DOMAIN reassembler'[e] = DOMAIN reassembler[e]
              /\ \A i \in DOMAIN reassembler[e] :
                   reassembler'[e][i] = IF Frame(d, c).isLast THEN <<>>
                                        ELSE Joined(e, Frame(d, c), i)
  <2>1. reassembler' = [reassembler EXCEPT ![e] = Buffers(e, Frame(d, c))]
    BY <1>1, <1>16, WriteIs
  <2>2. reassembler'[e] = Buffers(e, Frame(d, c))
    BY <1>0, <1>2, <2>1 DEF BleTyped, BuffersTyped
  <2> QED
    BY <2>2 DEF Buffers
<1>17. ASSUME WriteRejects(d, c) PROVE Goal
  <2>1. /\ spoilt' = [spoilt EXCEPT ![e] =
                {i \in DOMAIN reassembler'[e] : reassembler'[e][i] # <<>>}]
        /\ Goto(d, c, "failed")
    BY <1>1, <1>17 DEF WriteRejects
  <2>2. spoilt'[e] = {i \in DOMAIN reassembler'[e] : reassembler'[e][i] # <<>>}
    BY <1>0, <1>2, <2>1 DEF BleTyped, BuffersTyped
  <2>3. Holding(d, c)' = <<>>
    BY <1>11, <2>1 DEF Holding
  <2> QED
    BY <2>2, <2>3
<1>18. ASSUME WriteChunk(d, c) PROVE Goal
  <2> DEFINE m == call[d][c].message
             next == call[d][c].offset + payloadPerChunk
  <2>1. /\ At(d, c, "writing") /\ Write(d, c)
        /\ IF next < sizes[d][m]
           THEN call' = [call EXCEPT ![d][c].offset = next] /\ UNCHANGED spoilt
           ELSE /\ call' = [call EXCEPT ![d][c] = Idle]
                /\ spoilt' = [spoilt EXCEPT ![Other(d)] = {}]
    BY <1>18 DEF WriteChunk
  <2>2. \A i \in DOMAIN reassembler[e] \ spoilt[e] :
          next < sizes[d][m] => Joined(e, Frame(d, c), i) = FirstBytes(m, next)
    BY <1>1, <2>1, JoinedIs, Zenon
  <2>3. CASE next < sizes[d][m]
    <3>1. /\ call'[d][c].step = "writing" /\ call'[d][c].message = m
          /\ call'[d][c].offset = next
      <4>1. call' = [call EXCEPT ![d][c].offset = next] /\ call[d][c].step = "writing"
        BY <2>1, <2>3 DEF At
      <4> HIDE DEF next
      <4> QED
        BY <1>0, <4>1 DEF BleTyped, CallsTyped, CallRecord
    <3>2. Holding(d, c)' = FirstBytes(m, next)
      BY <3>1 DEF Holding
    <3>3. UNCHANGED spoilt
      BY <2>1, <2>3
    <3> SUFFICES ASSUME NEW i \in DOMAIN reassembler'[e] \ spoilt'[e]
                 PROVE  reassembler'[e][i] = FirstBytes(m, next)
      BY <3>2
    <3>4. i \in DOMAIN reassembler[e] \ spoilt[e]
      BY <1>16, <2>1, <3>3
    <3>5. ~Frame(d, c).isLast
      BY <2>1, <2>3, LastFrame
    <3> QED
      BY <1>16, <2>1, <2>2, <2>3, <3>4, <3>5
  <2>4. CASE ~(next < sizes[d][m])
    <3>1. Holding(d, c)' = <<>>
      BY <1>12, <2>1, <2>4 DEF Holding
    <3>2. Frame(d, c).isLast
      BY <2>1, <2>4, LastFrame
    <3> QED
      BY <1>16, <2>1, <3>1, <3>2
  <2> QED
    BY <2>3, <2>4
<1> HIDE DEF Goal
<1>19. ASSUME NEW a \in Caller, BleStep(d, a) PROVE Goal
  <2>1. a = c
    BY DEF OneCaller
  <2> QED
    BY <1>10, <1>13, <1>14, <1>15, <1>17, <1>18, <1>19, <2>1 DEF BleStep
<1>20. ASSUME UNCHANGED bleVars PROVE Goal
  <2>1. UNCHANGED <<call, reassembler, spoilt>>
    BY <1>20 DEF bleVars
  <2> QED
    BY <1>4, <1>6, <2>1
<1>21. \A x \in Device : x = d \/ x = e
  <2>1. PICK a \in Device, b \in Device : Device = {a, b}
    BY DeviceAssumption
  <2> QED
    BY <1>2, <2>1
<1>22. Goal
  BY <1>7, <1>9, <1>19, <1>20, <1>21, BleNextSteps
<1> QED
  BY <1>22 DEF Goal

(* Nothing is delivered, and what is under way stays so or is a new one.   *)
LEMMA NothingDelivered ==
    ASSUME NEW d \in Device, NEW s, s = Other(d),
           \E number \in [Clean(d) -> DOMAIN sizes[s]] : Numbered(d, number),
           delivered'[d] = delivered[d],
           \A m \in DOMAIN sizes[s] : m \in DOMAIN sizes'[s] /\ sizes'[s][m] = sizes[s][m],
           \A c \in Caller : UnderWay(s, c)' =>
               \/ UnderWay(s, c) /\ call'[s][c].message = call[s][c].message
               \/ \A m \in DOMAIN sizes[s] : m < call'[s][c].message
    PROVE  \E number \in [Clean(d)' -> DOMAIN sizes'[s]] : Numbered(d, number)'
<1>1. PICK number \in [Clean(d) -> DOMAIN sizes[s]] : Numbered(d, number)
  OBVIOUS
<1>2. Clean(d)' = Clean(d)
  BY DEF Clean
<1>3. number \in [Clean(d)' -> DOMAIN sizes'[s]]
  BY <1>2
<1>4. \A k \in Clean(d)' : delivered'[d][k].message = [j \in 1..sizes'[s][number[k]] |-> <<number[k], j>>]
  <2> SUFFICES ASSUME NEW k \in Clean(d)
               PROVE  delivered[d][k].message = [j \in 1..sizes'[s][number[k]] |-> <<number[k], j>>]
    BY <1>2
  <2>1. delivered[d][k].message = [j \in 1..sizes[s][number[k]] |-> <<number[k], j>>]
    BY <1>1 DEF Numbered, MessageBytes
  <2>2. sizes'[s][number[k]] = sizes[s][number[k]]
    OBVIOUS
  <2> QED
    BY <2>1, <2>2
<1>5. \A j, k \in Clean(d)' : j < k => number[j] < number[k]
  BY <1>1, <1>2 DEF Numbered
<1>6. ASSUME NEW k \in Clean(d), NEW c \in Caller, UnderWay(s, c)'
      PROVE  number[k] < call'[s][c].message
  <2>1. UnderWay(s, c) => number[k] < call[s][c].message
    BY <1>1 DEF Numbered
  <2> QED
    BY <1>6, <2>1
<1>7. Numbered(d, number)'
  BY <1>2, <1>4, <1>5, <1>6 DEF Numbered, MessageBytes
<1> QED
  BY <1>3, <1>7

(* A message is delivered, and none is under way any more.                 *)
LEMMA OneDelivered ==
    ASSUME BleTyped, NEW d \in Device, NEW s \in Device, s = Other(d),
           \E number \in [Clean(d) -> DOMAIN sizes[s]] : Numbered(d, number),
           NEW x \in Delivery, delivered'[d] = Append(delivered[d], x),
           NEW a \in Caller, UnderWay(s, a), call[s][a].message \in DOMAIN sizes[s],
           ~x.spoilt => x.message = MessageBytes(s, call[s][a].message),
           UNCHANGED sizes, \A c \in Caller : ~UnderWay(s, c)'
    PROVE  \E number \in [Clean(d)' -> DOMAIN sizes'[s]] : Numbered(d, number)'
<1>1. PICK number \in [Clean(d) -> DOMAIN sizes[s]] : Numbered(d, number)
  OBVIOUS
<1> DEFINE n == Len(delivered[d]) + 1
           m == call[s][a].message
<1>0. PICK new : new = [k \in Clean(d)' |-> IF k = n THEN m ELSE number[k]]
  OBVIOUS
<1>2. /\ n \in Nat /\ DOMAIN delivered[d] = 1..(n - 1) /\ DOMAIN delivered'[d] = 1..n
      /\ delivered'[d][n] = x /\ \A k \in 1..(n - 1) : delivered'[d][k] = delivered[d][k]
  <2>1. delivered[d] \in Seq(Delivery)
    BY DEF BleTyped, DeliveredTyped
  <2> QED
    BY <2>1
<1> HIDE DEF n
<1>3. \A k \in Clean(d)' :
        \/ k = n /\ ~x.spoilt
        \/ k # n /\ k \in Clean(d) /\ k < n /\ delivered'[d][k] = delivered[d][k]
  BY <1>2 DEF Clean
<1>4. \A k \in Clean(d) : number[k] < m
  BY <1>1 DEF Numbered
<1>5. new \in [Clean(d)' -> DOMAIN sizes'[s]]
  BY <1>0, <1>3
<1>6. ASSUME NEW k \in Clean(d)'
      PROVE  delivered'[d][k].message = [j \in 1..sizes[s][new[k]] |-> <<new[k], j>>]
  <2>1. CASE k = n
    <3>1. delivered'[d][k] = x /\ ~x.spoilt /\ new[k] = m
      BY <1>0, <1>2, <1>3, <2>1
    <3> HIDE DEF m
    <3>2. x.message = [j \in 1..sizes[s][m] |-> <<m, j>>]
      BY <3>1 DEF MessageBytes, m
    <3> QED
      BY <3>1, <3>2
  <2>2. CASE k # n
    <3>1. k \in Clean(d) /\ delivered'[d][k] = delivered[d][k] /\ new[k] = number[k]
      BY <1>0, <1>3, <2>2
    <3>2. delivered[d][k].message = [j \in 1..sizes[s][number[k]] |-> <<number[k], j>>]
      BY <1>1, <3>1 DEF Numbered, MessageBytes
    <3> QED
      BY <3>1, <3>2
  <2> QED
    BY <2>1, <2>2
<1>7. ASSUME NEW j \in Clean(d)', NEW k \in Clean(d)', j < k PROVE new[j] < new[k]
  <2>1. j \in Nat /\ k \in Nat /\ j # n /\ j \in Clean(d) /\ new[j] = number[j]
    <3>1. DOMAIN delivered'[d] \subseteq Nat
      BY <1>2
    <3>2. j \in Nat /\ k \in Nat /\ j <= n /\ k <= n
      BY <1>2 DEF Clean
    <3>3. j # n
      BY <1>2, <1>7, <3>2
    <3> QED
      BY <1>0, <1>3, <3>2, <3>3
  <2>2. CASE k = n
    BY <1>0, <1>4, <2>1, <2>2
  <2>3. CASE k # n
    BY <1>0, <1>1, <1>3, <1>7, <2>1, <2>3 DEF Numbered
  <2> QED
    BY <2>2, <2>3
<1>9. Numbered(d, new)'
  BY <1>6, <1>7 DEF Numbered, MessageBytes
<1> QED
  BY <1>5, <1>9

(* With one subscription, a chunk that arrives delivers at most a message. *)
LEMMA WriteDelivers ==
    ASSUME BleTypeInv, OneSubscription, NEW s \in Device, NEW a \in Caller,
           At(s, a, "writing"), Write(s, a), NEW d, d = Other(s)
    PROVE  \/ delivered'[d] = delivered[d]
           \/ /\ Frame(s, a).isLast
              /\ \E i \in DOMAIN reassembler[d] : \E x \in Delivery :
                   /\ delivered'[d] = Append(delivered[d], x)
                   /\ x.message = Joined(d, Frame(s, a), i) /\ x.spoilt = (i \in spoilt[d])
<1> DEFINE frame == Frame(s, a)
           n == Cardinality(Completed(d, frame))
           order == Sorted(Completed(d, frame))
           new == Deliveries(d, frame)
<1>1. /\ d \in Device /\ delivered' = [delivered EXCEPT ![d] = delivered[d] \o new]
      /\ order \in [1..n -> Completed(d, frame)] /\ new \in Seq(Delivery)
  BY WriteIs
<1>2. delivered[d] \in Seq(Delivery) /\ delivered'[d] = delivered[d] \o new
  BY <1>1, Typed DEF BleTyped, DeliveredTyped
<1>3. Completed(d, frame) \subseteq {connections[d]}
  BY <1>1 DEF OneSubscription, Completed
<1>4. CASE Completed(d, frame) = {}
  <2>1. n = 0
    BY <1>4, FS_EmptySet
  <2> HIDE DEF n
  <2>2. DOMAIN new = {}
    BY <2>1 DEF Deliveries, n
  <2> HIDE DEF new
  <2>3. new = <<>>
    BY <1>1, <2>2
  <2> QED
    BY <1>2, <2>3
<1>5. CASE Completed(d, frame) # {}
  <2>1. PICK i \in Completed(d, frame) : Completed(d, frame) = {i}
    BY <1>3, <1>5
  <2>2. n = 1
    BY <2>1, FS_Singleton
  <2>3. i \in DOMAIN reassembler[d] /\ frame.isLast
    BY <2>1 DEF Completed
  <2>4. order[1] = i
    <3> HIDE DEF order, n
    <3>1. order \in [1..1 -> {i}]
      BY <1>1, <2>1, <2>2
    <3> QED
      BY <3>1
  <2> DEFINE x == [message |-> Joined(d, frame, order[1]), spoilt |-> order[1] \in spoilt[d]]
  <2>5. new = [k \in 1..n |-> [message |-> Joined(d, frame, order[k]), spoilt |-> order[k] \in spoilt[d]]]
    BY Zenon DEF Deliveries
  <2>6. DOMAIN new = 1..1 /\ new[1] = x
    <3>1. 1 \in 1..n
      BY <2>2
    <3> HIDE DEF order, n
    <3> QED
      BY <2>2, <2>5, <3>1
  <2>7. x.message = Joined(d, frame, i) /\ x.spoilt = (i \in spoilt[d])
    <3> HIDE DEF order
    <3> QED
      BY <2>4, Zenon
  <2> HIDE DEF new, x
  <2>8. Len(new) = 1 /\ x \in Delivery
    <3> HIDE DEF order, n, frame, Delivery
    <3>1. Len(new) \in Nat /\ DOMAIN new = 1..Len(new)
      BY <1>1, LenProperties
    <3>2. Len(new) = 1
      BY <2>6, <3>1
    <3>3. new[1] \in Delivery
      BY <1>1, <3>2, ElementOfSeq
    <3> QED
      BY <2>6, <3>2, <3>3
  <2>9. new = <<x>>
    BY <1>1, <2>6, <2>8
  <2>10. delivered'[d] = Append(delivered[d], x)
    BY <1>2, <2>8, <2>9
  <2> QED
    BY <2>3, <2>7, <2>8, <2>10, Zenon DEF frame
<1> QED
  BY <1>4, <1>5

LEMMA DeliveredNext ==
    ASSUME OneCaller, BleInv, [BleNext]_bleVars
    PROVE  DeliveredSoFar'
<1>0. BleTyped /\ BleTypeInv /\ WithinMessage
  BY Typed DEF BleInv, BleTypeInv
<1>1. SUFFICES ASSUME NEW d \in Device, NEW s, s = Other(d)
               PROVE  \E number \in [Clean(d)' -> DOMAIN sizes'[s]] : Numbered(d, number)'
  BY DEF DeliveredSoFar
<1> DEFINE Goal == \E number \in [Clean(d)' -> DOMAIN sizes'[s]] : Numbered(d, number)'
<1>2. s \in Device /\ s # d /\ Other(s) = d
  BY <1>1, Others
<1>3. \E number \in [Clean(d) -> DOMAIN sizes[s]] : Numbered(d, number)
  BY <1>1 DEF BleInv, DeliveredSoFar
<1>4. ASSUME delivered'[d] = delivered[d], sizes'[s] = sizes[s],
             \A c \in Caller : UnderWay(s, c)' =>
                 UnderWay(s, c) /\ call'[s][c].message = call[s][c].message
      PROVE  Goal
  BY <1>1, <1>3, <1>4, NothingDelivered
<1>5. ASSUME LinkDrops(d) \/ \E c \in Caller : BleStep(d, c) PROVE Goal
  <2>1. /\ sizes'[s] = sizes[s]
        /\ \A c \in Caller : call'[s][c] = call[s][c]
    BY <1>0, <1>2, <1>5, OtherDevice
  <2>2. ASSUME NEW c \in Caller, Write(d, c) PROVE delivered'[d] = delivered[d]
    <3>1. \E new : delivered' = [delivered EXCEPT ![s] = new]
      BY <1>1, <2>2 DEF Write, Arrives
    <3> QED
      BY <1>0, <1>2, <3>1 DEF BleTyped, DeliveredTyped
  <2>3. ASSUME NEW c \in Caller, BleStep(d, c)
        PROVE  UNCHANGED delivered \/ Write(d, c)
    BY <2>3, Zenon
    DEF BleStep, sendBle, ConnectedToDevice, ConnectRejects, Monitor,
        WriteChunk, WriteRejects, disconnect, Cancelled
  <2>4. LinkDrops(d) => UNCHANGED delivered
    BY DEF LinkDrops
  <2>5. delivered'[d] = delivered[d]
    BY <1>5, <2>2, <2>3, <2>4
  <2> QED
    BY <1>4, <2>1, <2>5 DEF UnderWay
<1>6. ASSUME LinkDrops(s) \/ UNCHANGED bleVars PROVE Goal
  <2>1. UNCHANGED <<delivered, sizes, call>>
    BY <1>6 DEF LinkDrops, bleVars
  <2> QED
    BY <1>4, <2>1 DEF UnderWay
<1>7. ASSUME NEW a \in Caller, NEW n \in Sizes, sendBle(s, a, n) PROVE Goal
  <2>1. /\ sizes' = [sizes EXCEPT ![s] = Append(sizes[s], n)] /\ UNCHANGED delivered
        /\ call'[s][a].message = Len(sizes'[s])
    BY <1>0, <1>2, <1>7 DEF sendBle, BleTyped, CallsTyped
  <2>2. sizes[s] \in Seq(Sizes) /\ sizes'[s] = Append(sizes[s], n)
    BY <1>0, <1>2, <2>1 DEF BleTyped, SizesTyped
  <2>3. /\ \A m \in DOMAIN sizes[s] : m \in DOMAIN sizes'[s] /\ sizes'[s][m] = sizes[s][m]
        /\ \A m \in DOMAIN sizes[s] : m < Len(sizes'[s])
    BY <2>2
  <2>4. \A c \in Caller : c = a
    BY DEF OneCaller
  <2>5. \A c \in Caller : \A m \in DOMAIN sizes[s] : m < call'[s][c].message
    BY <2>1, <2>3, <2>4
  <2> QED
    BY <1>1, <1>3, <2>1, <2>3, <2>5, NothingDelivered
<1>8. ASSUME NEW a \in Caller, BleStep(s, a), UNCHANGED sizes, delivered'[d] = delivered[d]
      PROVE  Goal
  <2>1. UnderWay(s, a)' => UnderWay(s, a) /\ call'[s][a].message = call[s][a].message
    <3>1. ~ \E n \in Sizes : sendBle(s, a, n)
      <4>1. ASSUME NEW n \in Sizes, sendBle(s, a, n) PROVE FALSE
        <5>1. sizes' = [sizes EXCEPT ![s] = Append(sizes[s], n)] /\ sizes[s] \in Seq(Sizes)
          BY <1>0, <1>2, <4>1 DEF sendBle, BleTyped, SizesTyped
        <5>2. Len(sizes'[s]) = Len(sizes[s]) + 1
          BY <1>0, <1>2, <5>1 DEF BleTyped, SizesTyped
        <5> QED
          BY <1>8, <5>1, <5>2
      <4> QED
        BY <4>1
    <3> QED
      BY <1>0, <1>2, <1>8, <3>1, OwnCall
  <2>2. \A c \in Caller : c = a
    BY DEF OneCaller
  <2> QED
    BY <1>4, <1>8, <2>1, <2>2
<1>9. ASSUME NEW a \in Caller, BleStep(s, a), At(s, a, "writing"), Write(s, a), UNCHANGED sizes,
             Frame(s, a).isLast => ~UnderWay(s, a)'
      PROVE  Goal
  <2>1. CASE delivered'[d] = delivered[d]
    BY <1>8, <1>9, <2>1
  <2>2. CASE /\ Frame(s, a).isLast
             /\ \E i \in DOMAIN reassembler[d] : \E x \in Delivery :
                  /\ delivered'[d] = Append(delivered[d], x)
                  /\ x.message = Joined(d, Frame(s, a), i) /\ x.spoilt = (i \in spoilt[d])
    <3>1. PICK i \in DOMAIN reassembler[d], x \in Delivery :
            /\ delivered'[d] = Append(delivered[d], x)
            /\ x.message = Joined(d, Frame(s, a), i) /\ x.spoilt = (i \in spoilt[d])
      BY <2>2
    <3>2. UnderWay(s, a) /\ call[s][a].message \in DOMAIN sizes[s]
      BY <1>0, <1>2, <1>9 DEF WithinMessage, UnderWay, At
    <3>3. ~x.spoilt => x.message = MessageBytes(s, call[s][a].message)
      <4>1. SUFFICES ASSUME ~x.spoilt PROVE x.message = MessageBytes(s, call[s][a].message)
        OBVIOUS
      <4>2. i \in DOMAIN reassembler[d] \ spoilt[d]
        BY <3>1, <4>1
      <4>3. ~(call[s][a].offset + payloadPerChunk < sizes[s][call[s][a].message])
        BY <1>0, <1>2, <1>9, <2>2, LastFrame
      <4>4. Joined(d, Frame(s, a), i) = MessageBytes(s, call[s][a].message)
        BY <1>0, <1>2, <1>9, <4>2, <4>3, JoinedIs, Zenon DEF BleInv
      <4> QED
        BY <3>1, <4>4
    <3>4. \A c \in Caller : ~UnderWay(s, c)'
      BY <1>9, <2>2 DEF OneCaller
    <3> QED
      BY <1>0, <1>1, <1>2, <1>3, <1>9, <3>1, <3>2, <3>3, <3>4, OneDelivered
  <2> QED
    BY <1>0, <1>2, <1>9, <2>1, <2>2, WriteDelivers DEF BleInv
<1>10. ASSUME NEW a \in Caller, WriteChunk(s, a) PROVE Goal
  <2>1. At(s, a, "writing") /\ Write(s, a) /\ UNCHANGED sizes
    BY <1>10 DEF WriteChunk
  <2>2. Frame(s, a).isLast => ~UnderWay(s, a)'
    <3>1. SUFFICES ASSUME Frame(s, a).isLast PROVE ~UnderWay(s, a)'
      OBVIOUS
    <3>2. ~(call[s][a].offset + payloadPerChunk < sizes[s][call[s][a].message])
      BY <1>0, <1>2, <2>1, <3>1, LastFrame
    <3>3. call' = [call EXCEPT ![s][a] = Idle]
      BY <1>10, <3>2 DEF WriteChunk
    <3> QED
      BY <1>0, <1>2, <3>3 DEF BleTyped, CallsTyped, UnderWay, Idle
  <2> QED
    BY <1>9, <1>10, <2>1, <2>2 DEF BleStep
<1>11. ASSUME NEW a \in Caller, WriteRejects(s, a) PROVE Goal
  <2>1. /\ At(s, a, "writing") /\ UNCHANGED sizes
        /\ Write(s, a) \/ UNCHANGED delivered
        /\ call' = [call EXCEPT ![s][a].step = "failed"]
    BY <1>11 DEF WriteRejects, Goto
  <2>2. ~UnderWay(s, a)'
    BY <1>0, <1>2, <2>1 DEF BleTyped, CallsTyped, CallRecord, UnderWay
  <2> QED
    BY <1>8, <1>9, <1>11, <2>1, <2>2 DEF BleStep
<1>12. ASSUME NEW a \in Caller,
              ConnectedToDevice(s, a) \/ ConnectRejects(s, a) \/ Monitor(s, a)
                \/ disconnect(s, a) \/ Cancelled(s, a)
       PROVE  Goal
  <2>1. UNCHANGED sizes /\ UNCHANGED delivered
    BY <1>12, Zenon DEF ConnectedToDevice, ConnectRejects, Monitor,
                        disconnect, Cancelled
  <2> QED
    BY <1>8, <1>12, <2>1 DEF BleStep
<1> HIDE DEF Goal
<1>13. ASSUME NEW a \in Caller, BleStep(s, a) PROVE Goal
  BY <1>7, <1>10, <1>11, <1>12, <1>13 DEF BleStep
<1>14. \A x \in Device : x = d \/ x = s
  <2>1. PICK a \in Device, b \in Device : Device = {a, b}
    BY DeviceAssumption
  <2> QED
    BY <1>2, <2>1
<1>15. Goal
  BY <1>5, <1>6, <1>13, <1>14, BleNextSteps
<1> QED
  BY <1>15 DEF Goal

LEMMA BleInvInit == BleInit => BleInv
<1> SUFFICES ASSUME BleInit PROVE BleInv
  OBVIOUS
<1>1. BleTypeInv
  BY BleTypeInit
<1>2. LastUnderWay /\ OneSubscription
  BY DEF BleInit, Idle, LastUnderWay, OneSubscription, UnderWay
<1>3. \A e \in Device : Other(e) \in Device
  BY Others
<1>4. Holds
  BY <1>3 DEF BleInit, Holds
<1>5. DeliveredSoFar
  <2> SUFFICES ASSUME NEW d \in Device
               PROVE  \E number \in [Clean(d) -> DOMAIN sizes[Other(d)]] : Numbered(d, number)
    BY DEF DeliveredSoFar
  <2>1. Clean(d) = {}
    BY DEF BleInit, Clean
  <2>2. PICK number : number = [k \in Clean(d) |-> 0]
    OBVIOUS
  <2>3. number \in [Clean(d) -> DOMAIN sizes[Other(d)]]
    BY <2>1, <2>2
  <2>4. Numbered(d, number)
    BY <2>1 DEF Numbered
  <2> QED
    BY <2>3, <2>4
<1> QED
  BY <1>1, <1>2, <1>4, <1>5 DEF BleInv

LEMMA BleInvNext == OneCaller /\ BleInv /\ [BleNext]_bleVars => BleInv'
<1> SUFFICES ASSUME OneCaller, BleInv, [BleNext]_bleVars PROVE BleInv'
  OBVIOUS
<1>1. BleTypeInv /\ LastUnderWay /\ OneSubscription /\ Holds
  BY DEF BleInv
<1> QED
  BY <1>1, BleTypeNext, LastUnderWayNext, OneSubscriptionNext, HoldsNext, DeliveredNext DEF BleInv

(* When each device has one caller at a time, what a reassembler delivers  *)
(* without having missed a part of it is a whole message, and these come   *)
(* in the order they were sent, each once: over any link that drops, for   *)
(* any MTU, any sizes and any number of messages and connections.          *)
THEOREM BleInOrder == OneCaller => (BleSpec => []WholeAndInOrder)
<1>1. OneCaller => OneCaller'
  BY DEF OneCaller
<1>2. BleInv => WholeAndInOrder
  <2> SUFFICES ASSUME BleInv, NEW d \in Device
               PROVE  \E number \in [Clean(d) -> DOMAIN sizes[Other(d)]] :
                        /\ \A k \in Clean(d) : delivered[d][k].message =
                                                 MessageBytes(Other(d), number[k])
                        /\ \A j, k \in Clean(d) : j < k => number[j] < number[k]
    BY Zenon DEF WholeAndInOrder, Clean
  <2>1. PICK number \in [Clean(d) -> DOMAIN sizes[Other(d)]] : Numbered(d, number)
    BY DEF BleInv, DeliveredSoFar
  <2> QED
    BY <2>1, Zenon DEF Numbered
<1> QED
  BY <1>1, <1>2, BleInvInit, BleInvNext, PTL DEF BleSpec
=============================================================================
