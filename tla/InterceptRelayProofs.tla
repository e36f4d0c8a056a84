------------------------ MODULE InterceptRelayProofs ------------------------
(***************************************************************************)
(* Proofs about InterceptRelay, for any number of requests and hints, any  *)
(* body sizes and any limit.                                               *)
(***************************************************************************)
EXTENDS InterceptRelay, TLAPS, SequenceTheorems, WellFoundedInduction

\* The upstream has got no more requests than were read, and the one that is
\* being decided not yet.
WireInv ==
  /\ Len(received) <= round
  /\ \A i \in 1..Len(received) : received[i].id <= round
  /\ pc \in {"body", "gate", "write"} =>
       Len(received) < round /\ \A i \in 1..Len(received) : received[i].id < round
  /\ pc \in Busy => round >= 1
  /\ pc \in {"gate", "write"} => buffered <= request.size
  /\ pc = "reply" => response \in Responses /\ response.kind # "blocked"
  /\ \A i \in 1..Len(inbound) : inbound[i].kind # "blocked"

-----------------------------------------------------------------------------
(* Smallest elements.                                                      *)

LEMMA MinOfTwo ==
  ASSUME NEW a \in Nat, NEW b \in Nat
  PROVE  Min({a, b}) \in Nat /\ Min({a, b}) <= a /\ Min({a, b}) <= b
<1>1. \E x \in {a, b} : \A y \in {a, b} : x <= y
  <2>1. CASE a <= b
    BY <2>1
  <2>2. CASE ~(a <= b)
    <3>1. b <= a
      BY <2>2
    <3> QED
      BY <3>1
  <2> QED
    BY <2>1, <2>2
<1>2. Min({a, b}) \in {a, b} /\ \A y \in {a, b} : Min({a, b}) <= y
  BY <1>1 DEF Min
<1> QED
  BY <1>2

LEMMA LeastIsMin ==
  ASSUME NEW T \in SUBSET Nat, T # {}
  PROVE  Min(T) \in T /\ \A y \in T : Min(T) <= y
<1> DEFINE R == {ss \in Nat \X Nat : ss[1] < ss[2]}
<1>1. IsWellFoundedOn(R, Nat)
  BY NatLessThanWellFounded, Zenon DEF OpToRel
<1> HIDE DEF R
<1>2. PICK x \in T : \A y \in T : ~(<<y, x>> \in R)
  BY <1>1, WFMin
<1>3. ASSUME NEW y \in T
      PROVE  x <= y
  <2>1. ~(y < x)
    BY <1>2 DEF R
  <2> QED
    BY <2>1
<1> QED
  BY <1>3 DEF Min

LEMMA FirstUnanswered ==
  ASSUME TypeOK, Unanswered # {}
  PROVE  /\ Min(Unanswered) \in 1..Len(received)
         /\ received[Min(Unanswered)].complete
         /\ answered < Min(Unanswered)
         /\ \A i \in Unanswered : Min(Unanswered) <= i
<1>1. Unanswered \in SUBSET Nat
  BY DEF Unanswered, TypeOK
<1>2. Min(Unanswered) \in Unanswered /\ \A i \in Unanswered : Min(Unanswered) <= i
  BY <1>1, LeastIsMin
<1> QED
  BY <1>2 DEF Unanswered

-----------------------------------------------------------------------------
(* Types.                                                                  *)

LEMMA UploadIds == \A u \in Upload : u.id \in Ids /\ u.id \in Nat
  BY RelayAssumption DEF Upload, Ids, RelayAssumption

LEMMA InitTyped == Init => TypeOK /\ WireInv
<1> SUFFICES ASSUME Init PROVE TypeOK /\ WireInv
  OBVIOUS
<1>1. request \in Shapes
  <2>1. \E s \in Shapes : TRUE
    <3>1. PICK n \in Sizes : TRUE
      BY RelayAssumption DEF RelayAssumption
    <3>2. [framing |-> "length", size |-> n, close |-> TRUE] \in Shapes
      BY DEF Shapes
    <3> QED
      BY <3>2
  <2> QED
    BY <2>1 DEF Init
<1>2. MaxRequests \in Nat /\ MaxBody \in Nat
  BY RelayAssumption DEF RelayAssumption
<1>3. TypeOK
  <2>1. /\ pc \in Places /\ round \in 0..MaxRequests /\ buffered \in 0..MaxBody
        /\ error \in BOOLEAN /\ {client, upstream} \subseteq {"up", "silent", "gone"}
        /\ answered \in 0..MaxRequests
    <3>1. error = FALSE /\ client = "up" /\ upstream = "up"
      BY DEF Init
    <3>2. error \in BOOLEAN /\ {client, upstream} \subseteq {"up", "silent", "gone"}
      BY <3>1, Zenon
    <3>3. pc = "connect" /\ round = 0 /\ buffered = 0 /\ answered = 0
      BY DEF Init
    <3>4. 0 \in 0..MaxRequests /\ 0 \in 0..MaxBody
      BY <1>2
    <3> QED
      BY <3>2, <3>3, <3>4, Zenon DEF Places
  <2>2. /\ response = [to |-> 0, kind |-> "final"] /\ exchanges = <<>> /\ logged = <<>>
        /\ received = <<>> /\ inbound = <<>> /\ delivered = <<>>
    BY DEF Init
  <2> QED
    BY <1>1, <2>1, <2>2 DEF TypeOK
<1>4. WireInv
  BY DEF Init, WireInv, Busy
<1> QED
  BY <1>3, <1>4

\* The handler up to the first request, and its end.
LEMMA ConnectionTyped ==
  ASSUME TypeOK, WireInv,
         ReadConnect \/ Dial \/ ClientHandshake \/ UpstreamHandshake \/ ReadFails \/ FinishAndLog
  PROVE  TypeOK' /\ WireInv'
<1>1. UNCHANGED <<round, request, buffered, response, exchanges, peerVars, wireVars>>
  BY DEF ReadConnect, Dial, ClientHandshake, UpstreamHandshake, Handshake, ReadFails,
         FinishAndLog, Return, sessionVars
<1>2. pc' \in Places /\ pc' \notin Busy /\ pc' \notin {"body", "gate", "write", "reply"}
  BY DEF ReadConnect, Dial, ClientHandshake, UpstreamHandshake, Handshake, ReadFails,
         FinishAndLog, Return, Places, Busy
<1>3. error' \in BOOLEAN
  BY DEF ReadConnect, Dial, ClientHandshake, UpstreamHandshake, Handshake, ReadFails,
         FinishAndLog, Return, sessionVars, TypeOK
<1>4. logged' \in Seq(Session)
  <2>1. [exchanges |-> exchanges, error |-> TRUE] \in Session
    BY DEF TypeOK, Session
  <2>2. [exchanges |-> exchanges, error |-> error] \in Session
    BY DEF TypeOK, Session
  <2> QED
    <3>1. \/ logged' = logged
          \/ logged' = Append(logged, [exchanges |-> exchanges, error |-> TRUE])
          \/ logged' = Append(logged, [exchanges |-> exchanges, error |-> error])
      BY DEF ReadConnect, Dial, ClientHandshake, UpstreamHandshake, Handshake,
             ReadFails, FinishAndLog, Return, sessionVars, Log
    <3>2. logged' = logged \/ \E sess \in Session : logged' = Append(logged, sess)
      BY <2>1, <2>2, <3>1, Zenon
    <3>3. logged \in Seq(Session)
      BY DEF TypeOK
    <3> QED
      BY <3>2, <3>3
<1> QED
  BY <1>1, <1>2, <1>3, <1>4 DEF TypeOK, WireInv, peerVars, wireVars

\* A request up to the decision.
LEMMA RequestTyped ==
  ASSUME TypeOK, WireInv, ReadRequest \/ BufferBody \/ Blocks \/ Allows
  PROVE  TypeOK' /\ WireInv'
<1>0. MaxRequests \in Nat /\ MaxBody \in Nat /\ Sizes \subseteq Nat
  BY RelayAssumption DEF RelayAssumption
<1>1. CASE ReadRequest
  <2>1. /\ round' = round + 1 /\ round' \in 0..MaxRequests /\ request' \in Shapes /\ pc' = "body"
        /\ UNCHANGED <<buffered, response, sessionVars, peerVars, wireVars>>
    BY <1>0, <1>1 DEF ReadRequest, TypeOK
  <2>2. TypeOK'
    BY <2>1 DEF TypeOK, sessionVars, peerVars, wireVars, Places
  <2>3. \A i \in 1..Len(received) : received[i].id \in Nat
    BY UploadIds DEF TypeOK
  <2>4. round \in Nat /\ Len(received) \in Nat
    BY DEF TypeOK
  <2> QED
    BY <2>1, <2>2, <2>3, <2>4 DEF WireInv, wireVars, Busy
<1>2. CASE BufferBody
  <2>1. request.size \in Nat
    BY <1>0 DEF TypeOK, Shapes
  <2>2. buffered' \in 0..Min({request.size, MaxBody})
    <3>1. Min({request.size, MaxBody}) \in Nat
      BY <1>0, <2>1, MinOfTwo
    <3> QED
      BY <1>2, <3>1 DEF BufferBody
  <2>3. buffered' \in 0..MaxBody /\ buffered' <= request.size
    BY <1>0, <2>1, <2>2, MinOfTwo
  <2>4. /\ pc = "body" /\ pc' = "gate"
        /\ UNCHANGED <<round, request, response, sessionVars, peerVars, wireVars>>
    BY <1>2 DEF BufferBody
  <2> QED
    BY <2>3, <2>4 DEF TypeOK, WireInv, sessionVars, peerVars, wireVars, Places, Busy
<1>3. CASE Blocks
  <2>1. pc = "gate" /\ round \in Ids
    BY <1>0, <1>3 DEF Blocks, TypeOK, WireInv, Ids, Busy
  <2>2. [to |-> round, kind |-> "blocked"] \in Responses
    BY <2>1 DEF Responses, Kinds
  <2>3. /\ delivered' \in Seq(Responses)
        /\ exchanges' \in Seq(Exchange)
    <3>1. [id |-> round, response |-> [to |-> round, kind |-> "blocked"]] \in Exchange
      BY <2>1, <2>2 DEF Exchange
    <3> QED
      BY <1>3, <2>2, <3>1 DEF Blocks, TypeOK
  <2>4. /\ pc' = "finish" /\ error' = FALSE
        /\ UNCHANGED <<round, request, buffered, response, logged, peerVars, received, inbound>>
    BY <1>3 DEF Blocks, Return
  <2> QED
    BY <2>3, <2>4 DEF TypeOK, WireInv, peerVars, Places, Busy
<1>4. CASE Allows
  <2>1. /\ pc = "gate" /\ pc' = "write"
        /\ UNCHANGED <<round, request, buffered, response, sessionVars, peerVars, wireVars>>
    BY <1>4 DEF Allows
  <2> QED
    BY <2>1 DEF TypeOK, WireInv, sessionVars, peerVars, wireVars, Places, Busy
<1> QED
  BY <1>1, <1>2, <1>3, <1>4

\* What WriteUpstream sends, and where it leaves the handler.
LEMMA WriteEffect ==
  ASSUME TypeOK, WireInv, WriteUpstream
  PROVE  \E sent \in Upload :
           /\ received' = Append(received, sent)
           /\ sent.id = round /\ sent.parts = buffered /\ sent.shape = request
           /\ sent.aborted = Aborted(request, buffered)
           /\ sent.complete => upstream # "gone" /\ pc' = "response"
           /\ sent.complete /\ request.framing = "length" => buffered >= request.size
           /\ pc = "write"
           /\ \/ pc' = "response" /\ error' = error
              \/ pc' = "finish" /\ error' = TRUE
           /\ UNCHANGED <<round, request, buffered, response, exchanges, logged, peerVars, inbound, delivered>>
<1> DEFINE short == request.framing = "length" /\ buffered < request.size
           sent == [id |-> round, shape |-> request, parts |-> buffered,
                    aborted |-> Aborted(request, buffered),
                    complete |-> ~short /\ upstream # "gone"]
<1>1. /\ pc = "write" /\ received' = Append(received, sent)
      /\ \E err \in IF short THEN {TRUE} ELSE IF upstream = "gone" THEN BOOLEAN ELSE {FALSE} :
           IF err THEN Return(TRUE) ELSE pc' = "response" /\ error' = error
      /\ UNCHANGED <<round, request, buffered, response, exchanges, logged, peerVars, inbound, delivered>>
  BY DEF WriteUpstream
<1>2. \/ pc' = "response" /\ error' = error
      \/ pc' = "finish" /\ error' = TRUE
  BY <1>1 DEF Return
<1>3. round \in Ids /\ buffered \in 0..MaxBody /\ request \in Shapes /\ request.size \in Nat
  <2>1. pc \in Busy
    BY DEF WriteUpstream, Busy
  <2>2. round >= 1 /\ round \in 0..MaxRequests /\ buffered \in 0..MaxBody /\ request \in Shapes
    BY <2>1 DEF TypeOK, WireInv
  <2>3. request.size \in Nat
    BY <2>2, RelayAssumption DEF Shapes, RelayAssumption
  <2> QED
    BY <2>2, <2>3, RelayAssumption DEF Ids, RelayAssumption
<1>4. sent.complete = (~short /\ upstream # "gone") /\ sent.id = round /\ sent.parts = buffered
      /\ sent.shape = request
      /\ sent.aborted = Aborted(request, buffered)
  BY Zenon
<1>5. sent \in Upload
  <2>1. Aborted(request, buffered) \in BOOLEAN
    BY Zenon DEF Aborted
  <2> QED
    BY <1>3, <2>1, Zenon DEF Upload
<1>6. ~short /\ upstream # "gone" => pc' = "response"
  BY <1>1, <1>2
<1>7. ~short /\ request.framing = "length" => buffered >= request.size
  BY <1>3 DEF Shapes
<1> HIDE DEF sent
<1> QED
  BY <1>1, <1>2, <1>4, <1>5, <1>6, <1>7

\* A request on its way, and its response.
LEMMA RelayTyped ==
  ASSUME TypeOK, WireInv,
         WriteUpstream \/ ReadResponse \/ ReadResponseFails \/ Reply \/ ReplyFails
  PROVE  TypeOK' /\ WireInv'
<1>1. CASE WriteUpstream
  <2>1. PICK sent \in Upload :
          /\ received' = Append(received, sent) /\ sent.id = round
          /\ pc = "write"
          /\ pc' \in {"response", "finish"} /\ error' \in BOOLEAN
          /\ UNCHANGED <<round, request, buffered, response, exchanges, logged, peerVars, inbound, delivered>>
    BY <1>1, WriteEffect DEF TypeOK
  <2>2. TypeOK'
    <3>1. received' \in Seq(Upload)
      BY <2>1 DEF TypeOK
    <3>2. pc' \in Places
      BY <2>1 DEF Places
    <3> QED
      BY <2>1, <3>1, <3>2 DEF TypeOK, peerVars
  <2>3. /\ Len(received') = Len(received) + 1 /\ Len(received) \in Nat
        /\ \A i \in 1..Len(received) : received'[i] = received[i] /\ received[i].id \in Nat
        /\ received'[Len(received) + 1] = sent
        /\ round \in Nat
    BY <2>1, UploadIds DEF TypeOK
  <2>4. Len(received) < round /\ \A i \in 1..Len(received) : received[i].id < round
    BY <2>1 DEF WireInv
  <2>5. Len(received') <= round /\ \A i \in 1..Len(received') : received'[i].id <= round
    BY <2>1, <2>3, <2>4
  <2> QED
    BY <2>1, <2>2, <2>5 DEF WireInv, Busy
<1>2. CASE ReadResponse
  <2>1. /\ pc = "response" /\ pc' = "reply" /\ inbound # <<>> /\ response' = Head(inbound)
        /\ UNCHANGED <<round, request, buffered, sessionVars, peerVars, received, delivered>>
    BY <1>2 DEF ReadResponse
  <2>2. PICK n \in 1..Len(inbound) : inbound' = SubSeq(inbound, n + 1, Len(inbound))
    BY <1>2 DEF ReadResponse
  <2>3. /\ inbound' \in Seq(Responses)
        /\ \A i \in 1..Len(inbound') : \E j \in 1..Len(inbound) : inbound'[i] = inbound[j]
    <3>1. inbound \in Seq(Responses) /\ Len(inbound) \in Nat
      BY DEF TypeOK
    <3>2. \A i \in (n + 1)..Len(inbound) : inbound[i] \in Responses
      BY <3>1
    <3>3. /\ inbound' \in Seq(Responses)
          /\ Len(inbound') = IF n + 1 <= Len(inbound) THEN Len(inbound) - (n + 1) + 1 ELSE 0
          /\ \A i \in 1..(Len(inbound) - (n + 1) + 1) : inbound'[i] = inbound[(n + 1) + i - 1]
      BY <2>2, <3>1, <3>2, SubSeqProperties
    <3>4. ASSUME NEW i \in 1..Len(inbound')
          PROVE  (n + 1) + i - 1 \in 1..Len(inbound) /\ inbound'[i] = inbound[(n + 1) + i - 1]
      BY <3>1, <3>3
    <3> QED
      BY <3>3, <3>4
  <2>4. response' \in Responses /\ response' = inbound[1] /\ 1 \in 1..Len(inbound)
    BY <2>1 DEF TypeOK
  <2>5. TypeOK'
    BY <2>1, <2>3, <2>4 DEF TypeOK, sessionVars, peerVars, Places
  <2>6. WireInv'
    BY <2>1, <2>3, <2>4 DEF WireInv, Busy
  <2> QED
    BY <2>5, <2>6
<1>3. CASE Reply
  <2>1. /\ pc = "reply" /\ pc' \in {"finish", "read"} /\ error' \in BOOLEAN
        /\ UNCHANGED <<round, request, buffered, response, logged, peerVars, received, inbound>>
    BY <1>3 DEF Reply, Return, TypeOK
  <2>2. response \in Responses /\ round \in Ids
    BY <2>1, RelayAssumption DEF WireInv, TypeOK, Ids, Busy, RelayAssumption
  <2>3. /\ delivered' \in Seq(Responses)
        /\ exchanges' \in Seq(Exchange)
    <3>1. [id |-> round, response |-> response] \in Exchange
      BY <2>2 DEF Exchange
    <3> QED
      BY <1>3, <2>2, <3>1 DEF Reply, TypeOK
  <2> QED
    BY <2>1, <2>3 DEF TypeOK, WireInv, peerVars, Places, Busy
<1>4. CASE ReadResponseFails \/ ReplyFails
  <2>1. /\ pc' = "finish" /\ error' = TRUE
        /\ UNCHANGED <<round, request, buffered, response, exchanges, logged, peerVars, wireVars>>
    BY <1>4 DEF ReadResponseFails, ReplyFails, Return
  <2> QED
    BY <2>1 DEF TypeOK, WireInv, peerVars, wireVars, Places, Busy
<1> QED
  BY <1>1, <1>2, <1>3, <1>4

\* The two peers.
LEMMA PeersTyped ==
  ASSUME TypeOK, WireInv, Peers
  PROVE  TypeOK' /\ WireInv'
<1>1. CASE ClientFallsSilent \/ UpstreamFallsSilent \/ ClientGoes \/ UpstreamGoes
  <2>1. /\ {client', upstream'} \subseteq {"up", "silent", "gone"}
        /\ UNCHANGED <<proxyVars, sessionVars, answered, wireVars>>
    BY <1>1 DEF ClientFallsSilent, UpstreamFallsSilent, ClientGoes, UpstreamGoes, TypeOK
  <2> QED
    BY <2>1 DEF TypeOK, WireInv, proxyVars, sessionVars, wireVars
<1>2. CASE UpstreamHints \/ UpstreamAnswers
  <2>1. Unanswered # {} /\ UNCHANGED <<proxyVars, sessionVars, client, upstream, received, delivered>>
    BY <1>2 DEF UpstreamHints, UpstreamAnswers, peerVars
  <2>2. PICK first \in 1..Len(received) : first = Min(Unanswered)
    BY <2>1, FirstUnanswered
  <2>3. received[first].id \in Ids /\ first \in 0..MaxRequests
    <3>1. received[first] \in Upload /\ first <= round /\ first \in Nat
          /\ round \in Nat /\ round <= MaxRequests
      BY RelayAssumption DEF TypeOK, WireInv, RelayAssumption
    <3> QED
      BY <3>1, RelayAssumption, UploadIds DEF RelayAssumption
  <2>4. answered' \in 0..MaxRequests
    BY <1>2, <2>2, <2>3 DEF UpstreamHints, UpstreamAnswers, peerVars, TypeOK
  <2>5. PICK kind \in {"interim", "final", "last"} :
          inbound' = Append(inbound, [to |-> received[first].id, kind |-> kind])
    BY <1>2, <2>2 DEF UpstreamHints, UpstreamAnswers
  <2>6. [to |-> received[first].id, kind |-> kind] \in Responses
    BY <2>3 DEF Responses, Kinds
  <2>7. /\ inbound' \in Seq(Responses)
        /\ \A i \in 1..Len(inbound') : inbound'[i].kind # "blocked"
    BY <2>5, <2>6 DEF TypeOK, WireInv
  <2> QED
    BY <2>1, <2>4, <2>7 DEF TypeOK, WireInv, proxyVars, sessionVars
<1> QED
  BY <1>1, <1>2 DEF Peers

LEMMA NextTyped == TypeOK /\ WireInv /\ [Next]_vars => (TypeOK /\ WireInv)'
<1>1. ASSUME TypeOK, WireInv, UNCHANGED vars
      PROVE  TypeOK' /\ WireInv'
  BY <1>1 DEF vars, proxyVars, sessionVars, peerVars, wireVars, TypeOK, WireInv
<1> QED
  BY <1>1, ConnectionTyped, RequestTyped, RelayTyped, PeersTyped DEF Next, Proxy

\* Every reachable state is well typed, and the upstream never has more than
\* the requests that were read and allowed.
THEOREM TypeCorrect == Spec => [](TypeOK /\ WireInv)
  BY InitTyped, NextTyped, PTL DEF Spec

-----------------------------------------------------------------------------
(* The record of the session.                                              *)

\* what is recorded at each place, and when it is logged
RecordInv ==
  /\ \A i \in 1..Len(exchanges) : exchanges[i].id = i
  /\ Len(exchanges) \in {round, round - 1}
  /\ pc \in Busy => Len(exchanges) = round - 1
  /\ pc \notin Busy /\ ~error => Len(exchanges) = round
  /\ pc \notin {"finish", "done"} => ~error

LEMMA SequenceFacts ==
  ASSUME TypeOK
  PROVE  /\ round \in Nat /\ answered \in Nat
         /\ exchanges \in Seq(Exchange) /\ Len(exchanges) \in Nat
         /\ received \in Seq(Upload) /\ Len(received) \in Nat
         /\ inbound \in Seq(Responses) /\ Len(inbound) \in Nat
         /\ logged \in Seq(Session) /\ Len(logged) \in Nat
         /\ error \in BOOLEAN
  BY DEF TypeOK

\* The steps that record nothing, read nothing and end no exchange.
LEMMA QuietSteps ==
  ASSUME [Next]_vars
  PROVE  \/ ReadRequest \/ Blocks \/ Reply
         \/ /\ UNCHANGED <<round, exchanges>>
            /\ \/ pc' = pc /\ error' = error
               \/ pc \in Busy /\ pc' \in Busy /\ error' = error
               \/ pc \notin Busy \cup {"finish", "done"} /\ pc' \notin Busy \cup {"finish", "done"} /\ error' = error
               \/ pc \notin {"finish", "done"} /\ pc' \in {"finish", "done"} /\ error' = TRUE
               \/ pc = "read" /\ pc' = "finish" /\ error' \in BOOLEAN
               \/ pc = "finish" /\ pc' = "done" /\ error' = error
<1> DEFINE Goal ==
      /\ UNCHANGED <<round, exchanges>>
      /\ \/ pc' = pc /\ error' = error
         \/ pc \in Busy /\ pc' \in Busy /\ error' = error
         \/ pc \notin Busy \cup {"finish", "done"} /\ pc' \notin Busy \cup {"finish", "done"} /\ error' = error
         \/ pc \notin {"finish", "done"} /\ pc' \in {"finish", "done"} /\ error' = TRUE
         \/ pc = "read" /\ pc' = "finish" /\ error' \in BOOLEAN
         \/ pc = "finish" /\ pc' = "done" /\ error' = error
<1>1. ASSUME ReadConnect \/ Dial \/ ClientHandshake \/ UpstreamHandshake \/ ReadFails \/ FinishAndLog
      PROVE  Goal
  BY <1>1 DEF ReadConnect, Dial, ClientHandshake, UpstreamHandshake, Handshake, ReadFails,
              FinishAndLog, Return, sessionVars, Busy
<1>2. ASSUME BufferBody \/ Allows \/ WriteUpstream \/ ReadResponse \/ ReadResponseFails \/ ReplyFails
      PROVE  Goal
  <2>1. CASE WriteUpstream
    <3>1. /\ pc = "write" /\ UNCHANGED <<round, exchanges>>
          /\ \/ pc' = "response" /\ error' = error
             \/ pc' = "finish" /\ error' = TRUE
      BY <2>1 DEF WriteUpstream, Return
    <3> QED
      BY <3>1 DEF Busy
  <2> QED
    BY <1>2, <2>1 DEF BufferBody, Allows, ReadResponse, ReadResponseFails, ReplyFails, Return,
                      sessionVars, Busy
<1>3. ASSUME Peers \/ UNCHANGED vars
      PROVE  Goal
  BY <1>3 DEF Peers, ClientFallsSilent, UpstreamFallsSilent, ClientGoes, UpstreamGoes,
              UpstreamHints, UpstreamAnswers, vars, proxyVars,
              sessionVars
<1> QED
  BY <1>1, <1>2, <1>3 DEF Next, Proxy

LEMMA NextKeepsRecord == TypeOK /\ RecordInv /\ [Next]_vars => RecordInv'
<1> SUFFICES ASSUME TypeOK, RecordInv, [Next]_vars
             PROVE  RecordInv'
  OBVIOUS
<1>0. round \in Nat /\ exchanges \in Seq(Exchange) /\ Len(exchanges) \in Nat /\ error \in BOOLEAN
  BY SequenceFacts
<1>1. CASE ReadRequest
  <2>1. /\ pc = "read" /\ round' = round + 1 /\ pc' = "body" /\ UNCHANGED <<exchanges, error>>
    BY <1>1 DEF ReadRequest, sessionVars
  <2> QED
    BY <1>0, <2>1 DEF RecordInv, Busy
<1>2. CASE Blocks \/ Reply
  <2>1. PICK r : exchanges' = Append(exchanges, [id |-> round, response |-> r])
    BY <1>2 DEF Blocks, Reply
  <2>2. /\ pc \in Busy /\ pc' \in {"finish", "read"} /\ round' = round
    BY <1>2 DEF Blocks, Reply, Return, Busy
  <2>3. Len(exchanges) = round - 1 /\ ~error /\ ~error'
    <3>1. Len(exchanges) = round - 1 /\ ~error
      BY <2>2 DEF RecordInv, Busy
    <3> QED
      BY <1>2, <3>1 DEF Blocks, Reply, Return
  <2>4. /\ Len(exchanges') = round'
        /\ \A i \in 1..Len(exchanges') : exchanges'[i].id = i
    <3>1. /\ Len(exchanges') = Len(exchanges) + 1
          /\ \A i \in 1..Len(exchanges) : exchanges'[i] = exchanges[i]
          /\ exchanges'[Len(exchanges) + 1] = [id |-> round, response |-> r]
      BY <1>0, <2>1
    <3>2. exchanges'[Len(exchanges) + 1].id = round
      BY <3>1
    <3>3. \A i \in 1..Len(exchanges) : exchanges'[i].id = i
      BY <3>1 DEF RecordInv
    <3>4. Len(exchanges) + 1 = round
      BY <1>0, <2>3
    <3> HIDE <2>1
    <3> QED
      BY <1>0, <2>2, <3>1, <3>2, <3>3, <3>4
  <2> QED
    BY <1>0, <2>2, <2>3, <2>4 DEF RecordInv, Busy
<1>3. CASE ~(ReadRequest \/ Blocks \/ Reply)
  <2>1. /\ UNCHANGED <<round, exchanges>>
        /\ \/ pc' = pc /\ error' = error
           \/ pc \in Busy /\ pc' \in Busy /\ error' = error
           \/ pc \notin Busy \cup {"finish", "done"} /\ pc' \notin Busy \cup {"finish", "done"} /\ error' = error
           \/ pc \notin {"finish", "done"} /\ pc' \in {"finish", "done"} /\ error' = TRUE
           \/ pc = "read" /\ pc' = "finish" /\ error' \in BOOLEAN
           \/ pc = "finish" /\ pc' = "done" /\ error' = error
    BY <1>3, QuietSteps
  <2> QED
    BY <1>0, <2>1 DEF RecordInv, Busy
<1> QED
  BY <1>1, <1>2, <1>3

LEMMA NextKeepsLogged == LoggedOnce /\ [Next]_vars /\ TypeOK => LoggedOnce'
<1> SUFFICES ASSUME LoggedOnce, [Next]_vars, TypeOK
             PROVE  LoggedOnce'
  OBVIOUS
<1>0. logged \in Seq(Session) /\ Len(logged) = IF pc = "done" THEN 1 ELSE 0
  BY SequenceFacts DEF LoggedOnce
<1>1. CASE Dial \/ FinishAndLog
  <2>1. pc # "done"
    BY <1>1 DEF Dial, FinishAndLog
  <2>2. CASE pc' = "done"
    <3>1. logged' = Append(logged, [exchanges |-> exchanges', error |-> error'])
      <4>1. logged' = Append(logged, [exchanges |-> exchanges, error |-> error'])
        BY <1>1, <2>2, Zenon DEF Dial, FinishAndLog, Log
      <4>2. exchanges' = exchanges
        BY <1>1 DEF Dial, FinishAndLog, sessionVars
      <4> QED
        BY <4>1, <4>2
    <3> DEFINE sess == [exchanges |-> exchanges', error |-> error']
    <3>2. logged' = Append(logged, sess)
      BY <3>1
    <3> HIDE DEF sess
    <3>3. Len(logged') = 1 /\ logged'[1] = sess
      BY <1>0, <2>1, <3>2
    <3> QED
      BY <2>2, <3>3 DEF LoggedOnce, sess
  <2>3. CASE pc' # "done"
    <3>1. UNCHANGED logged
      BY <1>1, <2>3 DEF Dial, FinishAndLog, sessionVars
    <3> QED
      BY <1>0, <2>1, <2>3, <3>1 DEF LoggedOnce
  <2> QED
    BY <2>2, <2>3
<1>2. CASE ~(Dial \/ FinishAndLog)
  <2>1. /\ UNCHANGED logged
        /\ \/ UNCHANGED <<pc, exchanges, error>>
           \/ pc # "done" /\ pc' # "done"
    <3>1. CASE ReadConnect \/ ClientHandshake \/ UpstreamHandshake \/ ReadFails \/ ReadRequest
               \/ BufferBody \/ Blocks \/ Allows
      BY <3>1 DEF ReadConnect, ClientHandshake, UpstreamHandshake, Handshake, ReadFails, Return,
                  ReadRequest, BufferBody, Blocks, Allows, sessionVars
    <3>2. CASE WriteUpstream
      BY <3>2 DEF WriteUpstream, Return
    <3>3. CASE ReadResponse \/ ReadResponseFails \/ Reply \/ ReplyFails
      BY <3>3 DEF ReadResponse, ReadResponseFails, Reply, ReplyFails, Return, sessionVars
    <3>4. CASE Peers \/ UNCHANGED vars
      BY <3>4 DEF Peers, ClientFallsSilent, UpstreamFallsSilent, ClientGoes, UpstreamGoes,
              UpstreamHints, UpstreamAnswers, vars, proxyVars,
                  sessionVars
    <3> QED
      BY <1>2, <3>1, <3>2, <3>3, <3>4 DEF Next, Proxy
  <2> QED
    BY <1>0, <2>1 DEF LoggedOnce
<1> QED
  BY <1>1, <1>2

\* Every connection that got as far as a session is logged, exactly once, when
\* it is over and with everything that was recorded (proxy.go:163-187).
THEOREM SessionIsLoggedOnce == Spec => []LoggedOnce
<1>1. Init => LoggedOnce
  BY DEF Init, LoggedOnce
<1>2. LoggedOnce /\ [Next]_vars /\ TypeOK => LoggedOnce'
  BY NextKeepsLogged
<1> QED
  BY <1>1, <1>2, TypeCorrect, PTL DEF Spec

\* The record of a session has the requests in the order they were read, each
\* once, and misses at most the last one; a session logged without an error
\* misses none (intercept.go:79-83, 283-319, proxy.go:181-187).
THEOREM RecordIsComplete == Spec => []RecordHasNoHoles
<1>1. Init => RecordInv
  BY DEF Init, RecordInv, Busy
<1>2. TypeOK /\ RecordInv /\ [Next]_vars => RecordInv'
  BY NextKeepsRecord
<1>3. TypeOK /\ RecordInv /\ LoggedOnce => RecordHasNoHoles
  <2> SUFFICES ASSUME TypeOK, RecordInv, LoggedOnce PROVE RecordHasNoHoles
    OBVIOUS
  <2>1. \A k \in 1..Len(logged) : pc = "done" /\ logged[k].error = error /\ logged[k].exchanges = exchanges
    BY SequenceFacts DEF LoggedOnce
  <2> QED
    BY <2>1 DEF RecordInv, RecordHasNoHoles, Busy
<1> QED
  BY <1>1, <1>2, <1>3, SessionIsLoggedOnce, TypeCorrect, PTL DEF Spec

-----------------------------------------------------------------------------
(* A refusal.                                                              *)

\* The steps once the relay loop has ended.
LEMMA AfterTheEnd ==
  ASSUME pc \in {"finish", "done"}, [Next]_vars
  PROVE  pc' \in {"finish", "done"} /\ UNCHANGED <<round, exchanges, received>>
<1>1. CASE FinishAndLog
  BY <1>1 DEF FinishAndLog, wireVars
<1>2. CASE Peers \/ UNCHANGED vars
  BY <1>2 DEF Peers, ClientFallsSilent, UpstreamFallsSilent, ClientGoes, UpstreamGoes,
              UpstreamHints, UpstreamAnswers, vars, proxyVars,
              sessionVars, wireVars
<1>3. ~(Proxy /\ ~FinishAndLog)
  BY DEF Proxy, ReadConnect, Dial, ClientHandshake, UpstreamHandshake, Handshake, ReadFails,
         ReadRequest, BufferBody, Blocks, Allows, WriteUpstream, ReadResponse, ReadResponseFails,
         Reply, ReplyFails
<1> QED
  BY <1>1, <1>2, <1>3 DEF Next

LEMMA NextKeepsBlocks == TypeOK /\ WireInv /\ BlockIsFinal /\ [Next]_vars => BlockIsFinal'
<1> SUFFICES ASSUME TypeOK, WireInv, BlockIsFinal, [Next]_vars
             PROVE  BlockIsFinal'
  OBVIOUS
<1>0. exchanges \in Seq(Exchange) /\ Len(exchanges) \in Nat /\ Len(received) \in Nat
      /\ round \in Nat
  BY SequenceFacts
<1>1. CASE pc \in {"finish", "done"}
  BY <1>1, AfterTheEnd DEF BlockIsFinal
<1>2. CASE pc \notin {"finish", "done"}
  <2>1. \A i \in 1..Len(exchanges) : exchanges[i].response.kind # "blocked"
    BY <1>2 DEF BlockIsFinal
  <2>2. CASE Blocks
    <3> DEFINE refusal == [to |-> round, kind |-> "blocked"]
    <3>1. /\ exchanges' = Append(exchanges, [id |-> round, response |-> refusal])
          /\ pc = "gate" /\ pc' = "finish" /\ UNCHANGED <<round, received>>
      BY <2>2 DEF Blocks, Return
    <3> HIDE DEF refusal
    <3>2. /\ Len(exchanges') = Len(exchanges) + 1
          /\ \A i \in 1..Len(exchanges) : exchanges'[i] = exchanges[i]
          /\ exchanges'[Len(exchanges) + 1].id = round
      BY <1>0, <3>1
    <3>3. \A j \in 1..Len(received) : received[j].id # round
      <4>1. \A j \in 1..Len(received) : received[j].id < round /\ received[j].id \in Nat
        BY <3>1, SequenceFacts, UploadIds DEF WireInv
      <4> QED
        BY <1>0, <4>1
    <3> QED
      BY <1>0, <2>1, <3>1, <3>2, <3>3 DEF BlockIsFinal
  <2>3. CASE Reply
    <3>1. exchanges' = Append(exchanges, [id |-> round, response |-> response]) /\ pc = "reply"
      BY <2>3 DEF Reply
    <3>2. response.kind # "blocked"
      BY <3>1 DEF WireInv
    <3>3. /\ Len(exchanges') = Len(exchanges) + 1
          /\ \A i \in 1..Len(exchanges) : exchanges'[i] = exchanges[i]
          /\ exchanges'[Len(exchanges) + 1].response = response
      BY <1>0, <3>1
    <3>4. \A i \in 1..Len(exchanges') : exchanges'[i].response.kind # "blocked"
      BY <1>0, <2>1, <3>2, <3>3
    <3> QED
      BY <3>4 DEF BlockIsFinal
  <2>4. CASE ~(Blocks \/ Reply)
    <3>1. UNCHANGED exchanges
      BY <2>4, QuietSteps DEF ReadRequest, sessionVars
    <3> QED
      BY <2>1, <3>1 DEF BlockIsFinal
  <2> QED
    BY <2>2, <2>3, <2>4
<1> QED
  BY <1>1, <1>2

\* A blocked request never reaches the upstream, not even a part of it, nothing
\* is read after it, and it ends the record (intercept.go:125-267).
THEOREM BlockedForGood == Spec => []BlockIsFinal
<1>1. Init => BlockIsFinal
  BY DEF Init, BlockIsFinal
<1>2. TypeOK /\ WireInv /\ BlockIsFinal /\ [Next]_vars => BlockIsFinal'
  BY NextKeepsBlocks
<1> QED
  BY <1>1, <1>2, TypeCorrect, PTL DEF Spec

-----------------------------------------------------------------------------
(* A cut body.                                                             *)

\* The steps that send nothing.
LEMMA NothingSent ==
  ASSUME TypeOK, [Next]_vars
  PROVE  \/ WriteUpstream
         \/ ReadRequest /\ UNCHANGED received
         \/ BufferBody /\ UNCHANGED <<received, round>>
         \/ UNCHANGED <<received, round, buffered>>
<1>1. CASE ReadConnect \/ Dial \/ ClientHandshake \/ UpstreamHandshake \/ ReadFails \/ FinishAndLog
  BY <1>1 DEF ReadConnect, Dial, ClientHandshake, UpstreamHandshake, Handshake, ReadFails,
              FinishAndLog, wireVars
<1>2. CASE ReadRequest \/ BufferBody \/ Blocks \/ Allows \/ ReadResponse \/ ReadResponseFails
           \/ Reply \/ ReplyFails
  BY <1>2 DEF ReadRequest, BufferBody, Blocks, Allows, ReadResponse, ReadResponseFails, Reply,
              ReplyFails, wireVars
<1>3. CASE Peers \/ UNCHANGED vars
  BY <1>3 DEF Peers, ClientFallsSilent, UpstreamFallsSilent, ClientGoes, UpstreamGoes,
              UpstreamHints, UpstreamAnswers, vars, proxyVars,
              wireVars
<1> QED
  BY <1>1, <1>2, <1>3 DEF Next, Proxy

LEMMA NextKeepsCuts ==
  TypeOK /\ WireInv /\ CutIsNeverComplete /\ [Next]_vars => CutIsNeverComplete'
<1> SUFFICES ASSUME TypeOK, WireInv, CutIsNeverComplete, [Next]_vars
             PROVE  CutIsNeverComplete'
  OBVIOUS
<1>0. /\ received \in Seq(Upload) /\ Len(received) \in Nat /\ round \in Nat
      /\ \A i \in 1..Len(received) : received[i].id \in Nat
  BY SequenceFacts, UploadIds
<1>a. \A i \in 1..Len(received) :
        /\ received[i].complete /\ received[i].shape.framing = "length"
             => received[i].parts = received[i].shape.size
        /\ received[i].id = round => received[i].parts <= buffered
  BY DEF CutIsNeverComplete
<1>1. CASE WriteUpstream
  <2>1. PICK sent \in Upload :
           /\ received' = Append(received, sent)
           /\ sent.id = round /\ sent.parts = buffered /\ sent.shape = request
           /\ sent.complete /\ request.framing = "length" => buffered >= request.size
           /\ pc = "write" /\ UNCHANGED <<round, buffered>>
    BY <1>1, WriteEffect
  <2>2. buffered <= request.size /\ buffered \in Nat /\ request.size \in Nat
    <3>1. buffered \in 0..MaxBody /\ request \in Shapes /\ buffered <= request.size
      BY <2>1 DEF TypeOK, WireInv
    <3>2. request.size \in Nat
      BY <3>1, RelayAssumption DEF Shapes, RelayAssumption
    <3> QED
      BY <3>1, <3>2
  <2>3. /\ sent.complete /\ sent.shape.framing = "length" => sent.parts = sent.shape.size
        /\ sent.parts <= buffered
    BY <2>1, <2>2
  <2>4. /\ Len(received') = Len(received) + 1
        /\ \A i \in 1..Len(received) : received'[i] = received[i]
        /\ received'[Len(received) + 1] = sent
    BY <1>0, <2>1
  <2>5. \A i \in 1..Len(received') : i \in 1..Len(received) \/ i = Len(received) + 1
    BY <1>0, <2>4
  <2>6. UNCHANGED <<round, buffered>>
    BY <2>1
  <2> HIDE <2>1
  <2> QED
    BY <1>a, <2>3, <2>4, <2>5, <2>6 DEF CutIsNeverComplete
<1>2. CASE ReadRequest /\ UNCHANGED received
  <2>1. \A i \in 1..Len(received) : received[i].id # round'
    BY <1>0, <1>2 DEF ReadRequest, WireInv
  <2> QED
    BY <1>2, <1>a, <2>1 DEF CutIsNeverComplete
<1>3. CASE BufferBody /\ UNCHANGED <<received, round>>
  <2>1. \A i \in 1..Len(received) : received[i].id # round
    BY <1>0, <1>3 DEF BufferBody, WireInv
  <2> QED
    BY <1>3, <1>a, <2>1 DEF CutIsNeverComplete
<1>4. CASE UNCHANGED <<received, round, buffered>>
  BY <1>4, <1>a DEF CutIsNeverComplete
<1> QED
  BY <1>1, <1>2, <1>3, <1>4, NothingSent

\* A request whose length was announced reaches the upstream whole or not at
\* all, and the upstream gets nothing beyond the buffer the policy scanned
\* (intercept.go:94-99, 277-285).
THEOREM CutsAreSeen == Spec => []CutIsNeverComplete
<1>1. Init => CutIsNeverComplete
  BY DEF Init, CutIsNeverComplete
<1>2. TypeOK /\ WireInv /\ CutIsNeverComplete /\ [Next]_vars => CutIsNeverComplete'
  BY NextKeepsCuts
<1> QED
  BY <1>1, <1>2, TypeCorrect, PTL DEF Spec

-----------------------------------------------------------------------------
(* A large body.                                                           *)

\* what limitWriter keeps of a body
Kept(shape) == Min({shape.size, MaxBody})

\* What the upstream gets of a body the client sent completely is the first
\* i.maxBody parts of it, no fewer and no more (intercept.go:94-99, 281-285).
CutAtTheLimit ==
  \A i \in 1..Len(received) :
    ~received[i].aborted => received[i].parts = Kept(received[i].shape)

\* and the buffer of the request at hand is short of that only if the client
\* left before it had sent the body, or sent it garbled
BodyInv ==
  /\ CutAtTheLimit
  /\ pc \in {"gate", "write"} =>
       \/ buffered = Kept(request)
       \/ Aborted(request, buffered)

\* The steps that have no part in a body.
LEMMA BodyUntouched ==
  ASSUME TypeOK, [Next]_vars
  PROVE  \/ WriteUpstream
         \/ BufferBody
         \/ ReadRequest
         \/ /\ UNCHANGED <<received, buffered, request>>
            /\ pc' \in {"gate", "write"} => pc \in {"gate", "write"}
            /\ client = "gone" => client' = "gone"
<1>1. CASE ReadConnect \/ Dial \/ ClientHandshake \/ UpstreamHandshake \/ ReadFails \/ FinishAndLog
  BY <1>1 DEF ReadConnect, Dial, ClientHandshake, UpstreamHandshake, Handshake, ReadFails,
              FinishAndLog, Return, wireVars, peerVars
<1>2. CASE Blocks \/ Allows \/ ReadResponse \/ ReadResponseFails \/ Reply \/ ReplyFails
  BY <1>2 DEF Blocks, Allows, ReadResponse, ReadResponseFails, Reply, ReplyFails, Return,
              wireVars, peerVars
<1>3. CASE Peers \/ UNCHANGED vars
  BY <1>3 DEF Peers, ClientFallsSilent, UpstreamFallsSilent, ClientGoes, UpstreamGoes,
              UpstreamHints, UpstreamAnswers, vars, proxyVars,
              wireVars, peerVars
<1> QED
  BY <1>1, <1>2, <1>3 DEF Next, Proxy

LEMMA NextKeepsBodies == TypeOK /\ WireInv /\ BodyInv /\ [Next]_vars => BodyInv'
<1> SUFFICES ASSUME TypeOK, WireInv, BodyInv, [Next]_vars
             PROVE  BodyInv'
  OBVIOUS
<1>0. received \in Seq(Upload) /\ Len(received) \in Nat
  BY SequenceFacts
<1>1. CASE WriteUpstream
  <2>1. PICK sent \in Upload :
           /\ received' = Append(received, sent)
           /\ sent.parts = buffered /\ sent.shape = request
           /\ sent.aborted = Aborted(request, buffered)
           /\ pc = "write" /\ pc' \in {"response", "finish"}
    BY <1>1, WriteEffect
  <2>2. ~sent.aborted => sent.parts = Kept(sent.shape)
    BY <2>1 DEF BodyInv
  <2>3. /\ Len(received') = Len(received) + 1
        /\ \A i \in 1..Len(received) : received'[i] = received[i]
        /\ received'[Len(received) + 1] = sent
    BY <1>0, <2>1
  <2>4. \A i \in 1..Len(received') : i \in 1..Len(received) \/ i = Len(received) + 1
    BY <1>0, <2>3
  <2>5. pc' \notin {"gate", "write"}
    BY <2>1
  <2> HIDE <2>1
  <2> QED
    BY <2>2, <2>3, <2>4, <2>5 DEF BodyInv, CutAtTheLimit, Kept
<1>2. CASE BufferBody
  <2>1. request \in Shapes /\ request.size \in Nat /\ MaxBody \in Nat
    BY RelayAssumption DEF TypeOK, Shapes, RelayAssumption
  <2>2. Kept(request) \in Nat
    BY <2>1, MinOfTwo DEF Kept
  <2>3. /\ buffered' \in (IF client = "gone" \/ request.framing = "garbled"
                           THEN 0..Kept(request) ELSE {Kept(request)})
        /\ UNCHANGED <<received, request, client>>
    BY <1>2 DEF BufferBody, Kept, peerVars, wireVars
  <2>4. \/ buffered' = Kept(request)
        \/ (client' = "gone" \/ request'.framing = "garbled") /\ buffered' < Kept(request)
    BY <2>2, <2>3
  <2>5. buffered' = Kept(request') \/ Aborted(request, buffered)'
    BY <2>3, <2>4 DEF Aborted, Kept
  <2> QED
    BY <2>3, <2>5 DEF BodyInv, CutAtTheLimit, Kept
<1>3. CASE ReadRequest
  BY <1>3 DEF ReadRequest, wireVars, BodyInv, CutAtTheLimit, Kept
<1>4. CASE /\ UNCHANGED <<received, buffered, request>>
           /\ pc' \in {"gate", "write"} => pc \in {"gate", "write"}
           /\ client = "gone" => client' = "gone"
  BY <1>4 DEF BodyInv, CutAtTheLimit, Kept, Aborted
<1> QED
  BY <1>1, <1>2, <1>3, <1>4, BodyUntouched

WithinLimit == \A i \in 1..Len(received) : received[i].shape.size <= MaxBody

\* What config.yaml:90 says holds of the bodies up to max_body_size: it is only
\* beyond the limit, and then always, that the upstream gets less than the
\* client sent, namely the first max_body_size of it.
THEOREM SmallBodiesAreWhole == Spec => [](CutAtTheLimit /\ (WithinLimit => LargeBodiesForwarded))
<1>1. Init => BodyInv
  BY DEF Init, BodyInv, CutAtTheLimit
<1>2. TypeOK /\ WireInv /\ BodyInv /\ [Next]_vars => BodyInv'
  BY NextKeepsBodies
<1>3. ASSUME TypeOK, BodyInv
      PROVE  CutAtTheLimit /\ (WithinLimit => LargeBodiesForwarded)
  <2>1. CutAtTheLimit
    BY <1>3 DEF BodyInv
  <2>2. ASSUME WithinLimit, NEW i \in 1..Len(received), ~received[i].aborted
        PROVE  received[i].parts = received[i].shape.size
    <3>1. received[i] \in Upload
      BY <1>3, SequenceFacts
    <3>2. received[i].shape.size \in Nat /\ received[i].shape.size <= MaxBody /\ MaxBody \in Nat
      BY <2>2, <3>1, RelayAssumption DEF WithinLimit, Upload, Shapes, RelayAssumption
    <3>3. Kept(received[i].shape) = received[i].shape.size
      BY <3>2 DEF Kept, Min
    <3> QED
      BY <2>1, <2>2, <3>3 DEF CutAtTheLimit
  <2> QED
    BY <2>1, <2>2 DEF LargeBodiesForwarded
<1> QED
  BY <1>1, <1>2, <1>3, TypeCorrect, PTL DEF Spec

-----------------------------------------------------------------------------
(* An answer.                                                              *)

Straight == \A i \in 1..Len(exchanges) : exchanges[i].response.kind # "interim"

Before == {"connect", "dial", "client tls", "upstream tls", "read", "body", "gate", "write"}

Quiet == inbound = <<>> /\ Unanswered = {}

\* the responses under way, while no interim one has been taken for an answer
Pending ==
  /\ pc \in Before => Quiet
  /\ pc = "response" =>
       /\ \A i \in 1..Len(inbound) :
            /\ inbound[i].to = round
            /\ i < Len(inbound) \/ Unanswered # {} => inbound[i].kind = "interim"
       /\ \A i \in Unanswered : i = Len(received) /\ received[i].id = round
  /\ pc = "reply" => response.to = round /\ (response.kind = "interim" \/ Quiet)

AnswerInv == AnswersMatch /\ (Straight => Pending)

\* Steps that neither send, answer nor read a response.
LEMMA PendingStays ==
  ASSUME Pending, UNCHANGED <<received, answered, inbound>>,
         \/ pc \in Before /\ pc' \in Before
         \/ pc' = pc /\ UNCHANGED <<round, response>>
         \/ pc' \in {"finish", "done", "refused"}
  PROVE  Pending'
<1>1. Unanswered' = Unanswered
  BY DEF Unanswered
<1>2. Quiet' <=> Quiet
  BY <1>1 DEF Quiet
<1> QED
  BY <1>1, <1>2 DEF Pending, Before

LEMMA SendPends ==
  ASSUME TypeOK, WireInv, Pending, WriteUpstream
  PROVE  Pending'
<1>1. PICK sent \in Upload :
         /\ received' = Append(received, sent) /\ sent.id = round
         /\ pc = "write" /\ pc' \in {"response", "finish"}
         /\ UNCHANGED <<round, answered, inbound>>
  BY WriteEffect DEF peerVars
<1>2. inbound = <<>> /\ Unanswered = {} /\ Len(inbound) = 0
  BY <1>1 DEF Pending, Before, Quiet
<1>3. /\ Len(received) \in Nat /\ Len(received') = Len(received) + 1
      /\ \A i \in 1..Len(received) : received'[i] = received[i]
      /\ received'[Len(received) + 1] = sent
  BY <1>1, SequenceFacts
<1>4. ASSUME NEW i \in Unanswered'
      PROVE  i = Len(received') /\ received'[i].id = round
  <2>1. i \in 1..Len(received') /\ i > answered /\ received'[i].complete
    BY <1>1, <1>4 DEF Unanswered
  <2>2. i \notin 1..Len(received)
    BY <1>2, <1>3, <2>1 DEF Unanswered
  <2>3. i = Len(received) + 1
    BY <1>3, <2>1, <2>2
  <2> QED
    BY <1>1, <1>3, <2>3
<1>5. 1..Len(inbound') = {} /\ UNCHANGED round
  BY <1>1, <1>2
<1>6. pc' \in {"response", "finish"}
  BY <1>1
<1> QED
  BY <1>4, <1>5, <1>6, Zenon DEF Pending, Before

LEMMA PeersPend ==
  ASSUME TypeOK, Pending, Peers
  PROVE  Pending'
<1>0. UNCHANGED <<pc, round, response, received>>
  BY DEF Peers, ClientFallsSilent, UpstreamFallsSilent, ClientGoes, UpstreamGoes,
              UpstreamHints, UpstreamAnswers, proxyVars, wireVars
<1>1. CASE ClientFallsSilent \/ UpstreamFallsSilent \/ ClientGoes \/ UpstreamGoes
  BY <1>0, <1>1, PendingStays DEF ClientFallsSilent, UpstreamFallsSilent, ClientGoes,
     UpstreamGoes, wireVars
<1>2. CASE UpstreamHints \/ UpstreamAnswers
  <2>1. /\ Unanswered # {} /\ Min(Unanswered) \in Unanswered
        /\ \A i \in Unanswered : Min(Unanswered) <= i
    BY <1>2, FirstUnanswered DEF UpstreamHints, UpstreamAnswers, Unanswered
  <2>2. pc \notin Before /\ (pc = "reply" => response.kind = "interim")
    BY <2>1 DEF Pending, Quiet
  <2>3. CASE pc = "response"
    <3>1. /\ \A i \in 1..Len(inbound) : inbound[i].to = round /\ inbound[i].kind = "interim"
          /\ \A i \in Unanswered : i = Len(received) /\ received[i].id = round
      BY <2>1, <2>3 DEF Pending
    <3>2. received[Min(Unanswered)].id = round
      BY <2>1, <3>1
    <3>3. PICK kind \in {"interim", "final", "last"} :
            /\ inbound' = Append(inbound, [to |-> round, kind |-> kind])
            /\ \/ kind = "interim" /\ answered' = answered
               \/ answered' = Min(Unanswered)
      BY <1>2, <3>2 DEF UpstreamHints, UpstreamAnswers, peerVars
    <3>4. /\ Len(inbound) \in Nat /\ Len(inbound') = Len(inbound) + 1
          /\ \A i \in 1..Len(inbound) : inbound'[i] = inbound[i]
          /\ inbound'[Len(inbound) + 1] = [to |-> round, kind |-> kind]
      BY <3>3, SequenceFacts
    <3>5. inbound'[Len(inbound) + 1].to = round /\ inbound'[Len(inbound) + 1].kind = kind
      BY <3>4
    <3>6. ASSUME NEW i \in Unanswered'
          PROVE  kind = "interim" /\ i = Len(received) /\ received[i].id = round
      <4>1. CASE answered' = answered
        <5>1. Unanswered' = Unanswered /\ Min(Unanswered) # answered
          BY <1>0, <2>1, <4>1, SequenceFacts DEF Unanswered
        <5> QED
          BY <3>1, <3>3, <3>6, <4>1, <5>1
      <4>2. CASE answered' = Min(Unanswered)
        <5>1. i \in Unanswered /\ i > Min(Unanswered) /\ Min(Unanswered) \in Nat /\ i \in Nat
          BY <1>0, <2>1, <3>6, <4>2, SequenceFacts DEF Unanswered
        <5>2. i = Len(received) /\ Min(Unanswered) = Len(received)
          BY <2>1, <3>1, <5>1
        <5> QED
          BY <5>1, <5>2
      <4> QED
        BY <3>3, <4>1, <4>2
    <3>7. ASSUME NEW i \in 1..Len(inbound')
          PROVE  /\ inbound'[i].to = round
                 /\ i < Len(inbound') \/ Unanswered' # {} => inbound'[i].kind = "interim"
      <4>1. CASE i \in 1..Len(inbound)
        BY <3>1, <3>4, <4>1
      <4>2. CASE i = Len(inbound) + 1
        BY <3>4, <3>5, <3>6, <4>2
      <4> QED
        BY <3>4, <4>1, <4>2
    <3> QED
      BY <1>0, <2>3, <3>6, <3>7 DEF Pending, Before
  <2>4. CASE pc # "response"
    <3>1. pc = "reply" => response.to = round
      BY DEF Pending
    <3> QED
      BY <1>0, <2>2, <2>4, <3>1 DEF Pending
  <2> QED
    BY <2>3, <2>4
<1> QED
  BY <1>1, <1>2 DEF Peers

LEMMA ReadPends ==
  ASSUME TypeOK, Pending, ReadResponse
  PROVE  Pending'
<1>1. /\ pc = "response" /\ pc' = "reply" /\ inbound # <<>> /\ response' = Head(inbound)
      /\ UNCHANGED <<round, answered, received>>
  BY DEF ReadResponse, peerVars
<1>2. PICK n \in 1..Len(inbound) : inbound' = SubSeq(inbound, n + 1, Len(inbound))
  BY DEF ReadResponse
<1>3. inbound \in Seq(Responses) /\ Len(inbound) \in Nat /\ 1 \in 1..Len(inbound)
      /\ response' = inbound[1]
  BY <1>1, SequenceFacts
<1>4. response'.to = round /\ (1 < Len(inbound) \/ Unanswered # {} => response'.kind = "interim")
  BY <1>1, <1>3 DEF Pending
<1>5. Unanswered' = Unanswered
  BY <1>1 DEF Unanswered
<1>6. ASSUME response'.kind # "interim"
      PROVE  Quiet'
  <2>1. ~(1 < Len(inbound)) /\ Unanswered = {}
    BY <1>4, <1>6, Zenon
  <2>2. inbound' = <<>>
    <3>1. Len(inbound) < n + 1 /\ n + 1 \in Int /\ Len(inbound) \in Int
      BY <1>3, <2>1
    <3> QED
      BY <1>2, <3>1, SubSeqEmpty
  <2> QED
    BY <1>5, <2>1, <2>2 DEF Quiet
<1> QED
  BY <1>1, <1>4, <1>6 DEF Pending, Before

\* A response that is recorded as the answer of its request.
LEMMA RecordedAnswers ==
  ASSUME TypeOK, RecordInv, AnswersMatch, pc \in Busy, NEW r,
         exchanges' = Append(exchanges, [id |-> round, response |-> r]),
         Straight /\ r.kind # "interim" => r.to = round
  PROVE  AnswersMatch' /\ (Straight' => Straight /\ r.kind # "interim")
<1>1. /\ Len(exchanges) \in Nat /\ Len(exchanges) + 1 = round
      /\ Len(exchanges') = Len(exchanges) + 1
      /\ \A i \in 1..Len(exchanges) : exchanges'[i] = exchanges[i]
      /\ exchanges'[Len(exchanges) + 1] = [id |-> round, response |-> r]
  BY SequenceFacts DEF RecordInv, Busy
<1>2. exchanges'[Len(exchanges) + 1].response = r
  BY <1>1
<1>3. Straight' => Straight /\ r.kind # "interim"
  BY <1>1, <1>2 DEF Straight
<1>4. ASSUME NEW i \in 1..Len(exchanges'),
             \A j \in 1..i : exchanges'[j].response.kind # "interim"
      PROVE  exchanges'[i].response.to = i
  <2>1. CASE i \in 1..Len(exchanges)
    <3>1. \A j \in 1..i : exchanges[j].response.kind # "interim"
      BY <1>1, <1>4, <2>1
    <3> QED
      BY <1>1, <2>1, <3>1 DEF AnswersMatch
  <2>2. CASE i = Len(exchanges) + 1
    <3>1. Straight /\ r.kind # "interim"
      BY <1>1, <1>2, <1>4, <2>2 DEF Straight
    <3> QED
      BY <1>1, <1>2, <2>2, <3>1
  <2> QED
    BY <1>1, <2>1, <2>2
<1> QED
  BY <1>3, <1>4 DEF AnswersMatch

LEMMA NextKeepsAnswers ==
  TypeOK /\ WireInv /\ RecordInv /\ AnswerInv /\ [Next]_vars => AnswerInv'
<1> SUFFICES ASSUME TypeOK, WireInv, RecordInv, AnswerInv, [Next]_vars
             PROVE  AnswerInv'
  OBVIOUS
<1>1. CASE Blocks
  <2> DEFINE refusal == [to |-> round, kind |-> "blocked"]
  <2>1. /\ exchanges' = Append(exchanges, [id |-> round, response |-> refusal])
        /\ pc \in Busy /\ pc' = "finish"
    BY <1>1 DEF Blocks, Return, Busy
  <2>2. refusal.to = round
    OBVIOUS
  <2> HIDE DEF refusal
  <2>3. AnswersMatch'
    BY <2>1, <2>2, RecordedAnswers DEF AnswerInv
  <2> QED
    BY <2>1, <2>3 DEF AnswerInv, Pending, Before
<1>2. CASE Reply
  <2>1. /\ exchanges' = Append(exchanges, [id |-> round, response |-> response])
        /\ pc = "reply" /\ pc' \in {"finish", "read"}
        /\ UNCHANGED <<received, answered, inbound>>
    BY <1>2 DEF Reply, Return, peerVars
  <2>2. Straight => response.to = round /\ (response.kind = "interim" \/ Quiet)
    BY <2>1 DEF AnswerInv, Pending
  <2>3. AnswersMatch' /\ (Straight' => Straight /\ response.kind # "interim")
    BY <2>1, <2>2, RecordedAnswers DEF AnswerInv, Busy
  <2>4. Quiet' <=> Quiet
    BY <2>1 DEF Quiet, Unanswered
  <2> QED
    BY <2>1, <2>2, <2>3, <2>4 DEF AnswerInv, Pending, Before
<1>3. CASE ~(Blocks \/ Reply)
  <2>1. UNCHANGED exchanges
    BY <1>3, QuietSteps DEF ReadRequest, sessionVars
  <2>2. (Straight' <=> Straight) /\ AnswersMatch'
    BY <2>1 DEF Straight, AnswersMatch, AnswerInv
  <2>3. ASSUME Pending
        PROVE  Pending'
    <3>1. CASE ReadConnect \/ Dial \/ ClientHandshake \/ UpstreamHandshake \/ ReadFails \/ FinishAndLog
      BY <2>3, <3>1, PendingStays DEF ReadConnect, Dial, ClientHandshake, UpstreamHandshake,
         Handshake, ReadFails, FinishAndLog, Return, wireVars, peerVars, Before
    <3>2. CASE ReadRequest \/ BufferBody \/ Allows \/ ReadResponseFails \/ ReplyFails
      BY <2>3, <3>2, PendingStays DEF ReadRequest, BufferBody, Allows, ReadResponseFails,
         ReplyFails, Return, wireVars, peerVars, Before
    <3>3. CASE UNCHANGED vars
      BY <2>3, <3>3, PendingStays DEF vars, proxyVars, wireVars, peerVars
    <3> QED
      BY <1>3, <2>3, <3>1, <3>2, <3>3, SendPends, PeersPend, ReadPends DEF Next, Proxy
  <2> QED
    BY <2>2, <2>3 DEF AnswerInv
<1> QED
  BY <1>1, <1>2, <1>3

\* The client is never given one request's response for another's: until an
\* interim response is taken for an answer, every exchange has the upstream's
\* final response to its own request (intercept.go:288-319).
THEOREM AnswersAreOwn == Spec => []AnswersMatch
<1>1. Init => RecordInv /\ AnswerInv
  BY DEF Init, RecordInv, Busy, AnswerInv, AnswersMatch, Pending, Before, Quiet, Unanswered
<1>2. TypeOK /\ RecordInv /\ [Next]_vars => RecordInv'
  BY NextKeepsRecord
<1>3. TypeOK /\ WireInv /\ RecordInv /\ AnswerInv /\ [Next]_vars => AnswerInv'
  BY NextKeepsAnswers
<1>4. AnswerInv => AnswersMatch
  BY DEF AnswerInv
<1> QED
  BY <1>1, <1>2, <1>3, <1>4, TypeCorrect, PTL DEF Spec

=============================================================================
