---------------------------- MODULE InterceptRelay ----------------------------
(***************************************************************************)
(* One intercepted connection from CONNECT to the audit record:            *)
(* Server.handleConnection (internal/proxy/proxy.go) and the relay loop of *)
(* Interceptor.Intercept (internal/proxy/intercept.go), between a client   *)
(* and an upstream server that may fail, fall silent or go away at any     *)
(* point.                                                                  *)
(*                                                                         *)
(* Requests are numbered in the order they are read.  A body is counted in *)
(* parts, of which limitWriter keeps the first MaxBody.  What the policy   *)
(* decides of a request is InterceptGate's business: here it is a choice.  *)
(* Connections share nothing but the audit sink, so one is enough.         *)
(***************************************************************************)
EXTENDS Naturals, SequencesExt

CONSTANTS
  MaxRequests,  \* bound on the requests of the connection
  Sizes,        \* sizes of request bodies, in parts
  MaxBody,      \* i.maxBody, in parts
  MaxHints      \* bound on the 1xx responses under way, 0 if the upstream sends none

\* a request: framing of its body, size of it, "Connection: close"; the chunks
\* of a "garbled" body cannot be read to their end
Shapes == [framing : {"length", "chunked", "garbled"}, size : Sizes, close : BOOLEAN]

ASSUME RelayAssumption ==
  /\ MaxRequests \in Nat
  /\ Sizes \subseteq Nat /\ Sizes # {}
  /\ MaxBody \in Nat
  /\ MaxHints \in Nat

Ids == 1..MaxRequests

VARIABLES
  pc,          \* where the goroutine of handleConnection is
  round,       \* number of requests read
  request,     \* req
  buffered,    \* number of parts in reqBodyBuf
  response,    \* resp
  exchanges,   \* sess.Exchanges
  error,       \* sess.Error is set
  logged,      \* the sessions given to logger.Log
  client,      \* external: "up", "silent" (connected, but it neither sends nor
               \* reads any more), or "gone"
  upstream,    \* external: the same
  received,    \* external: what the upstream got of the forwarded requests
  answered,    \* external: number of requests the upstream has answered
  inbound,     \* responses on their way to the proxy
  delivered    \* external: responses the client got

proxyVars    == <<pc, round, request, buffered, response>>
sessionVars  == <<exchanges, error, logged>>
peerVars     == <<client, upstream, answered>>
wireVars     == <<received, inbound, delivered>>
vars == <<proxyVars, sessionVars, peerVars, wireVars>>

Places == {"connect", "dial", "client tls", "upstream tls", "read", "body", "gate",
           "write", "response", "reply", "finish", "done", "refused"}

\* "last" is a final response after which the upstream closes
Kinds == {"interim", "final", "last", "blocked"}
Responses == [to : Ids, kind : Kinds]

\* entries of sess.Exchanges, sessions, and what the upstream gets of a request
Exchange == [id : Ids, response : Responses]
Session  == [exchanges : Seq(Exchange), error : BOOLEAN]
Upload   == [id : Ids, shape : Shapes, parts : 0..MaxBody, aborted : BOOLEAN, complete : BOOLEAN]

TypeOK ==
  /\ pc \in Places
  /\ round \in 0..MaxRequests
  /\ request \in Shapes
  /\ buffered \in 0..MaxBody
  /\ response \in Responses \cup {[to |-> 0, kind |-> "final"]}
  /\ exchanges \in Seq(Exchange)
  /\ error \in BOOLEAN
  /\ logged \in Seq(Session)
  /\ {client, upstream} \subseteq {"up", "silent", "gone"}
  /\ answered \in 0..MaxRequests
  /\ received \in Seq(Upload)
  /\ inbound \in Seq(Responses)
  /\ delivered \in Seq(Responses)

Init ==
  /\ pc = "connect"
  /\ round = 0
  /\ request = CHOOSE s \in Shapes : TRUE
  /\ buffered = 0
  /\ response = [to |-> 0, kind |-> "final"]
  /\ exchanges = <<>>
  /\ error = FALSE
  /\ logged = <<>>
  /\ client = "up"
  /\ upstream = "up"
  /\ answered = 0
  /\ received = <<>>
  /\ inbound = <<>>
  /\ delivered = <<>>

-----------------------------------------------------------------------------
(* handleConnection.                                                       *)

\* Intercept returns; sess.Error is set if it returns an error
Return(err) ==
  /\ pc' = "finish"
  /\ error' = err

Log(sess) == logged' = Append(logged, sess)

\* a broken request line, another method than CONNECT or an empty host end
\* the connection before there is a session
ReadConnect ==
  /\ pc = "connect"
  /\ pc' \in {"refused", "dial"}
  /\ UNCHANGED <<round, request, buffered, response, sessionVars, peerVars, wireVars>>

\* Mutant: a failed dial is logged, and the handler goes on.
DialGoesOn ==
  /\ pc = "dial"
  /\ pc' = "client tls"
  /\ \E ok \in BOOLEAN :
       /\ error' = ~ok
       /\ IF ok THEN UNCHANGED logged ELSE Log([exchanges |-> exchanges, error |-> TRUE])
  /\ UNCHANGED <<round, request, buffered, response, exchanges, peerVars, wireVars>>

Dial ==
  /\ pc = "dial"
  /\ \/ /\ upstream # "gone"
        /\ pc' = "client tls"
        /\ UNCHANGED sessionVars
     \/ /\ pc' = "done"
        /\ error' = TRUE
        /\ Log([exchanges |-> exchanges, error |-> TRUE])
        /\ UNCHANGED exchanges
  /\ UNCHANGED <<round, request, buffered, response, peerVars, wireVars>>

FinishAndLog ==
  /\ pc = "finish"
  /\ pc' = "done"
  /\ Log([exchanges |-> exchanges, error |-> error])
  /\ UNCHANGED <<round, request, buffered, response, exchanges, error, peerVars, wireVars>>

-----------------------------------------------------------------------------
(* Intercept.                                                              *)

\* the client's handshake has a deadline of 10s, the upstream's has none
Handshake(place, next) ==
  /\ pc = place
  /\ \/ pc' = next /\ error' = error
     \/ Return(TRUE)
  /\ UNCHANGED <<round, request, buffered, response, exchanges, logged, peerVars, wireVars>>

ClientHandshake   == Handshake("client tls", "upstream tls")
UpstreamHandshake == Handshake("upstream tls", "read")

\* clientReader outlives the exchanges: a request may have been pipelined by a
\* client that is gone
ReadRequest ==
  /\ pc = "read"
  /\ round < MaxRequests
  /\ round' = round + 1
  /\ request' \in Shapes
  /\ pc' = "body"
  /\ UNCHANGED <<buffered, response, sessionVars, peerVars, wireVars>>

\* Mutant: a failed read is tried again.
ReadRetries ==
  /\ pc = "read"
  /\ UNCHANGED vars

\* io.EOF between two requests is not an error, anything else is
ReadFails ==
  /\ pc = "read"
  /\ \E err \in IF client = "gone" THEN BOOLEAN ELSE {TRUE} : Return(err)
  /\ UNCHANGED <<round, request, buffered, response, exchanges, logged, peerVars, wireVars>>

\* the limitWriter drops what exceeds i.maxBody, and io.Copy's error is not
\* looked at: a client that goes away, and one whose chunks are malformed,
\* leave the parts read until then; there is no deadline, so that a client
\* that is silent, perhaps waiting for a "100 Continue", may never be read to
\* the end
BufferBody ==
  /\ pc = "body"
  /\ buffered' \in LET kept == Min({request.size, MaxBody})
                   IN  IF client = "gone" \/ request.framing = "garbled" THEN 0..kept ELSE {kept}
  /\ pc' = "gate"
  /\ UNCHANGED <<round, request, response, sessionVars, peerVars, wireVars>>

\* Mutant: the relay loop goes on after a refusal.
BlocksAndGoesOn ==
  /\ pc = "gate"
  /\ pc' = "read"
  /\ LET refusal == [to |-> round, kind |-> "blocked"]
     IN  /\ delivered' = IF client = "up" THEN Append(delivered, refusal) ELSE delivered
         /\ exchanges' = Append(exchanges, [id |-> round, response |-> refusal])
  /\ UNCHANGED <<round, request, buffered, response, error, logged, peerVars, received, inbound>>

\* the outcome of the four layers; the 403 may not reach the client
Blocks ==
  /\ pc = "gate"
  /\ LET refusal == [to |-> round, kind |-> "blocked"]
     IN  /\ delivered' = IF client = "up" THEN Append(delivered, refusal) ELSE delivered
         /\ exchanges' = Append(exchanges, [id |-> round, response |-> refusal])
  /\ Return(FALSE)
  /\ UNCHANGED <<round, request, buffered, response, logged, peerVars, received, inbound>>

Allows ==
  /\ pc = "gate"
  /\ pc' = "write"
  /\ UNCHANGED <<round, request, buffered, response, sessionVars, peerVars, wireVars>>

\* Mutant: the length announced is that of the buffer.
WriteBuffer ==
  /\ pc = "write"
  /\ pc' = "response"
  /\ received' = Append(received, [id |-> round, shape |-> request, parts |-> buffered,
                                   aborted |-> FALSE, complete |-> TRUE])
  /\ UNCHANGED <<round, request, buffered, response, sessionVars, peerVars, inbound, delivered>>

\* the client's body could not be read to its end
Aborted(req, n) ==
  /\ client = "gone" \/ req.framing = "garbled"
  /\ n < Min({req.size, MaxBody})

\* req.Write announces the client's Content-Length and fails when the buffer
\* is shorter; a chunked body ends where the buffer ends
WriteUpstream ==
  /\ pc = "write"
  /\ LET short == request.framing = "length" /\ buffered < request.size
     IN  /\ received' =
              Append(received, [id |-> round, shape |-> request, parts |-> buffered,
                                aborted |-> Aborted(request, buffered),
                                complete |-> ~short /\ upstream # "gone"])
         /\ \E err \in IF short THEN {TRUE} ELSE IF upstream = "gone" THEN BOOLEAN ELSE {FALSE} :
              IF err THEN Return(TRUE) ELSE pc' = "response" /\ error' = error
  /\ UNCHANGED <<round, request, buffered, response, exchanges, logged, peerVars, inbound, delivered>>

\* the bufio.Reader lives for one response: what it had read beyond it is lost
ReadResponse ==
  /\ pc = "response"
  /\ inbound # <<>>
  /\ response' = Head(inbound)
  /\ \E n \in 1..Len(inbound) : inbound' = SubSeq(inbound, n + 1, Len(inbound))
  /\ pc' = "reply"
  /\ UNCHANGED <<round, request, buffered, sessionVars, peerVars, received, delivered>>

\* Mutant: a response that cannot be read is skipped.
ReadResponseSkips ==
  /\ pc = "response"
  /\ upstream = "gone" \/ inbound # <<>>
  /\ pc' = "read"
  /\ UNCHANGED <<round, request, buffered, response, sessionVars, peerVars, wireVars>>

\* Mutant: a response that cannot be read is awaited again.
ReadResponseRetries ==
  /\ pc = "response"
  /\ UNCHANGED vars

\* the connection breaks, or what arrives is no response
ReadResponseFails ==
  /\ pc = "response"
  /\ upstream = "gone" \/ inbound # <<>>
  /\ Return(TRUE)
  /\ UNCHANGED <<round, request, buffered, response, exchanges, logged, peerVars, wireVars>>

\* the body of the response is passed on while the upstream sends it; a client
\* that is gone may not be noticed yet
Reply ==
  /\ pc = "reply"
  /\ delivered' = IF client = "up" THEN Append(delivered, response) ELSE delivered
  /\ exchanges' = Append(exchanges, [id |-> round, response |-> response])
  /\ IF request.close \/ response.kind = "last" THEN Return(FALSE) ELSE pc' = "read" /\ error' = error
  /\ UNCHANGED <<round, request, buffered, response, logged, peerVars, received, inbound>>

\* Mutant: the error of resp.Write is dropped.
ReplyFailsQuietly ==
  /\ pc = "reply"
  /\ "gone" \in {client, upstream}
  /\ Return(FALSE)
  /\ UNCHANGED <<round, request, buffered, response, exchanges, logged, peerVars, wireVars>>

\* the client is gone, or the upstream within the response's body
ReplyFails ==
  /\ pc = "reply"
  /\ "gone" \in {client, upstream}
  /\ Return(TRUE)
  /\ UNCHANGED <<round, request, buffered, response, exchanges, logged, peerVars, wireVars>>

-----------------------------------------------------------------------------
(* The peers.                                                              *)

ClientFallsSilent ==
  /\ client = "up"
  /\ client' = "silent"
  /\ UNCHANGED <<proxyVars, sessionVars, upstream, answered, wireVars>>

UpstreamFallsSilent ==
  /\ upstream = "up"
  /\ upstream' = "silent"
  /\ UNCHANGED <<proxyVars, sessionVars, client, answered, wireVars>>

ClientGoes ==
  /\ client # "gone"
  /\ client' = "gone"
  /\ UNCHANGED <<proxyVars, sessionVars, upstream, answered, wireVars>>

UpstreamGoes ==
  /\ upstream # "gone"
  /\ upstream' = "gone"
  /\ UNCHANGED <<proxyVars, sessionVars, client, answered, wireVars>>

\* the requests that are complete are answered in order, each once, perhaps
\* after an interim response
Unanswered == {i \in 1..Len(received) : i > answered /\ received[i].complete}

UpstreamHints ==
  /\ upstream = "up"
  /\ Unanswered # {}
  /\ Len(inbound) < MaxHints
  /\ inbound' = Append(inbound, [to |-> received[Min(Unanswered)].id, kind |-> "interim"])
  /\ UNCHANGED <<proxyVars, sessionVars, peerVars, received, delivered>>

UpstreamAnswers ==
  /\ upstream = "up"
  /\ Unanswered # {}
  /\ answered' = Min(Unanswered)
  /\ \E kind \in {"final", "last"} :
       inbound' = Append(inbound, [to |-> received[Min(Unanswered)].id, kind |-> kind])
  /\ UNCHANGED <<proxyVars, sessionVars, client, upstream, received, delivered>>

-----------------------------------------------------------------------------
Proxy ==
  \/ ReadConnect \/ Dial \/ ClientHandshake \/ UpstreamHandshake
  \/ ReadRequest \/ ReadFails \/ BufferBody \/ Blocks \/ Allows
  \/ WriteUpstream \/ ReadResponse \/ ReadResponseFails \/ Reply \/ ReplyFails
  \/ FinishAndLog

Peers ==
  \/ ClientFallsSilent \/ UpstreamFallsSilent \/ ClientGoes \/ UpstreamGoes
  \/ UpstreamHints \/ UpstreamAnswers

Next == Proxy \/ Peers

Spec == Init /\ [][Next]_vars

\* the places where a request has been read and is not over
Busy == {"body", "gate", "write", "response", "reply"}

\* The handler goes on by itself, unless it reads from or writes to a peer that
\* is silent: once the client's handshake is over no call has a deadline.
HandlerSteps ==
  \/ client # "silent" /\ (BufferBody \/ Blocks \/ Allows)
  \/ upstream # "silent" /\ WriteUpstream
  \/ ReadResponse \/ ReadResponseFails
  \/ "silent" \notin {client, upstream} /\ (Reply \/ ReplyFails)
  \/ FinishAndLog

\* Nothing is assumed of the peers: an upstream that does not answer is silent,
\* and a peer may be silent for ever.
FairSpec ==
  /\ Spec
  /\ WF_vars(HandlerSteps)
  /\ WF_vars(UpstreamAnswers)
  /\ WF_vars(ReadFails /\ client = "gone")

-----------------------------------------------------------------------------
(* Properties.                                                             *)

\* README.md:306 "If blocked: returns 403, logs the attempt, never forwards to
\* the server": a blocked request never reaches the upstream, not even a part
\* of it, nothing is read after it, and it ends the record (intercept.go:125-267).
BlockIsFinal ==
  \A i \in 1..Len(exchanges) :
    exchanges[i].response.kind = "blocked" =>
      /\ i = Len(exchanges) /\ exchanges[i].id = round
      /\ \A j \in 1..Len(received) : received[j].id # round
      /\ pc \in {"finish", "done"}

\* The record of a session has the requests in the order they were read, each
\* once, and misses at most the last one; a session logged without an error
\* misses none (intercept.go:79-83, 283-319, proxy.go:181-187).
RecordHasNoHoles ==
  /\ \A i \in 1..Len(exchanges) : exchanges[i].id = i
  /\ Len(exchanges) \in {round, round - 1}
  /\ \A k \in 1..Len(logged) : ~logged[k].error => Len(logged[k].exchanges) = round

\* Every connection that got as far as a session is logged, exactly once, when
\* it is over and with everything that was recorded (proxy.go:163-187).
LoggedOnce ==
  /\ Len(logged) = IF pc = "done" THEN 1 ELSE 0
  /\ \A k \in 1..Len(logged) :
       logged[k] = [exchanges |-> exchanges, error |-> error]

\* A request whose length was announced reaches the upstream whole or not at
\* all, so that a cut body is never taken for a complete one; the upstream
\* gets nothing beyond the buffer the policy scanned (intercept.go:94-99, 277-285).
CutIsNeverComplete ==
  \A i \in 1..Len(received) :
    LET got == received[i]
    IN  /\ got.complete /\ got.shape.framing = "length" => got.parts = got.shape.size
        /\ got.id = round => got.parts <= buffered

\* The client is never given one request's response for another's: until an
\* interim response is taken for an answer, every exchange has the upstream's
\* final response to its own request (intercept.go:288-319).
AnswersMatch ==
  \A i \in 1..Len(exchanges) :
    (\A j \in 1..i : exchanges[j].response.kind # "interim") => exchanges[i].response.to = i

\* config.yaml:90 "Bodies larger than this are truncated in logs but still
\* forwarded to the upstream server": what the upstream gets of a request the
\* client sent completely is its whole body (intercept.go:94-99, 281-285).
LargeBodiesForwarded ==
  \A i \in 1..Len(received) : ~received[i].aborted => received[i].parts = received[i].shape.size

\* The handler waits for a silent peer.
Waiting ==
  \/ client = "silent" /\ pc \in {"body", "gate", "reply"}
  \/ upstream = "silent" /\ pc \in {"write", "response", "reply"}

\* It takes a silent peer to leave a request hanging: once read it is refused,
\* answered or its session is logged, unless the handler waits for ever for a
\* client that stopped sending its body or reading, or for an upstream that
\* stopped reading or answering (intercept.go:60, 96, 146, 286-311).
EveryRequestEnds ==
  \/ \A r \in Ids : round = r /\ pc \in Busy ~> round = r /\ pc \in {"read", "done"}
  \/ <>[]Waiting

\* A client that goes away ends its session, and the session is logged, unless
\* the handler waits for ever for a silent upstream (intercept.go:79-83,
\* proxy.go:181-187).
GoneIsLogged ==
  \/ client = "gone" /\ pc = "read" ~> logged # <<>>
  \/ <>[](upstream = "silent" /\ Waiting)

=============================================================================
