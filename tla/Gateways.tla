------------------------------ MODULE Gateways -----------------------------
(***************************************************************************)
(* The HTTP gateways for Connect and gRPC-Web (internal/app/connect_*.go,  *)
(* grpcweb_*.go, gateway_*.go, internal/deps/gateway_server.go): one       *)
(* request from its body, through the access log, the checks and the       *)
(* adapter that the handlers of the gRPC mocker read from and write to, to *)
(* the frames of the response.  The handlers are those of MockCalls; here  *)
(* they receive and send what they like.  A proxied bidirectional stream   *)
(* has its two pumps, as in BidiCalls, and may leave one of them behind.   *)
(***************************************************************************)
EXTENDS Naturals, Sequences, FiniteSets

CONSTANTS
  Requests,    \* what a client may ask: see RequestShapes
  Limit,       \* maxBodyCapture + 1
  MaxOut       \* bound: messages of a response

Protocols == {"connect", "web"}
Kinds == {"unary", "server", "client", "bidi"}

\* What may be wrong with a request before its body matters.
Faults == {"none", "method", "version", "type", "unknown", "encoding", "timeout"}

RequestShapes ==
  [proto : Protocols, kind : Kinds, proxied : BOOLEAN, fault : Faults,
   frames : Seq([size : Nat \ {0}, good : BOOLEAN])]

\* No frame is empty, if only for its header, and a unary request has one message.
ASSUME GatewayAssumption ==
  /\ Requests \subseteq RequestShapes
  /\ \A r \in Requests : r.kind = "unary" => Len(r.frames) <= 1
  /\ Limit \in Nat /\ MaxOut \in Nat

VARIABLES
  req,      \* the request
  client,   \* whether the client is sending, has closed or broken off
  arrived,  \* how many frames of it have arrived
  at,       \* where ServeHTTP is
  body,     \* the frames left in the body that the handler reads
  cut,      \* whether that body ends inside a frame
  got,      \* the messages (by index) that a handler or an upstream got
  eof,      \* whether it also got the end of the messages
  code,     \* the status the handler returned
  typed,    \* whether the response's content type was set before its first frame
  out,      \* the response: halves of frames
  resp,     \* the response pump of a proxied stream
  reqs,     \* how its request pump ended
  heard,    \* whether the upstream has answered or ended
  gaveUp    \* whether the handler left the response pump behind

vars == <<req, client, arrived, at, body, cut, got, eof, code, typed, out, resp, reqs,
          heard, gaveUp>>
bodyVars == <<body, cut, got, eof>>
wireVars == <<typed, out>>
pumpVars == <<resp, reqs, heard, gaveUp>>
clientVars == <<req, client, arrived>>

Streaming == req.kind # "unary"

Init ==
  /\ req \in Requests
  /\ client = "sending" /\ arrived = 0 /\ at = "body"
  /\ body = <<>> /\ cut = FALSE /\ got = <<>> /\ eof = FALSE
  /\ code = "OK" /\ typed = FALSE /\ out = <<>>
  /\ resp = "off" /\ reqs = "off" /\ heard = FALSE /\ gaveUp = FALSE

----------------------------------------------------------------------------
(* The client's body, and the access log that takes it.                    *)

ClientSends ==
  /\ client = "sending" /\ arrived < Len(req.frames)
  /\ arrived' = arrived + 1
  /\ UNCHANGED <<req, client, at, code, bodyVars, wireVars, pumpVars>>

\* The client ends its body, or breaks off: it leaves or runs into the timeout.
ClientEnds ==
  /\ client = "sending"
  /\ client' \in IF arrived = Len(req.frames) THEN {"closed", "broken"} ELSE {"broken"}
  /\ UNCHANGED <<req, arrived, at, code, bodyVars, wireVars, pumpVars>>

\* The bytes of the first n frames.
Size(n) ==
  LET sum[i \in 0..Len(req.frames)] == IF i = 0 THEN 0 ELSE sum[i - 1] + req.frames[i].size
  IN  sum[n]

\* Fault: one byte less is kept than the log wants to see.
WholeShort(n) ==
  CHOOSE k \in 0..n : Size(k) < Limit /\ (k < n => Size(k + 1) >= Limit)

\* How many of n frames fit into what the log keeps.
Whole(n) ==
  CHOOSE k \in 0..n : Size(k) <= Limit /\ (k < n => Size(k + 1) > Limit)

\* captureReqBody: reads up to Limit bytes, whatever error ends the reading, and
\* hands on only these: the handler starts when the client has closed.
CaptureBody ==
  LET n == Whole(arrived)
  IN
  /\ at = "body"
  /\ client # "sending" \/ Size(arrived) >= Limit
  /\ body' = [i \in 1..n |-> [req.frames[i] EXCEPT !.size = i]]
  /\ cut' \in IF n < arrived THEN {Size(n) < Limit}
              ELSE IF client = "broken" /\ n < Len(req.frames) THEN BOOLEAN ELSE {FALSE}
  /\ at' = "route"
  /\ UNCHANGED <<clientVars, got, eof, code, wireVars, pumpVars>>

----------------------------------------------------------------------------
(* The frames of a response.                                               *)

Half(frame, part) == [frame |-> frame, part |-> part]
Frame(frame) == <<Half(frame, 1), Half(frame, 2)>>

\* sendHeaderOnce: the content type counts only before anything is written.
SendHeader == typed' = (typed \/ out = <<>>)

\* A refusal or an error in the form of a plain HTTP response.
Plain(status) ==
  /\ typed' = TRUE /\ out' = <<Half("plain", 1)>>
  /\ code' = status /\ at' = "returned"
  /\ UNCHANGED <<clientVars, bodyVars, pumpVars>>

\* Only what is found out after the framing is settled is told in a frame.
ToldInFrame(fault) ==
  IF req.proto = "web" THEN fault \in {"unknown", "timeout"}
                       ELSE fault = "encoding" /\ Streaming

Refuse ==
  /\ at = "route" /\ req.fault # "none"
  /\ IF ToldInFrame(req.fault)
     THEN /\ code' = "Refused" /\ at' = "finish"
          /\ UNCHANGED <<clientVars, bodyVars, wireVars, pumpVars>>
     ELSE Plain("Refused")

Dispatch ==
  /\ at = "route" /\ req.fault = "none"
  /\ at' = IF ~Streaming THEN "unary" ELSE IF req.proxied /\ req.kind = "bidi" THEN "open" ELSE "handler"
  /\ UNCHANGED <<clientVars, code, bodyVars, wireVars, pumpVars>>

Return(status) ==
  /\ code' = status /\ at' = "finish"

\* The end of a call: gRPC-Web sends its header with an error, but not with the
\* trailers of a good end; Connect sends it with either.
Finish ==
  /\ at = "finish" /\ (Streaming \/ req.proto = "web")
  /\ IF req.proto = "web" /\ code = "OK" THEN UNCHANGED typed ELSE SendHeader
  /\ out' = Append(out, Half("end", 1))
  /\ at' = "ending"
  /\ UNCHANGED <<clientVars, code, bodyVars, pumpVars>>

FinishRest ==
  /\ at = "ending"
  /\ out' = Append(out, Half("end", 2))
  /\ at' = "returned"
  /\ UNCHANGED <<clientVars, code, bodyVars, typed, pumpVars>>

----------------------------------------------------------------------------
(* A unary call.                                                           *)

\* What is left of a cut body may decode all the same.
UnaryRequest ==
  /\ at = "unary" /\ ~eof
  /\ \/ /\ (body # <<>> /\ body[1].good) \/ cut
        /\ got' = IF cut THEN got ELSE Append(got, body[1].size)
        /\ eof' = TRUE
        /\ UNCHANGED <<at, code, typed, out>>
     \/ /\ body = <<>> /\ ~cut                  \* an empty message
        /\ eof' = TRUE /\ UNCHANGED <<got, at, code, typed, out>>
     \/ /\ (body # <<>> /\ ~body[1].good) \/ cut
        /\ UNCHANGED <<got, eof>>
        /\ IF req.proto = "web"
           THEN Return("InvalidArgument") /\ UNCHANGED wireVars
           ELSE /\ typed' = TRUE /\ out' = <<Half("plain", 1)>>
                /\ code' = "InvalidArgument" /\ at' = "returned"
  /\ UNCHANGED <<clientVars, body, cut, pumpVars>>

\* The answer, or the status of the mock; an answer that cannot be encoded ends
\* the response after its header.
UnaryAnswer ==
  /\ at = "unary" /\ eof
  /\ \/ /\ SendHeader /\ out' = out \o Frame("msg")
        /\ code' = "OK" /\ at' = IF req.proto = "web" THEN "finish" ELSE "returned"
     \/ /\ SendHeader /\ code' = "Unencodable" /\ at' = "returned" /\ UNCHANGED out
     \/ /\ req.proto = "web" /\ Return("Error") /\ UNCHANGED wireVars
     \/ /\ req.proto = "connect" /\ typed' = TRUE /\ out' = <<Half("plain", 1)>>
        /\ code' = "Error" /\ at' = "returned"
  /\ UNCHANGED <<clientVars, bodyVars, pumpVars>>

----------------------------------------------------------------------------
(* A stream that the mock serves, or a proxied one without pumps.          *)

\* RecvMsg: the next frame; a bad one, or a body that ends inside a frame, is an
\* error that ends the call.  A body that ends right behind the header of a frame
\* counts as a clean end: readConnectFrame passes the io.EOF of the payload on.
HandlerReceives ==
  /\ at = "handler" /\ ~eof
  /\ \/ /\ body # <<>> /\ Head(body).good
        /\ got' = Append(got, Head(body).size) /\ body' = Tail(body)
        /\ UNCHANGED <<eof, code, at>>
     \/ /\ body = <<>>
        /\ eof' = TRUE /\ UNCHANGED <<got, body, code, at>>
     \/ /\ IF body = <<>> THEN cut ELSE ~Head(body).good
        /\ Return("Unknown") /\ UNCHANGED <<got, eof, body>>
  /\ UNCHANGED <<clientVars, cut, wireVars, pumpVars>>

\* SendMsg: the header, then a frame; a message that cannot be encoded ends the call.
HandlerSends ==
  /\ at = "handler" /\ Len(out) < 2 * MaxOut
  /\ req.kind = "client" => eof /\ out = <<>>
  /\ req.kind = "server" => got # <<>>
  /\ SendHeader
  /\ \/ out' = out \o Frame("msg") /\ UNCHANGED <<at, code>>
     \/ Return("Internal") /\ UNCHANGED out
  /\ UNCHANGED <<clientVars, bodyVars, pumpVars>>

\* A good end: all messages of the client are read, but for the one of a server
\* stream; an error, a timeout or a miss at any time.
HandlerReturns ==
  /\ at = "handler"
  /\ \/ /\ eof \/ (req.kind = "server" /\ got # <<>>)
        /\ req.kind = "client" => out # <<>>
        /\ Return("OK")
     \/ Return("Error")
  /\ UNCHANGED <<clientVars, bodyVars, wireVars, pumpVars>>

----------------------------------------------------------------------------
(* A proxied bidirectional stream.                                         *)

OpenPumps ==
  /\ at = "open"
  /\ \/ at' = "await" /\ resp' = "recv" /\ reqs' = "run" /\ UNCHANGED code
     \/ Return("Error") /\ UNCHANGED <<resp, reqs>>       \* NewStream fails
  /\ UNCHANGED <<clientVars, bodyVars, wireVars, heard, gaveUp>>

\* forwardBidiRequests over the buffered body, read as above.
PumpRequest ==
  /\ reqs = "run"
  /\ \/ /\ body # <<>> /\ Head(body).good
        /\ got' = Append(got, Head(body).size) /\ body' = Tail(body) /\ UNCHANGED <<eof, reqs>>
     \/ /\ body = <<>>
        /\ eof' = TRUE /\ reqs' = "ok" /\ UNCHANGED <<got, body>>
     \/ /\ IF body = <<>> THEN cut ELSE ~Head(body).good
        /\ reqs' = "bad" /\ UNCHANGED <<got, body, eof>>
     \/ /\ body # <<>> /\ heard                            \* the upstream has ended
        /\ reqs' = "bad" /\ UNCHANGED <<got, body, eof>>
  /\ UNCHANGED <<clientVars, at, code, cut, wireVars, resp, heard, gaveUp>>

\* The upstream answers, or ends the stream.
UpstreamAnswers ==
  /\ resp = "recv" /\ at # "returned" /\ Len(out) < 2 * MaxOut
  /\ heard' = TRUE /\ resp' \in {"head", "done"}
  /\ UNCHANGED <<clientVars, at, code, bodyVars, wireVars, reqs, gaveUp>>

\* SendMsg by the response pump: the two writes of a frame.
PumpHead ==
  /\ resp = "head"
  /\ SendHeader
  /\ out' = Append(out, Half("msg", 1))
  /\ resp' = "rest"
  /\ UNCHANGED <<clientVars, at, code, bodyVars, reqs, heard, gaveUp>>

PumpRest ==
  /\ resp = "rest"
  /\ out' = Append(out, Half("msg", 2))
  /\ resp' = IF gaveUp THEN "done" ELSE "recv"
  /\ UNCHANGED <<clientVars, at, code, bodyVars, typed, reqs, heard, gaveUp>>

\* Fault: a request pump that failed does not wait for the responses.
AwaitNoResponses ==
  /\ at = "await"
  /\ \/ resp = "done" /\ UNCHANGED gaveUp
     \/ resp # "done" /\ reqs = "bad" /\ UNCHANGED gaveUp
  /\ at' = "record"
  /\ code' \in {"OK", "Error"}
  /\ UNCHANGED <<clientVars, bodyVars, wireVars, resp, reqs, heard>>

\* awaitBidiCompletion: the end of the responses, or of the guard that waits for
\* them after the requests have failed.
Await ==
  /\ at = "await"
  /\ \/ resp = "done" /\ UNCHANGED gaveUp
     \/ resp # "done" /\ reqs = "bad" /\ gaveUp' = TRUE
  /\ at' = "record"
  /\ code' \in IF reqs = "bad" THEN {"Error"} ELSE {"OK", "Error"}
  /\ UNCHANGED <<clientVars, bodyVars, wireVars, resp, reqs, heard>>

\* The record waits for the header of the upstream.
RecordHeader ==
  /\ at = "record" /\ heard
  /\ at' = "finish"
  /\ UNCHANGED <<clientVars, code, bodyVars, wireVars, pumpVars>>

\* The context of the upstream call ends with the handler.
PumpCanceled ==
  /\ resp = "recv" /\ at \in {"finish", "ending", "returned"}
  /\ resp' = "done"
  /\ UNCHANGED <<clientVars, at, code, bodyVars, wireVars, reqs, heard, gaveUp>>

----------------------------------------------------------------------------
Next ==
  \/ ClientSends \/ ClientEnds \/ CaptureBody
  \/ Refuse \/ Dispatch \/ Finish \/ FinishRest
  \/ UnaryRequest \/ UnaryAnswer
  \/ HandlerReceives \/ HandlerSends \/ HandlerReturns
  \/ OpenPumps \/ PumpRequest \/ UpstreamAnswers \/ PumpHead \/ PumpRest
  \/ Await \/ RecordHeader \/ PumpCanceled

Spec == Init /\ [][Next]_vars

----------------------------------------------------------------------------
(* Properties.                                                             *)

EndAt == {i \in 1..Len(out) : out[i].frame = "end"}

\* A response is a run of whole messages followed by one end frame, after a
\* content type: "the caller must finish with a trailers frame"
\* (grpcweb_gateway.go:374).  A handler that gave its response pump up may end
\* the response inside the pump's one last message or before it; a gRPC-Web
\* stream that ends well without a message has no content type, and a unary
\* answer that cannot be encoded has neither message nor end.
ResponseFramed ==
  /\ Cardinality(EndAt) <= 2
  /\ out # <<>> => typed \/ (req.proto = "web" /\ code = "OK" /\ out[1].frame = "end")
  /\ ~gaveUp =>
       /\ \A i \in 1..Len(out) :
            out[i].part = 2 => i > 1 /\ out[i - 1] = Half(out[i].frame, 1)
       /\ \A i \in EndAt : \A j \in i..Len(out) : out[j].frame = "end"
  /\ gaveUp =>
       Cardinality({j \in 1..Len(out) : \E i \in EndAt : i < j /\ out[j].frame = "msg"}) <= 2
  /\ at = "returned" =>
       \/ out = <<Half("plain", 1)>>
       \/ ~Streaming /\ code = "Unencodable" /\ out = <<>>
       \/ ~Streaming /\ req.proto = "connect" /\ out = Frame("msg")
       \/ Cardinality(EndAt) = 2

\* A handler gets the messages of the client in their order, and takes them for
\* complete only when they are: unless the body was longer than what the access
\* log keeps of it, or the client broke off and the log ignored that.
RequestDelivered ==
  /\ \A i \in 1..Len(got) : got[i] = i
  /\ eof => \/ Len(got) = Len(req.frames)
            \/ Size(Len(req.frames)) > Limit
            \/ client = "broken"
=============================================================================
