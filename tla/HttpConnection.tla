--------------------------- MODULE HttpConnection ---------------------------
(***************************************************************************)
(* One connection of the file server "P2 Socket/02-socket/http-server.c":  *)
(* client_worker, from the accepted socket to the last free, and the       *)
(* client at the other end.  The worker finds the requests in a stream     *)
(* that arrives in any pieces, answers each before it reads the next, and  *)
(* must leave the connection, and everything it holds, on every error.     *)
(*                                                                         *)
(* The stream is a sequence of tokens: the number n of a request stands    *)
(* for the first lines of the nth request sent, CRLF for an end of line    *)
(* and BODY for a piece of a request's body.  A blank line is two CRLF in  *)
(* succession, which a read may separate.  A file, a range and a response  *)
(* body are measured in units; the content of a file is its positions.     *)
(***************************************************************************)
EXTENDS ByteRange, Sequences, FiniteSets

CONSTANTS
  Request,         \* the requests a client may send
  MaxRequests,     \* how many it sends
  REQUEST_LIMIT,   \* the size of the request buffer, in tokens
  IO_BUFFER_SIZE,  \* how much of a file is read at once
  MaxFile          \* the largest size of the file

ASSUME RequestAssumption ==
  Request \subseteq [method : {"GET", "POST"}, version : {"none", "1.0", "1.1", "other"},
                     connection : SUBSET {"close", "keep-alive"},
                     target : {"file", "outside", "long", "huge"},
                     range : RangeValue \cup {None}]

ASSUME SizeAssumption == /\ MaxRequests \in Nat /\ MaxFile \in Nat
                         /\ REQUEST_LIMIT \in Nat /\ IO_BUFFER_SIZE \in Nat \ {0}

VARIABLES
  tls,     \* client_args.use_tls: the connection came in on port 443
  client,  \* what the client is about: open, closed, reset or silent
  sent,    \* the requests it has sent
  stream,  \* the tokens the worker has not read yet
  exists,  \* whether the file is there
  size,    \* its size
  pc,      \* where the worker is
  again,   \* a TLS call has timed out and is about to be repeated
  buffer,  \* struct request_buffer
  request, \* the number of the request that is processed, 0 when malformed
  reply,   \* the response that is being sent
  left,    \* what connection_write_all still has to send of a file buffer
  output,  \* what the client has been sent
  held     \* what the worker has to release

clientVars == <<client, sent, stream>>

givenVars == <<tls, exists, size>>

writeVars == <<reply, left, output>>

vars == <<clientVars, givenVars, pc, again, buffer, request, writeVars, held>>

CRLF == 0

BODY == -1

\* A request with a huge target needs more room.  Only a POST has a body.
Text(n, r) == (IF r.target = "huge" THEN <<n, CRLF>> ELSE <<>>)
              \o <<n, CRLF, CRLF>>
              \o (IF r.method = "POST" THEN <<BODY>> ELSE <<>>)

Reply == [to : Nat, status : {200, 206, 301, 400, 404, 405, 416, 431},
          keep : BOOLEAN, start : Nat, end : Nat \cup {-1}]

Nothing == [to |-> 0, status |-> 400, keep |-> FALSE, start |-> 0, end |-> -1]

Entry(r, body) == [reply |-> r, body |-> body]

Promised(r) == r.end - r.start + 1

Base == IF tls THEN {"fd", "args", "ssl"} ELSE {"fd", "args"}

\* The types of the variables; the buffer never holds more than its limit.
TypeOK ==
  /\ client \in {"open", "closed", "reset", "silent"}
  /\ sent \in Seq(Request) /\ stream \in Seq(Nat \cup {BODY})
  /\ tls \in BOOLEAN /\ exists \in BOOLEAN /\ size \in 0..MaxFile
  /\ pc \in {"start", "handshake", "receive", "process", "header", "text", "file",
             "write", "release", "closed"}
  /\ again \in BOOLEAN
  /\ buffer \in Seq(Nat \cup {BODY}) /\ Len(buffer) <= REQUEST_LIMIT
  /\ request \in Nat
  /\ reply \in Reply
  /\ left \in 0..IO_BUFFER_SIZE
  /\ output \in Seq([reply : Reply, body : Seq(Nat)])
  /\ held \subseteq {"fd", "args", "ssl", "request", "file"}

Init ==
  /\ client = "open" /\ sent = <<>> /\ stream = <<>>
  /\ tls \in BOOLEAN /\ exists \in BOOLEAN /\ size \in 0..MaxFile
  /\ pc = "start" /\ again = FALSE
  /\ buffer = <<>> /\ request = 0
  /\ reply = Nothing /\ left = 0 /\ output = <<>>
  /\ held = {"fd", "args"}

-----------------------------------------------------------------------------
(***************************************************************************)
(* The client, and the file.                                               *)
(***************************************************************************)

ClientSends(r) ==
  /\ client = "open" /\ Len(sent) < MaxRequests
  /\ tls => pc \notin {"start", "handshake"}
  /\ sent' = Append(sent, r)
  /\ stream' = stream \o Text(Len(sent'), r)
  /\ UNCHANGED <<client, givenVars, pc, again, buffer, request, writeVars, held>>

\* The client closes or resets the connection, or goes silent: it neither
\* sends nor reads any more.  The end of what it was sending may be missing.
ClientStops(how) ==
  /\ client = "open"
  /\ client' = how
  /\ \E n \in 0..Len(stream) : stream' = SubSeq(stream, 1, n)
  /\ UNCHANGED <<sent, givenVars, pc, again, buffer, request, writeVars, held>>

FileChanges ==
  /\ exists' \in BOOLEAN /\ size' \in 0..MaxFile
  /\ UNCHANGED <<clientVars, tls, pc, again, buffer, request, writeVars, held>>

-----------------------------------------------------------------------------
(***************************************************************************)
(* Setting up.                                                             *)
(***************************************************************************)

\* The worker is at the step p of its program.
At(p) == pc = p /\ ~again

\* SSL_new gives the connection its own SSL object, or fails.
Begin ==
  /\ At("start")
  /\ \/ ~tls /\ pc' = "receive" /\ UNCHANGED held
     \/ tls /\ pc' = "handshake" /\ held' = held \cup {"ssl"}
     \/ tls /\ pc' = "closed" /\ held' = {}
  /\ UNCHANGED <<clientVars, givenVars, again, buffer, request, writeVars>>

\* SSL_accept; a failure, which a timeout is, ends the worker.
Handshake ==
  /\ At("handshake")
  /\ \/ client = "open" /\ pc' = "receive" /\ UNCHANGED held
     \/ pc' = "closed" /\ held' = {}
  /\ UNCHANGED <<clientVars, givenVars, again, buffer, request, writeVars>>

-----------------------------------------------------------------------------
(***************************************************************************)
(* receive_request_headers.                                                *)
(***************************************************************************)

\* Mutant of BlankLines: every end of a line ends the header.
LineEnds(b) == {k \in 1..Len(b) : b[k] = CRLF}

\* Where a blank line of the buffer ends.
BlankLines(b) == {k \in 2..Len(b) : b[k - 1] = CRLF /\ b[k] = CRLF}

HeaderEnd(b, k) == k \in BlankLines(b) /\ \A j \in BlankLines(b) : k <= j

\* The first request leaves the buffer, and the rest moves to its front.
TakeRequest ==
  /\ At("receive")
  /\ \E k \in BlankLines(buffer) :
       /\ HeaderEnd(buffer, k)
       /\ request' = IF buffer[1] > 0 THEN buffer[1] ELSE 0
       /\ buffer' = SubSeq(buffer, k + 1, Len(buffer))
  /\ pc' = "process"
  /\ held' = held \cup {"request"}
  /\ UNCHANGED <<clientVars, givenVars, again, writeVars>>

\* There is no request in the buffer.
Incomplete == At("receive") /\ BlankLines(buffer) = {}

\* Mutant of TooLarge: a buffer that is just full is not noticed.
TooLargeLate ==
  /\ Incomplete
  /\ Len(buffer) > REQUEST_LIMIT
  /\ reply' = [Nothing EXCEPT !.status = 431, !.end = 0]
  /\ pc' = "header"
  /\ UNCHANGED <<clientVars, givenVars, again, buffer, request, left, output, held>>

\* A full buffer without a blank line.
TooLarge ==
  /\ Incomplete
  /\ Len(buffer) = REQUEST_LIMIT
  /\ reply' = [Nothing EXCEPT !.status = 431, !.end = 0]
  /\ pc' = "header"
  /\ UNCHANGED <<clientVars, givenVars, again, buffer, request, left, output, held>>

\* A read returns any part of what has arrived.
Read ==
  /\ Incomplete
  /\ client # "reset"
  /\ \E n \in 1..Len(stream) :
       /\ Len(buffer) + n <= REQUEST_LIMIT
       /\ buffer' = buffer \o SubSeq(stream, 1, n)
       /\ stream' = SubSeq(stream, n + 1, Len(stream))
  /\ UNCHANGED <<client, sent, givenVars, pc, again, request, writeVars, held>>

\* The worker leaves its loop: at the end of the stream, on an error, and
\* when it has no memory for a request.
ReceiveFails ==
  /\ \/ /\ Incomplete /\ Len(buffer) < REQUEST_LIMIT
        /\ client = "reset" \/ (client = "closed" /\ stream = <<>>)
     \/ At("receive") /\ BlankLines(buffer) # {}
  /\ pc' = "release"
  /\ UNCHANGED <<clientVars, givenVars, again, buffer, request, writeVars, held>>

\* Mutant of ReadTimesOut: recv is repeated as well.
ReadIsRepeated ==
  /\ Incomplete
  /\ Len(buffer) < REQUEST_LIMIT
  /\ client \in {"open", "silent"} /\ stream = <<>>
  /\ again' = TRUE
  /\ UNCHANGED <<clientVars, givenVars, pc, buffer, request, writeVars, held>>

\* Nothing arrives for ten seconds.  recv fails with EAGAIN, which ends the
\* loop; connection_read turns what SSL_read reports into EINTR.
ReadTimesOut ==
  /\ Incomplete
  /\ Len(buffer) < REQUEST_LIMIT
  /\ client \in {"open", "silent"} /\ stream = <<>>
  /\ IF tls THEN again' = TRUE /\ UNCHANGED pc
            ELSE pc' = "release" /\ UNCHANGED again
  /\ UNCHANGED <<clientVars, givenVars, buffer, request, writeVars, held>>

\* The loop around SSL_read or SSL_write goes round.
TryAgain ==
  /\ again
  /\ again' = FALSE
  /\ UNCHANGED <<clientVars, givenVars, pc, buffer, request, writeVars, held>>

-----------------------------------------------------------------------------
(***************************************************************************)
(* process_http_request decides on the response.                           *)
(***************************************************************************)

KeepAlive(r) == /\ "close" \notin r.connection
                /\ r.version = "1.1" \/ "keep-alive" \in r.connection

\* A response with a short text, or with the bytes of the file.
Short(status, keep) ==
  [to |-> request, status |-> status, keep |-> keep, start |-> 0, end |-> 0]

Redirect(keep) == [Short(301, keep) EXCEPT !.end = -1]

FileReply(status, keep, first, last) ==
  [Short(status, keep) EXCEPT !.start = first, !.end = last]

\* Some header of a redirect does not fit in its buffer.
HasNoReply(r) == ~tls /\ r.target \in {"long", "huge"}

\* send_file_response: open may fail for a file that is there, and fstat
\* reports the size.
FileAnswers(r) ==
  LET range == ParseRange(r.range, size)
      found == IF r.range = None THEN FileReply(200, KeepAlive(r), 0, size - 1)
               ELSE IF range.result < 0 THEN Short(416, KeepAlive(r))
               ELSE FileReply(206, KeepAlive(r), range.start, range.end)
  IN  {Short(404, KeepAlive(r))} \cup (IF exists THEN {found} ELSE {})

\* Mutant of Answers: a version that is none does not close the connection.
AnswersKept(r) ==
  IF r.version = "none" THEN {Short(400, FALSE)}
  ELSE IF r.method # "GET" THEN {Short(405, FALSE)}
  ELSE IF r.version = "other" THEN {Short(400, KeepAlive(r))}
  ELSE IF ~tls THEN {Redirect(KeepAlive(r))}
  ELSE IF r.target # "file" THEN {Short(404, KeepAlive(r))}
  ELSE FileAnswers(r)

Answers(r) ==
  IF r.version = "none" THEN {Short(400, FALSE)}
  ELSE IF r.method # "GET" THEN {Short(405, FALSE)}
  ELSE IF r.version = "other" THEN {Short(400, FALSE)}
  ELSE IF ~tls THEN {Redirect(KeepAlive(r))}
  ELSE IF r.target # "file" THEN {Short(404, KeepAlive(r))}
  ELSE FileAnswers(r)

\* A response with bytes of the file leaves the file open.
Process ==
  /\ At("process")
  /\ reply' \in IF request = 0 THEN {Short(400, FALSE)} ELSE Answers(sent[request])
  /\ IF reply'.status = 301 /\ HasNoReply(sent[request])
     THEN pc' = "release" /\ held' = held \ {"request"}
     ELSE /\ pc' = "header"
          /\ held' = IF reply'.status \in {200, 206} THEN held \cup {"file"} ELSE held
  /\ UNCHANGED <<clientVars, givenVars, again, buffer, request, left, output>>

-----------------------------------------------------------------------------
(***************************************************************************)
(* Sending the response.  connection_write_all sends a unit at a time; it  *)
(* fails when the client is gone, and when a client that is silent makes   *)
(* send time out.  SSL_write is repeated instead.                          *)
(***************************************************************************)

CanWrite == client \in {"open", "closed"}

\* The last response that was begun gets one more unit of its body.
Deliver(position) == output' = [output EXCEPT ![Len(output)].body = Append(@, position)]

\* The response is complete: client_worker reads on, or leaves its loop.
Done == /\ pc' = IF reply.keep THEN "receive" ELSE "release"
        /\ held' = held \ {"request", "file"}

WriteHeader ==
  /\ At("header") /\ CanWrite
  /\ output' = Append(output, Entry(reply, <<>>))
  /\ IF reply.status \in {200, 206} THEN pc' = "file" /\ left' = 0 /\ UNCHANGED held
     ELSE IF Promised(reply) = 0 THEN Done /\ UNCHANGED left
     ELSE pc' = "text" /\ UNCHANGED <<left, held>>
  /\ UNCHANGED <<clientVars, givenVars, again, buffer, request, reply>>

WriteText ==
  /\ At("text") /\ CanWrite
  /\ Deliver(0)
  /\ Done
  /\ UNCHANGED <<clientVars, givenVars, again, buffer, request, reply, left>>

\* How much of the response is still to come, and where it is in the file.
Remaining == Promised(reply) - Len(output[Len(output)].body)

Place == reply.start + Len(output[Len(output)].body)

\* Mutant of ReadFile: the end of the file ends the response.
ReadToEnd ==
  /\ At("file")
  /\ IF Remaining = 0 \/ Place >= size
     THEN Done /\ UNCHANGED left
     ELSE /\ left' = 1
          /\ pc' = "write"
          /\ UNCHANGED held
  /\ UNCHANGED <<clientVars, givenVars, again, buffer, request, reply, output>>

\* The next part of the file is read; the file may have become shorter than
\* its Content-Length, and then the worker gives up.
ReadFile ==
  /\ At("file")
  /\ \/ Remaining = 0 /\ Done /\ UNCHANGED left
     \/ /\ Remaining > 0
        /\ left' \in 1..IO_BUFFER_SIZE
        /\ left' <= Remaining /\ Place + left' <= size
        /\ pc' = "write"
        /\ UNCHANGED held
     \/ /\ Remaining > 0
        /\ pc' = "release"
        /\ held' = held \ {"request", "file"}
        /\ UNCHANGED left
  /\ UNCHANGED <<clientVars, givenVars, again, buffer, request, reply, output>>

WriteFile ==
  /\ At("write") /\ CanWrite
  /\ Deliver(Place)
  /\ left' = left - 1
  /\ pc' = IF left' = 0 THEN "file" ELSE "write"
  /\ UNCHANGED <<clientVars, givenVars, again, buffer, request, reply, held>>

Writing == At("header") \/ At("text") \/ At("write")

\* Mutant of WriteFails: the file stays open.
WriteFailsOpen ==
  /\ Writing
  /\ client \in {"closed", "reset"} \/ (client = "silent" /\ ~tls)
  /\ pc' = "release"
  /\ held' = held \ {"request"}
  /\ UNCHANGED <<clientVars, givenVars, again, buffer, request, writeVars>>

WriteFails ==
  /\ Writing
  /\ client \in {"closed", "reset"} \/ (client = "silent" /\ ~tls)
  /\ pc' = "release"
  /\ held' = held \ {"request", "file"}
  /\ UNCHANGED <<clientVars, givenVars, again, buffer, request, writeVars>>

WriteTimesOut ==
  /\ Writing
  /\ client = "silent" /\ tls
  /\ again' = TRUE
  /\ UNCHANGED <<clientVars, givenVars, pc, buffer, request, writeVars, held>>

\* The TLS session, the socket and the arguments, in this order.
Release ==
  /\ At("release")
  /\ pc' = "closed"
  /\ held' = held \ Base
  /\ UNCHANGED <<clientVars, givenVars, again, buffer, request, writeVars>>

-----------------------------------------------------------------------------
Worker ==
  \/ Begin \/ Handshake
  \/ TakeRequest \/ TooLarge \/ Read \/ ReceiveFails \/ ReadTimesOut \/ TryAgain
  \/ Process
  \/ WriteHeader \/ WriteText \/ ReadFile \/ WriteFile \/ WriteFails \/ WriteTimesOut
  \/ Release

Next ==
  \/ \E r \in Request : ClientSends(r)
  \/ \E how \in {"closed", "reset", "silent"} : ClientStops(how)
  \/ FileChanges
  \/ Worker

Spec == Init /\ [][Next]_vars

\* The thread of the worker runs, and a socket call that can return does.
FairSpec == Spec /\ WF_vars(Worker)

-----------------------------------------------------------------------------
(***************************************************************************)
(* Properties.                                                             *)
(***************************************************************************)

\* The responses answer the requests in the order they were sent, one each,
\* however the stream was cut into reads.  Only the last response may be for
\* something that is no request of the client (a header that is too large).
AnswersInOrder ==
  \A i \in DOMAIN output :
    \/ output[i].reply.to = i /\ i <= Len(sent)
    \/ output[i].reply.to = 0 /\ output[i].reply.status = 431 /\ i = Len(output)

\* What follows a response on the connection is the next response: every one
\* but the last has all of its Content-Length and says keep-alive, though the
\* file may change while it is sent.
StreamStaysFramed ==
  \A i \in DOMAIN output :
    LET r == output[i].reply
        body == output[i].body
    IN  /\ Len(body) <= Promised(r)
        /\ i < Len(output) => Len(body) = Promised(r) /\ r.keep
        /\ \A k \in DOMAIN body : body[k] = r.start + k - 1

\* A response is the last one to a client that asked for the connection to be
\* closed (or, with HTTP/1.0, did not ask for it to be kept), and to one whose
\* request was not understood: no request line (400), no GET (405), no version
\* of HTTP (400), or nothing that begins with a request (400).
CloseIsHonoured ==
  \A i \in DOMAIN output :
    i < Len(output) =>
      /\ output[i].reply.to \in DOMAIN sent
      /\ LET r == sent[output[i].reply.to]
         IN  /\ "close" \notin r.connection
             /\ r.version = "1.0" => "keep-alive" \in r.connection
             /\ r.method = "GET" /\ r.version \in {"1.0", "1.1"}

\* Whichever way the worker ends, it has released what it held, and between
\* two requests it holds neither a request nor a file.
NothingLeaks ==
  /\ pc = "closed" => held = {}
  /\ pc = "receive" => held = Base
  /\ "file" \in held => pc \in {"header", "file", "write"} /\ "request" \in held

\* http-server.c:793 and :827: the loop is left on a timeout, so that no
\* connection occupies a worker for ever.
SilentClientIsLeft == client = "silent" ~> pc = "closed"

\* Whatever the worker is about, a client that closes or resets the connection
\* is noticed, and on port 80 a client that neither sends nor reads any more is
\* left after the timeout of the socket.
LostClientIsLeft ==
  (client \in {"closed", "reset"} \/ (client = "silent" /\ ~tls)) ~> pc = "closed"

\* Every request that arrives is answered, or the connection is closed, while
\* the client reads.
RequestsAreAnswered ==
  \A n \in 1..MaxRequests :
    (Len(sent) >= n /\ client = "open")
      ~> \/ client # "open" \/ pc = "closed"
         \/ Len(output) >= n /\ Len(output[n].body) = Promised(output[n].reply)
=============================================================================
