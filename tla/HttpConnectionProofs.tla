------------------------ MODULE HttpConnectionProofs ------------------------
(***************************************************************************)
(* Proofs about one connection of the file server, for every set of        *)
(* requests, every file and every size of the buffers.                     *)
(***************************************************************************)
EXTENDS HttpConnection, ByteRangeProofs, SequenceTheorems

USE DEF clientVars, givenVars, writeVars

-----------------------------------------------------------------------------
(***************************************************************************)
(* The stream and the file.                                                *)
(***************************************************************************)

Token(n) == {BODY} \cup 0..n

\* What is on its way, or in the buffer, is about a request that was sent.
StreamInv ==
  /\ client \in {"open", "closed", "reset", "silent"}
  /\ tls \in BOOLEAN /\ exists \in BOOLEAN /\ size \in 0..MaxFile
  /\ sent \in Seq(Request)
  /\ stream \in Seq(Token(Len(sent)))
  /\ buffer \in Seq(Token(Len(sent))) /\ Len(buffer) <= REQUEST_LIMIT
  /\ request \in 0..Len(sent)

streamVars == <<clientVars, givenVars, buffer, request>>

\* The first k elements and the rest.
LEMMA Cut ==
  ASSUME NEW S, NEW s \in Seq(S), NEW k \in 0..Len(s)
  PROVE  /\ SubSeq(s, 1, k) \in Seq(S) /\ Len(SubSeq(s, 1, k)) = k
         /\ SubSeq(s, k + 1, Len(s)) \in Seq(S) /\ Len(SubSeq(s, k + 1, Len(s))) = Len(s) - k
<1>1. Len(s) \in Nat /\ k \in Nat /\ \A i \in 1..Len(s) : s[i] \in S
  BY LenProperties, ElementOfSeq
<1>2. \A i \in 1..k : s[i] \in S
  BY <1>1
<1>3. \A i \in (k + 1)..Len(s) : s[i] \in S
  BY <1>1
<1>4. SubSeq(s, 1, k) \in Seq(S) /\ Len(SubSeq(s, 1, k)) = IF 1 <= k THEN k - 1 + 1 ELSE 0
  BY <1>1, <1>2, SubSeqProperties
<1>5. /\ SubSeq(s, k + 1, Len(s)) \in Seq(S)
      /\ Len(SubSeq(s, k + 1, Len(s))) =
           IF k + 1 <= Len(s) THEN Len(s) - (k + 1) + 1 ELSE 0
  BY <1>1, <1>3, SubSeqProperties
<1>. QED  BY <1>1, <1>4, <1>5

\* The tokens of the nth request.
LEMMA TextTokens ==
  ASSUME NEW n \in Nat, NEW r
  PROVE  Text(n, r) \in Seq(Token(n))
<1>1. n \in Token(n) /\ CRLF \in Token(n) /\ BODY \in Token(n)
  BY DEF Token, CRLF
<1>2. /\ <<n, CRLF>> \in Seq(Token(n)) /\ <<n, CRLF, CRLF>> \in Seq(Token(n))
      /\ <<BODY>> \in Seq(Token(n)) /\ <<>> \in Seq(Token(n))
  BY <1>1, EmptySeq
<1>3. \A s, t, u \in Seq(Token(n)) : s \o t \o u \in Seq(Token(n))
  BY ConcatProperties
<1>. QED  BY <1>2, <1>3 DEF Text

\* The first layer is inductive.
LEMMA StreamStep ==
  ASSUME StreamInv, [Next]_vars
  PROVE  StreamInv'
<1>0. Len(sent) \in Nat
  BY LenProperties DEF StreamInv
<1>1. CASE UNCHANGED streamVars
  BY <1>1 DEF StreamInv, streamVars
<1>2. ASSUME NEW r \in Request, ClientSends(r)
      PROVE  StreamInv'
  <2>1. sent' \in Seq(Request) /\ Len(sent') = Len(sent) + 1
    BY <1>2, AppendProperties DEF StreamInv, ClientSends
  <2>2. Token(Len(sent)) \subseteq Token(Len(sent')) /\ Len(sent') \in Nat
    BY <1>0, <2>1 DEF Token
  <2>3. stream \in Seq(Token(Len(sent'))) /\ buffer \in Seq(Token(Len(sent')))
    BY <2>2, SeqMonotonic DEF StreamInv
  <2>4. stream' \in Seq(Token(Len(sent')))
    BY <1>2, <2>2, <2>3, TextTokens, ConcatProperties DEF ClientSends
  <2>5. request \in 0..Len(sent')
    BY <1>0, <2>1 DEF StreamInv
  <2>. QED  BY <1>2, <2>1, <2>3, <2>4, <2>5 DEF StreamInv, ClientSends
<1>3. ASSUME NEW how \in {"closed", "reset", "silent"}, ClientStops(how)
      PROVE  StreamInv'
  <2>1. PICK n \in 0..Len(stream) : stream' = SubSeq(stream, 1, n)
    BY <1>3 DEF ClientStops
  <2>2. stream' \in Seq(Token(Len(sent)))
    BY <2>1, Cut DEF StreamInv
  <2>. QED  BY <1>3, <2>2 DEF StreamInv, ClientStops
<1>4. CASE FileChanges
  BY <1>4 DEF StreamInv, FileChanges
<1>5. CASE TakeRequest
  <2>1. PICK k \in BlankLines(buffer) :
          /\ request' = IF buffer[1] > 0 THEN buffer[1] ELSE 0
          /\ buffer' = SubSeq(buffer, k + 1, Len(buffer))
    BY <1>5 DEF TakeRequest
  <2>2. Len(buffer) \in Nat /\ k \in 2..Len(buffer)
    BY LenProperties DEF StreamInv, BlankLines
  <2>3. buffer' \in Seq(Token(Len(sent))) /\ Len(buffer') = Len(buffer) - k
    BY <2>1, <2>2, Cut DEF StreamInv
  <2>4. buffer[1] \in Token(Len(sent))
    BY <2>2, ElementOfSeq DEF StreamInv
  <2>5. request' \in 0..Len(sent)
    BY <1>0, <2>1, <2>4 DEF Token, BODY
  <2>6. Len(buffer') <= REQUEST_LIMIT
    BY <2>2, <2>3, SizeAssumption DEF StreamInv
  <2>. QED  BY <1>5, <2>3, <2>5, <2>6 DEF StreamInv, TakeRequest
<1>6. CASE Read
  <2>1. PICK n \in 1..Len(stream) :
          /\ Len(buffer) + n <= REQUEST_LIMIT
          /\ buffer' = buffer \o SubSeq(stream, 1, n)
          /\ stream' = SubSeq(stream, n + 1, Len(stream))
    BY <1>6 DEF Read
  <2>2. n \in 0..Len(stream)
    BY LenProperties DEF StreamInv
  <2>3. /\ SubSeq(stream, 1, n) \in Seq(Token(Len(sent))) /\ Len(SubSeq(stream, 1, n)) = n
        /\ stream' \in Seq(Token(Len(sent)))
    BY <2>1, <2>2, Cut DEF StreamInv
  <2>4. buffer' \in Seq(Token(Len(sent))) /\ Len(buffer') = Len(buffer) + n
    BY <2>1, <2>3, ConcatProperties DEF StreamInv
  <2>. QED  BY <1>6, <2>1, <2>3, <2>4 DEF StreamInv, Read
<1>7. CASE Worker /\ ~TakeRequest /\ ~Read
  BY <1>1, <1>7 DEF Worker, Begin, Handshake, TooLarge, ReceiveFails, ReadTimesOut, TryAgain,
     Process, WriteHeader, WriteText, ReadFile, WriteFile, WriteFails, WriteTimesOut, Release,
     streamVars
<1>8. CASE UNCHANGED vars
  BY <1>1, <1>8 DEF vars, streamVars
<1>. QED  BY <1>2, <1>3, <1>4, <1>5, <1>6, <1>7, <1>8 DEF Next

-----------------------------------------------------------------------------
(***************************************************************************)
(* The worker and what it holds.                                           *)
(***************************************************************************)

\* What the worker holds at every place of its program.
Holds ==
  CASE pc = "start" -> {{"fd", "args"}}
    [] pc \in {"handshake", "receive", "release"} -> {Base}
    [] pc = "process" -> {Base \cup {"request"}}
    [] pc = "header" -> IF reply.status \in {200, 206} THEN {Base \cup {"request", "file"}}
                        ELSE {Base, Base \cup {"request"}}
    [] pc = "text" -> {Base, Base \cup {"request"}}
    [] pc \in {"file", "write"} -> {Base \cup {"request", "file"}}
    [] OTHER -> {{}}

\* The second layer.
HeldInv ==
  /\ pc \in {"start", "handshake", "receive", "process", "header", "text", "file",
             "write", "release", "closed"}
  /\ again \in BOOLEAN /\ tls \in BOOLEAN
  /\ pc = "handshake" => tls
  /\ held \in Holds

\* It is inductive.
LEMMA HeldStep ==
  ASSUME HeldInv, [Next]_vars
  PROVE  HeldInv'
<1>. USE DEF HeldInv, Holds, Base, At
<1>1. CASE UNCHANGED <<pc, again, tls, reply, held>>
  BY <1>1
<1>2. CASE Begin
  BY <1>2 DEF Begin
<1>3. CASE Handshake
  BY <1>3 DEF Handshake
<1>4. CASE TakeRequest
  BY <1>4 DEF TakeRequest
<1>5. CASE TooLarge
  BY <1>5 DEF TooLarge, Incomplete, Nothing
<1>6. CASE ReceiveFails
  BY <1>6 DEF ReceiveFails, Incomplete
<1>7. CASE ReadTimesOut
  BY <1>7 DEF ReadTimesOut, Incomplete
<1>8. CASE TryAgain
  BY <1>8 DEF TryAgain
<1>9. CASE Process
  BY <1>9 DEF Process
<1>10. CASE WriteHeader
  BY <1>10 DEF WriteHeader, Done
<1>11. CASE WriteText
  BY <1>11 DEF WriteText, Done
<1>12. CASE ReadFile
  BY <1>12 DEF ReadFile, Done
<1>13. CASE WriteFile
  BY <1>13 DEF WriteFile
<1>14. CASE WriteFails
  BY <1>14 DEF WriteFails, Writing
<1>15. CASE WriteTimesOut
  BY <1>15 DEF WriteTimesOut
<1>16. CASE Release
  BY <1>16 DEF Release
<1>17. CASE \/ \E r \in Request : ClientSends(r)
            \/ \E how \in {"closed", "reset", "silent"} : ClientStops(how)
            \/ FileChanges \/ Read \/ UNCHANGED vars
  BY <1>1, <1>17 DEF ClientSends, ClientStops, FileChanges, Read, vars
<1>. QED  BY <1>2, <1>3, <1>4, <1>5, <1>6, <1>7, <1>8, <1>9, <1>10, <1>11, <1>12, <1>13,
             <1>14, <1>15, <1>16, <1>17 DEF Next, Worker

-----------------------------------------------------------------------------
(***************************************************************************)
(* The response.                                                           *)
(***************************************************************************)

\* What is asked of a response to send it: its length is not negative, and a
\* short text begins at 0 and has at most one unit.
Sendable(r) ==
  /\ r \in Reply
  /\ r.to \in 0..Len(sent)
  /\ Promised(r) \in Nat
  /\ r.status \notin {200, 206} => r.start = 0 /\ r.end \in {-1, 0}

\* Only a request that allows it is answered on a connection that goes on.
Honoured(r) ==
  r.to \in DOMAIN sent /\ r.keep =>
    /\ "close" \notin sent[r.to].connection
    /\ sent[r.to].version = "1.0" => "keep-alive" \in sent[r.to].connection
    /\ sent[r.to].method = "GET" /\ sent[r.to].version \in {"1.0", "1.1"}

\* The third layer.
ReplyInv ==
  /\ reply \in Reply
  /\ pc \in {"header", "text", "file", "write"} => Sendable(reply) /\ Honoured(reply)

\* A range is refused, or it lies in the file.
LEMMA RangeResult ==
  ASSUME NEW v \in RangeValue, NEW n \in Nat
  PROVE  \/ ParseRange(v, n).result < 0
         \/ /\ ParseRange(v, n).start \in Nat /\ ParseRange(v, n).end \in Nat
            /\ ParseRange(v, n).start <= ParseRange(v, n).end
<1>1. ParseRange(v, n).result \in {-1, 1}
  BY DEF ParseRange, SuffixRange, IntervalRange, Illegal, Bytes
<1>2. ParseRange(v, n).result = 1 =>
        /\ ParseRange(v, n).start \in 0..n - 1
        /\ ParseRange(v, n).end \in ParseRange(v, n).start..n - 1
  BY AnsweredRangeIsInFile DEF InFile
<1>. QED  BY <1>1, <1>2

\* A short response, whatever it says.
LEMMA ShortIsSendable ==
  ASSUME StreamInv, NEW status \in {301, 400, 404, 405, 416}, NEW keep \in BOOLEAN
  PROVE  /\ Sendable(Short(status, keep)) /\ Sendable(Redirect(keep))
         /\ Short(status, keep).to = request /\ Redirect(keep).to = request
         /\ Short(status, keep).keep = keep /\ Redirect(keep).keep = keep
<1>1. request \in Nat /\ request \in 0..Len(sent)
  BY LenProperties DEF StreamInv
<1>. QED  BY <1>1 DEF Sendable, Short, Redirect, Reply, Promised

\* One after which the connection is closed honours any request.
LEMMA ShortCloses ==
  ASSUME StreamInv, NEW status \in {400, 405}
  PROVE  Sendable(Short(status, FALSE)) /\ Honoured(Short(status, FALSE))
<1>1. \A keep \in BOOLEAN : Sendable(Short(status, keep))
  BY ShortIsSendable
<1>2. ~Short(status, FALSE).keep
  BY DEF Short
<1>3. Sendable(Short(status, FALSE))
  BY <1>1
<1>. QED  BY <1>2, <1>3 DEF Honoured

\* A response with bytes of the file.
LEMMA FileReplyIsSendable ==
  ASSUME StreamInv, NEW status \in {200, 206}, NEW keep \in BOOLEAN,
         NEW first \in Nat, NEW last \in Nat \cup {-1}, first <= last + 1
  PROVE  /\ Sendable(FileReply(status, keep, first, last))
         /\ FileReply(status, keep, first, last).to = request
         /\ FileReply(status, keep, first, last).keep = keep
<1>1. request \in Nat /\ request \in 0..Len(sent)
  BY LenProperties DEF StreamInv
<1> DEFINE R == FileReply(status, keep, first, last)
<1>2. R \in [to : Nat, status : {200, 206}, keep : BOOLEAN, start : Nat, end : Nat \cup {-1}]
  BY <1>1 DEF FileReply, Short
<1>3. /\ R.to = request /\ R.status = status /\ R.keep = keep /\ R.start = first
      /\ R.end = last
  BY DEF FileReply, Short
<1>4. last - first + 1 \in Nat
  OBVIOUS
<1>. HIDE DEF R
<1>5. R \in Reply
  BY <1>2 DEF Reply
<1>6. Sendable(R)
  BY <1>1, <1>3, <1>4, <1>5 DEF Sendable, Promised
<1>. QED  BY <1>3, <1>6 DEF R

\* What is decided on can be sent and honours the request.
LEMMA AnswersAreSendable ==
  ASSUME StreamInv, request # 0, NEW a \in Answers(sent[request])
  PROVE  Sendable(a) /\ Honoured(a)
<1> DEFINE r == sent[request]
<1>1. request \in 1..Len(sent) /\ r \in Request /\ DOMAIN sent = 1..Len(sent)
  <2>1. request \in 1..Len(sent)
    BY LenProperties DEF StreamInv
  <2>. QED  BY <2>1, ElementOfSeq, LenProperties DEF StreamInv
<1>2. /\ r.method \in {"GET", "POST"} /\ r.version \in {"none", "1.0", "1.1", "other"}
      /\ r.range \in RangeValue \cup {None}
  BY <1>1, RequestAssumption
<1>3. size \in Nat
  BY SizeAssumption DEF StreamInv
<1>4. KeepAlive(r) \in BOOLEAN
  BY DEF KeepAlive
<1>5. KeepAlive(r) /\ r.method = "GET" /\ r.version \in {"1.0", "1.1"} =>
        /\ "close" \notin r.connection
        /\ r.version = "1.0" => "keep-alive" \in r.connection
        /\ r.method = "GET" /\ r.version \in {"1.0", "1.1"}
  BY DEF KeepAlive
<1>6. ASSUME NEW b, b.to = request,
             b.keep => KeepAlive(r) /\ r.method = "GET" /\ r.version \in {"1.0", "1.1"}
      PROVE  Honoured(b)
  <2>1. CASE ~b.keep
    BY <2>1, Zenon DEF Honoured
  <2>2. CASE b.keep
    <3>. HIDE DEF r
    <3>1. /\ "close" \notin r.connection
          /\ r.version = "1.0" => "keep-alive" \in r.connection
          /\ r.method = "GET" /\ r.version \in {"1.0", "1.1"}
      BY <1>5, <1>6, <2>2, Zenon
    <3>2. r = sent[b.to]
      BY <1>6 DEF r
    <3>. QED  BY <3>1, <3>2, Zenon DEF Honoured
  <2>. QED  BY <2>1, <2>2
<1>. HIDE DEF r
<1>7. CASE a \in {Short(400, FALSE), Short(405, FALSE)}
  <2>1. Sendable(Short(400, FALSE)) /\ Honoured(Short(400, FALSE))
    BY ShortCloses, Zenon
  <2>2. Sendable(Short(405, FALSE)) /\ Honoured(Short(405, FALSE))
    BY ShortCloses, Zenon
  <2>3. CASE a = Short(400, FALSE)
    BY <2>1, <2>3, Zenon
  <2>4. CASE a = Short(405, FALSE)
    BY <2>2, <2>4, Zenon
  <2>. QED  BY <1>7, <2>3, <2>4
<1>8. CASE /\ r.version \in {"1.0", "1.1"} /\ r.method = "GET"
           /\ a \in {Redirect(KeepAlive(r)), Short(404, KeepAlive(r)),
                     Short(416, KeepAlive(r))}
  <2>1. Sendable(a) /\ a.to = request /\ a.keep = KeepAlive(r)
    BY <1>4, <1>8, ShortIsSendable
  <2>. QED  BY <1>6, <1>8, <2>1
<1>9. CASE r.version \in {"1.0", "1.1"} /\ r.method = "GET" /\ a \in FileAnswers(r)
           /\ a \notin {Short(404, KeepAlive(r)), Short(416, KeepAlive(r))}
  <2> DEFINE range == ParseRange(r.range, size)
  <2>1. CASE r.range = None
    <3>1. a = FileReply(200, KeepAlive(r), 0, size - 1)
      BY <1>9, <2>1 DEF FileAnswers
    <3>2. size - 1 \in Nat \cup {-1} /\ 0 <= (size - 1) + 1
      BY <1>3
    <3>3. Sendable(a) /\ a.to = request /\ a.keep = KeepAlive(r)
      BY <1>4, <3>1, <3>2, FileReplyIsSendable
    <3>. QED  BY <1>6, <1>9, <3>3
  <2>2. CASE r.range # None
    <3>1. ~(range.result < 0) /\ a = FileReply(206, KeepAlive(r), range.start, range.end)
      BY <1>9, <2>2 DEF FileAnswers
    <3>2. range.start \in Nat /\ range.end \in Nat /\ range.start <= range.end
      BY <1>2, <1>3, <2>2, <3>1, RangeResult
    <3>3. range.end \in Nat \cup {-1} /\ range.start <= range.end + 1
      BY <3>2
    <3>. HIDE DEF range
    <3>4. Sendable(a) /\ a.to = request /\ a.keep = KeepAlive(r)
      BY <1>4, <3>1, <3>2, <3>3, FileReplyIsSendable
    <3>. QED  BY <1>6, <1>9, <3>4
  <2>. QED  BY <2>1, <2>2
<1>10. a \in Answers(r)
  BY DEF r
<1>11. \/ a \in {Short(400, FALSE), Short(405, FALSE)}
       \/ /\ r.version \in {"1.0", "1.1"} /\ r.method = "GET"
          /\ a \in {Redirect(KeepAlive(r)), Short(404, KeepAlive(r))} \cup FileAnswers(r)
  <2>1. CASE r.version = "none" \/ r.method # "GET" \/ r.version = "other"
    BY <1>10, <2>1 DEF Answers
  <2>2. CASE ~(r.version = "none" \/ r.method # "GET" \/ r.version = "other")
    <3>1. r.version \in {"1.0", "1.1"}
      BY <1>2, <2>2
    <3>. QED  BY <1>10, <2>2, <3>1 DEF Answers
  <2>. QED  BY <2>1, <2>2
<1>. QED  BY <1>7, <1>8, <1>9, <1>11

\* The third layer is inductive, given the first.
LEMMA ReplyStep ==
  ASSUME StreamInv, ReplyInv, [Next]_vars
  PROVE  ReplyInv'
<1>1. CASE /\ UNCHANGED <<sent, reply>>
           /\ pc' = pc \/ pc' \notin {"header", "text", "file", "write"}
  BY <1>1 DEF ReplyInv, Sendable, Honoured
<1>2. CASE UNCHANGED <<sent, reply>> /\ pc \in {"header", "text", "file", "write"}
  BY <1>2 DEF ReplyInv, Sendable, Honoured
<1>3. ASSUME NEW r \in Request, ClientSends(r)
      PROVE  ReplyInv'
  <2>1. /\ sent \in Seq(Request) /\ Len(sent') = Len(sent) + 1 /\ Len(sent) \in Nat
        /\ DOMAIN sent = 1..Len(sent) /\ \A k \in 1..Len(sent) : sent'[k] = sent[k]
        /\ DOMAIN sent' = 1..Len(sent') /\ UNCHANGED <<pc, reply>>
    BY <1>3, AppendProperties, LenProperties DEF StreamInv, ClientSends
  <2>2. ASSUME Sendable(reply), Honoured(reply)
        PROVE  Sendable(reply)' /\ Honoured(reply)'
    <3>1. reply.to \in 0..Len(sent) /\ reply.to \in 0..Len(sent')
      BY <2>1, <2>2 DEF Sendable
    <3>2. reply.to \in DOMAIN sent' =>
            reply.to \in DOMAIN sent /\ sent'[reply.to] = sent[reply.to]
      BY <2>1, <3>1
    <3>3. Sendable(reply)'
      BY <2>1, <2>2, <3>1 DEF Sendable
    <3>4. Honoured(reply)'
      BY <2>1, <2>2, <3>2 DEF Honoured
    <3>. QED  BY <3>3, <3>4
  <2>. QED  BY <2>1, <2>2 DEF ReplyInv
<1>4. CASE TooLarge
  <2>1. /\ UNCHANGED sent /\ pc' = "header"
        /\ reply' = [to |-> 0, status |-> 431, keep |-> FALSE, start |-> 0, end |-> 0]
    BY <1>4 DEF TooLarge, Nothing
  <2>2. 0 \in 0..Len(sent)
    BY LenProperties DEF StreamInv
  <2>. QED  BY <2>1, <2>2 DEF ReplyInv, Sendable, Honoured, Reply, Promised
<1>5. CASE Process
  <2>1. /\ UNCHANGED sent
        /\ reply' \in IF request = 0 THEN {Short(400, FALSE)} ELSE Answers(sent[request])
    BY <1>5 DEF Process
  <2>2. Sendable(reply') /\ Honoured(reply')
    <3>1. CASE request = 0
      <4>1. reply' = Short(400, FALSE)
        BY <2>1, <3>1
      <4>. QED  BY <4>1, ShortCloses, Zenon
    <3>2. CASE request # 0
      BY <2>1, <3>2, AnswersAreSendable
    <3>. QED  BY <3>1, <3>2
  <2>3. Sendable(reply)' /\ Honoured(reply)'
    BY <2>1, <2>2 DEF Sendable, Honoured
  <2>4. reply' \in Reply
    BY <2>2 DEF Sendable
  <2>. QED  BY <2>3, <2>4 DEF ReplyInv
<1>6. CASE \/ \E how \in {"closed", "reset", "silent"} : ClientStops(how)
           \/ FileChanges \/ UNCHANGED vars
  BY <1>1, <1>6 DEF ClientStops, FileChanges, vars
<1>7. CASE \/ Begin \/ Handshake \/ TakeRequest \/ Read \/ ReceiveFails \/ ReadTimesOut
           \/ TryAgain \/ WriteFails \/ WriteTimesOut \/ Release
  <2>1. /\ UNCHANGED <<sent, reply>>
        /\ pc' = pc \/ pc' \notin {"header", "text", "file", "write"}
    BY <1>7 DEF Begin, Handshake, TakeRequest, Read, ReceiveFails, ReadTimesOut, TryAgain,
       WriteFails, WriteTimesOut, Release
  <2>. QED  BY <1>1, <2>1
<1>8. CASE WriteHeader \/ WriteText \/ ReadFile \/ WriteFile
  <2>1. UNCHANGED <<sent, reply>> /\ pc \in {"header", "text", "file", "write"}
    BY <1>8 DEF WriteHeader, WriteText, ReadFile, WriteFile, At
  <2>. QED  BY <1>2, <2>1
<1>. QED  BY <1>3, <1>4, <1>5, <1>6, <1>7, <1>8 DEF Next, Worker

-----------------------------------------------------------------------------
(***************************************************************************)
(* What the client is sent.                                                *)
(***************************************************************************)

Output == [reply : Reply, body : Seq(Nat)]

\* A response with a part of its body, and one that is complete and leaves the
\* connection open.
Framed(o) ==
  /\ Len(o.body) <= Promised(o.reply)
  /\ \A k \in 1..Len(o.body) : o.body[k] = o.reply.start + k - 1

Complete(o) == Len(o.body) = Promised(o.reply) /\ o.reply.keep

Last == output[Len(output)]

\* The responses are framed and all but the last one are complete.
OutputInv ==
  /\ output \in Seq(Output)
  /\ \A i \in 1..Len(output) : Framed(output[i])
  /\ \A i \in 1..Len(output) : i < Len(output) => Complete(output[i])

\* Where the worker is tells how much of the last response has been sent.
ProgressInv ==
  /\ pc \in {"start", "handshake", "receive", "process", "header"} =>
       \A i \in 1..Len(output) : Complete(output[i])
  /\ pc \in {"text", "file", "write"} => output # <<>> /\ Last.reply = reply
  /\ pc = "text" => Last.body = <<>> /\ Promised(reply) = 1 /\ reply.start = 0
  /\ pc = "file" => left = 0
  /\ pc = "write" => left \in 1..Remaining
  /\ left \in 0..IO_BUFFER_SIZE

\* The fourth layer.
FrameInv == OutputInv /\ ProgressInv

\* What Deliver makes of the responses.
LEMMA DeliverResult ==
  ASSUME OutputInv, output # <<>>, NEW p \in Nat, Deliver(p),
         Last.reply.start + Len(Last.body) = p, Len(Last.body) < Promised(Last.reply),
         Promised(Last.reply) \in Nat
  PROVE  /\ OutputInv' /\ output' # <<>> /\ Len(output') = Len(output)
         /\ \A i \in 1..Len(output) : i < Len(output) => output'[i] = output[i]
         /\ Last'.reply = Last.reply
         /\ Len(Last'.body) = Len(Last.body) + 1
<1>1. /\ Len(output) \in Nat \ {0} /\ Len(output) \in 1..Len(output)
      /\ Last \in Output
  BY EmptySeq, ElementOfSeq DEF OutputInv, Last
<1>2. Last.body \in Seq(Nat) /\ Len(Last.body) \in Nat /\ Last.reply \in Reply
  BY <1>1, LenProperties DEF Output
<1> DEFINE n == Len(output)
           o == [Last EXCEPT !.body = Append(Last.body, p)]
<1>3. /\ Append(Last.body, p) \in Seq(Nat) /\ Len(Append(Last.body, p)) = Len(Last.body) + 1
      /\ \A k \in 1..Len(Last.body) : Append(Last.body, p)[k] = Last.body[k]
      /\ Append(Last.body, p)[Len(Last.body) + 1] = p
  BY <1>2, AppendProperties
<1>4. o \in Output /\ o.reply = Last.reply /\ o.body = Append(Last.body, p)
  BY <1>1, <1>2, <1>3 DEF Output
<1>5. output' = [output EXCEPT ![n] = o]
  BY DEF Deliver, Last
<1>. HIDE DEF o
<1>6. /\ output' \in Seq(Output) /\ Len(output') = n
      /\ \A j \in 1..n : output'[j] = IF j = n THEN o ELSE output[j]
  BY <1>1, <1>4, <1>5, ExceptSeq DEF OutputInv
<1>7. Last' = o /\ output' # <<>>
  BY <1>1, <1>6, EmptySeq DEF Last
<1>8. Framed(o)
  <2>1. Framed(Last)
    BY <1>1 DEF OutputInv, Last
  <2>2. Len(o.body) <= Promised(o.reply)
    BY <1>2, <1>3, <1>4
  <2>3. ASSUME NEW k \in 1..Len(o.body)
        PROVE  o.body[k] = o.reply.start + k - 1
    <3>1. CASE k = Len(Last.body) + 1
      <4>1. Last.reply.start \in Nat
        BY <1>2 DEF Reply
      <4>. QED  BY <1>2, <1>3, <1>4, <3>1, <4>1
    <3>2. CASE k # Len(Last.body) + 1
      <4>1. k \in 1..Len(Last.body)
        BY <1>2, <1>3, <1>4, <3>2
      <4>. QED  BY <1>3, <1>4, <2>1, <4>1 DEF Framed
    <3>. QED  BY <3>1, <3>2
  <2>. QED  BY <2>2, <2>3 DEF Framed
<1>9. OutputInv'
  <2>1. \A i \in 1..n : Framed(output'[i])
    BY <1>6, <1>8 DEF OutputInv
  <2>2. \A i \in 1..n : i < n => Complete(output'[i])
    BY <1>6 DEF OutputInv
  <2>. QED  BY <1>6, <2>1, <2>2 DEF OutputInv, Framed, Complete, Promised
<1>. QED  BY <1>1, <1>3, <1>4, <1>6, <1>7, <1>9

\* When the last response is complete, all of them are.
LEMMA AllComplete ==
  ASSUME NEW out \in Seq(Output), out # <<>>, Complete(out[Len(out)]),
         \A i \in 1..Len(out) : i < Len(out) => Complete(out[i])
  PROVE  \A i \in 1..Len(out) : Complete(out[i])
<1>1. Len(out) \in Nat \ {0}
  BY EmptySeq
<1>. QED  BY <1>1

\* What is known of the last response.
LEMMA LastResponse ==
  ASSUME OutputInv, output # <<>>
  PROVE  /\ Last \in Output /\ Last.body \in Seq(Nat) /\ Len(Last.body) \in Nat
         /\ Len(Last.body) <= Promised(Last.reply)
         /\ Last.reply.start \in Nat
<1>1. /\ Len(output) \in Nat \ {0} /\ Len(output) \in 1..Len(output)
      /\ Last \in Output
  BY EmptySeq, ElementOfSeq DEF OutputInv, Last
<1>2. Last.body \in Seq(Nat) /\ Last.reply \in Reply
  BY <1>1 DEF Output
<1>3. Len(Last.body) <= Promised(Last.reply)
  BY <1>1 DEF OutputInv, Last, Framed
<1>. QED  BY <1>1, <1>2, <1>3, LenProperties DEF Reply

\* A header begins a response without a body.
LEMMA HeaderStep ==
  ASSUME ReplyInv, FrameInv, WriteHeader
  PROVE  FrameInv'
<1>1. /\ pc = "header" /\ output' = Append(output, Entry(reply, <<>>)) /\ UNCHANGED reply
      /\ \/ pc' = "file" /\ left' = 0
         \/ /\ Promised(reply) = 0 /\ left' = left
            /\ pc' = IF reply.keep THEN "receive" ELSE "release"
         \/ /\ Promised(reply) # 0 /\ left' = left /\ reply.status \notin {200, 206}
            /\ pc' = "text"
  BY DEF WriteHeader, At, Done
<1>2. /\ reply \in Reply /\ Promised(reply) \in Nat
      /\ reply.status \notin {200, 206} => reply.start = 0 /\ reply.end \in {-1, 0}
  BY <1>1 DEF ReplyInv, Sendable
<1> DEFINE o == Entry(reply, <<>>)
           n == Len(output)
<1>3. o \in Output /\ o.reply = reply /\ o.body = <<>> /\ Len(o.body) = 0
  BY <1>2, EmptySeq DEF Entry, Output
<1>4. Framed(o)
  BY <1>2, <1>3 DEF Framed
<1>. HIDE DEF o
<1>5. /\ output' \in Seq(Output) /\ Len(output') = n + 1 /\ n \in Nat
      /\ \A i \in 1..n : output'[i] = output[i]
      /\ output'[n + 1] = o
  BY <1>1, <1>3, AppendProperties, LenProperties DEF FrameInv, OutputInv, o
<1>6. \A i \in 1..n : Complete(output[i]) /\ Framed(output[i])
  BY <1>1 DEF FrameInv, ProgressInv, OutputInv
<1>7. OutputInv'
  <2>1. \A i \in 1..(n + 1) : i \in 1..n \/ i = n + 1
    BY <1>5
  <2>2. \A i \in 1..(n + 1) : i < n + 1 => i \in 1..n
    BY <1>5
  <2>3. \A i \in 1..(n + 1) : Framed(output'[i])
    BY <1>4, <1>5, <1>6, <2>1
  <2>4. \A i \in 1..(n + 1) : i < n + 1 => Complete(output'[i])
    BY <1>5, <1>6, <2>2
  <2>. QED  BY <1>5, <2>3, <2>4 DEF OutputInv, Framed, Complete, Promised
<1>8. Last' = o /\ output' # <<>>
  BY <1>5, EmptySeq DEF Last
<1>9. pc' = "text" => Promised(reply) = 1 /\ reply.start = 0
  <2>1. CASE pc' = "text"
    <3>1. reply.start = 0 /\ reply.end \in {-1, 0} /\ Promised(reply) # 0
      BY <1>1, <1>2, <2>1
    <3>. QED  BY <3>1 DEF Promised
  <2>. QED  BY <2>1
<1>10. pc' = "receive" => \A i \in 1..Len(output') : Complete(output'[i])
  <2>1. CASE pc' = "receive"
    <3>1. Promised(reply) = 0 /\ reply.keep
      BY <1>1, <2>1
    <3>2. Complete(o)
      BY <1>3, <3>1 DEF Complete
    <3>3. \A i \in 1..(n + 1) : i \in 1..n \/ i = n + 1
      BY <1>5
    <3>. QED  BY <1>5, <1>6, <3>2, <3>3
  <2>. QED  BY <2>1
<1>11. left' \in 0..IO_BUFFER_SIZE
  BY <1>1, SizeAssumption DEF FrameInv, ProgressInv
<1>12. ProgressInv'
  BY <1>1, <1>3, <1>8, <1>9, <1>10, <1>11 DEF ProgressInv, Complete, Promised, Last
<1>. QED  BY <1>7, <1>12 DEF FrameInv

\* The text of a short response is complete at once.
LEMMA TextStep ==
  ASSUME ReplyInv, FrameInv, WriteText
  PROVE  FrameInv'
<1>1. /\ pc = "text" /\ Deliver(0) /\ UNCHANGED <<reply, left>>
      /\ pc' = IF reply.keep THEN "receive" ELSE "release"
  BY DEF WriteText, At, Done
<1>2. /\ OutputInv /\ output # <<>> /\ Last.reply = reply /\ Last.body = <<>>
      /\ Promised(reply) = 1 /\ reply.start = 0 /\ left \in 0..IO_BUFFER_SIZE
  BY <1>1 DEF FrameInv, ProgressInv
<1>3. Len(Last.body) = 0
  BY <1>2, EmptySeq
<1>4. /\ OutputInv' /\ output' # <<>> /\ Last'.reply = reply /\ Len(Last'.body) = 1
  BY <1>1, <1>2, <1>3, DeliverResult
<1>5. pc' = "receive" => \A i \in 1..Len(output') : Complete(output'[i])
  <2>1. CASE pc' = "receive"
    <3>1. Complete(output'[Len(output')])
      BY <1>1, <1>2, <1>4, <2>1 DEF Complete, Last
    <3>2. /\ output' \in Seq(Output)
          /\ \A i \in 1..Len(output') : i < Len(output') => Complete(output'[i])
      BY <1>4 DEF OutputInv, Complete, Promised
    <3>. QED  BY <1>4, <3>1, <3>2, AllComplete
  <2>. QED  BY <2>1
<1>. QED  BY <1>1, <1>2, <1>4, <1>5 DEF FrameInv, ProgressInv

\* Reading the next part of the file sends nothing.
LEMMA ReadStep ==
  ASSUME ReplyInv, FrameInv, ReadFile
  PROVE  FrameInv'
<1>1. /\ pc = "file" /\ UNCHANGED <<reply, output>>
      /\ \/ /\ Remaining = 0 /\ left' = left
            /\ pc' = IF reply.keep THEN "receive" ELSE "release"
         \/ left' \in 1..IO_BUFFER_SIZE /\ left' <= Remaining /\ pc' = "write"
         \/ pc' = "release" /\ left' = left
  BY DEF ReadFile, At, Done
<1>2. OutputInv /\ output # <<>> /\ Last.reply = reply /\ left \in 0..IO_BUFFER_SIZE
  BY <1>1 DEF FrameInv, ProgressInv
<1>3. /\ Promised(reply) \in Nat /\ Len(Last.body) \in Nat
      /\ Remaining = Promised(reply) - Len(Last.body)
  BY <1>1, <1>2, LastResponse DEF ReplyInv, Sendable, Remaining, Last
<1>4. OutputInv' /\ Last' = Last /\ Remaining' = Remaining
  BY <1>1, <1>2 DEF OutputInv, Last, Remaining, Promised
<1>5. pc' = "receive" => \A i \in 1..Len(output') : Complete(output'[i])
  <2>1. CASE pc' = "receive"
    <3>1. Complete(Last)
      BY <1>1, <1>2, <1>3, <2>1 DEF Complete
    <3>. QED  BY <1>1, <1>2, <3>1, AllComplete DEF OutputInv, Last
  <2>. QED  BY <2>1
<1>6. pc' = "write" => left' \in 1..Remaining'
  BY <1>1, <1>3, <1>4
<1>7. left' \in 0..IO_BUFFER_SIZE
  BY <1>1, <1>2, SizeAssumption
<1>8. pc' \in {"receive", "release", "write"}
  BY <1>1
<1>. QED  BY <1>1, <1>2, <1>4, <1>5, <1>6, <1>7, <1>8 DEF FrameInv, ProgressInv

\* A unit of the file is sent, the one that is next.
LEMMA WriteStep ==
  ASSUME ReplyInv, FrameInv, WriteFile
  PROVE  FrameInv'
<1>1. /\ pc = "write" /\ Deliver(Place) /\ UNCHANGED reply /\ left' = left - 1
      /\ pc' = IF left' = 0 THEN "file" ELSE "write"
  BY DEF WriteFile, At
<1>2. /\ OutputInv /\ output # <<>> /\ Last.reply = reply /\ left \in 0..IO_BUFFER_SIZE
      /\ left \in 1..Remaining
  BY <1>1 DEF FrameInv, ProgressInv
<1>3. /\ Promised(reply) \in Nat /\ Len(Last.body) \in Nat /\ Last.reply.start \in Nat
      /\ Remaining = Promised(reply) - Len(Last.body)
      /\ Place = Last.reply.start + Len(Last.body)
  BY <1>1, <1>2, LastResponse DEF ReplyInv, Sendable, Remaining, Place, Last
<1>4. Place \in Nat /\ Len(Last.body) < Promised(Last.reply)
  BY <1>2, <1>3
<1>5. /\ OutputInv' /\ output' # <<>> /\ Last'.reply = reply
      /\ Len(Last'.body) = Len(Last.body) + 1
  BY <1>1, <1>2, <1>3, <1>4, DeliverResult
<1>6. Remaining' = Remaining - 1
  <2>1. Remaining' = Promised(reply) - Len(Last'.body)
    BY <1>1 DEF Remaining, Last, Promised
  <2>. QED  BY <1>3, <1>5, <2>1
<1>7. pc' = "write" => left' \in 1..Remaining'
  BY <1>1, <1>2, <1>3, <1>6
<1>8. left' \in 0..IO_BUFFER_SIZE
  BY <1>1, <1>2, <1>3, SizeAssumption
<1>9. pc' \in {"file", "write"} /\ (pc' = "file" => left' = 0)
  BY <1>1
<1>. QED  BY <1>1, <1>5, <1>7, <1>8, <1>9 DEF FrameInv, ProgressInv

\* The fourth layer is inductive, given the third.
LEMMA FrameStep ==
  ASSUME ReplyInv, FrameInv, [Next]_vars
  PROVE  FrameInv'
<1>1. ASSUME UNCHANGED <<output, left>>,
             \/ UNCHANGED <<reply, pc>>
             \/ pc' \in {"release", "closed"}
             \/ /\ pc \in {"start", "handshake", "receive", "process"}
                /\ pc' \in {"handshake", "receive", "process", "header"}
      PROVE  FrameInv'
  BY <1>1 DEF FrameInv, OutputInv, ProgressInv, Framed, Complete, Promised, Last, Remaining
<1>2. CASE \/ Begin \/ Handshake \/ TakeRequest \/ TooLarge \/ ReceiveFails \/ ReadTimesOut
           \/ Process \/ WriteFails \/ Release
  <2>1. UNCHANGED <<output, left>>
    BY <1>2 DEF Begin, Handshake, TakeRequest, TooLarge, ReceiveFails, ReadTimesOut, Process,
       WriteFails, Release
  <2>2. \/ UNCHANGED <<reply, pc>>
        \/ pc' \in {"release", "closed"}
        \/ /\ pc \in {"start", "handshake", "receive", "process"}
           /\ pc' \in {"handshake", "receive", "process", "header"}
    BY <1>2 DEF Begin, Handshake, TakeRequest, TooLarge, ReceiveFails, ReadTimesOut, Process,
       WriteFails, Release, At, Incomplete
  <2>. QED  BY <1>1, <2>1, <2>2
<1>3. CASE \/ \E r \in Request : ClientSends(r)
           \/ \E how \in {"closed", "reset", "silent"} : ClientStops(how)
           \/ FileChanges \/ Read \/ TryAgain \/ WriteTimesOut \/ UNCHANGED vars
  BY <1>1, <1>3 DEF ClientSends, ClientStops, FileChanges, Read, TryAgain, WriteTimesOut, vars
<1>. QED  BY <1>2, <1>3, HeaderStep, TextStep, ReadStep, WriteStep DEF Next, Worker

-----------------------------------------------------------------------------
(***************************************************************************)
(* Keeping the connection.                                                 *)
(***************************************************************************)

\* The fifth layer: no response that keeps the connection answers a request
\* that does not.
CloseInv ==
  \A i \in 1..Len(output) :
    output[i].reply.to \in 0..Len(sent) /\ Honoured(output[i].reply)

\* Sending changes no response but its body.
LEMMA OutputStays ==
  ASSUME FrameInv, [Next]_vars, ~WriteHeader
  PROVE  /\ Len(output) \in Nat /\ Len(output') = Len(output)
         /\ DOMAIN output = 1..Len(output) /\ DOMAIN output' = 1..Len(output)
         /\ \A i \in 1..Len(output) : output'[i].reply = output[i].reply
<1>1. /\ output \in Seq(Output) /\ Len(output) \in Nat /\ DOMAIN output = 1..Len(output)
  BY LenProperties DEF FrameInv, OutputInv
<1>2. CASE UNCHANGED output
  BY <1>1, <1>2
<1>3. ASSUME output # <<>>, NEW p, Deliver(p)
      PROVE  /\ Len(output') = Len(output) /\ DOMAIN output' = 1..Len(output)
             /\ \A i \in 1..Len(output) : output'[i].reply = output[i].reply
  <2>1. Len(output) \in 1..Len(output)
    BY <1>1, <1>3, EmptySeq
  <2>2. output' = [output EXCEPT ![Len(output)] =
                     [output[Len(output)] EXCEPT !.body = Append(output[Len(output)].body, p)]]
    BY <1>3 DEF Deliver
  <2>3. output[Len(output)] \in Output
    BY <1>1, <2>1, ElementOfSeq
  <2>4. [output[Len(output)] EXCEPT !.body = Append(output[Len(output)].body, p)].reply
          = output[Len(output)].reply
    BY <2>3 DEF Output
  <2>5. Len(output') = Len(output) /\ DOMAIN output' = 1..Len(output)
    BY <1>1, <2>1, <2>2
  <2>6. ASSUME NEW i \in 1..Len(output)
        PROVE  output'[i].reply = output[i].reply
    BY <1>1, <2>1, <2>2, <2>4
  <2>. QED  BY <2>5, <2>6
<1>4. CASE WriteText \/ WriteFile
  <2>1. pc \in {"text", "write"} /\ \E p : Deliver(p)
    BY <1>4 DEF WriteText, WriteFile, At
  <2>2. output # <<>>
    BY <2>1 DEF FrameInv, ProgressInv
  <2>. QED  BY <1>1, <1>3, <2>1, <2>2
<1>5. CASE \/ \E r \in Request : ClientSends(r)
           \/ \E how \in {"closed", "reset", "silent"} : ClientStops(how)
           \/ FileChanges \/ UNCHANGED vars
           \/ Worker /\ ~WriteHeader /\ ~WriteText /\ ~WriteFile
  <2>1. UNCHANGED output
    BY <1>5 DEF ClientSends, ClientStops, FileChanges, vars, Worker, Begin, Handshake,
       TakeRequest, TooLarge, Read, ReceiveFails, ReadTimesOut, TryAgain, Process, ReadFile,
       WriteFails, WriteTimesOut, Release, writeVars
  <2>. QED  BY <1>2, <2>1
<1>. QED  BY <1>4, <1>5 DEF Next

\* WriteHeader adds the one decided on.
LEMMA RepliesStay ==
  ASSUME ReplyInv, FrameInv, [Next]_vars, NEW i \in 1..Len(output')
  PROVE  \/ i \in 1..Len(output) /\ output'[i].reply = output[i].reply
         \/ output'[i].reply = reply /\ pc = "header" /\ UNCHANGED sent
<1>1. CASE WriteHeader
  <2>1. pc = "header" /\ UNCHANGED sent /\ output' = Append(output, Entry(reply, <<>>))
    BY <1>1 DEF WriteHeader, At, clientVars
  <2>2. output \in Seq(Output) /\ Len(output) \in Nat
    BY LenProperties DEF FrameInv, OutputInv
  <2>. QED  BY <2>1, <2>2 DEF Entry
<1>2. CASE ~WriteHeader
  BY <1>2, OutputStays
<1>. QED  BY <1>1, <1>2

\* The fifth layer is inductive, given the others.
LEMMA CloseStep ==
  ASSUME StreamInv, ReplyInv, FrameInv, CloseInv, [Next]_vars
  PROVE  CloseInv'
<1>1. CASE UNCHANGED sent
  <2>1. ASSUME NEW i \in 1..Len(output')
        PROVE  output'[i].reply.to \in 0..Len(sent) /\ Honoured(output'[i].reply)
    <3>1. CASE i \in 1..Len(output) /\ output'[i].reply = output[i].reply
      BY <3>1 DEF CloseInv
    <3>2. CASE output'[i].reply = reply /\ pc = "header"
      BY <3>2 DEF ReplyInv, Sendable
    <3>. QED  BY <3>1, <3>2, RepliesStay
  <2>. QED  BY <1>1, <2>1 DEF CloseInv, Honoured
<1>2. ASSUME NEW r \in Request, ClientSends(r)
      PROVE  CloseInv'
  <2>1. /\ sent \in Seq(Request) /\ Len(sent') = Len(sent) + 1 /\ Len(sent) \in Nat
        /\ DOMAIN sent = 1..Len(sent) /\ \A k \in 1..Len(sent) : sent'[k] = sent[k]
        /\ DOMAIN sent' = 1..Len(sent') /\ UNCHANGED output
    BY <1>2, AppendProperties, LenProperties DEF StreamInv, ClientSends
  <2>2. ASSUME NEW i \in 1..Len(output)
        PROVE  output[i].reply.to \in 0..Len(sent') /\ Honoured(output[i].reply)'
    <3>1. output[i].reply.to \in 0..Len(sent) /\ Honoured(output[i].reply)
      BY DEF CloseInv
    <3>2. output[i].reply.to \in 0..Len(sent')
      BY <2>1, <3>1
    <3>3. output[i].reply.to \in DOMAIN sent' =>
            /\ output[i].reply.to \in DOMAIN sent
            /\ sent'[output[i].reply.to] = sent[output[i].reply.to]
      BY <2>1, <3>1
    <3>. QED  BY <2>1, <3>1, <3>2, <3>3 DEF Honoured
  <2>. QED  BY <2>1, <2>2 DEF CloseInv, Honoured
<1>3. UNCHANGED sent \/ \E r \in Request : ClientSends(r)
  BY DEF Next, Worker, ClientStops, FileChanges, Begin, Handshake, TakeRequest, TooLarge,
     Read, ReceiveFails, ReadTimesOut, TryAgain, Process, WriteHeader, WriteText, ReadFile,
     WriteFile, WriteFails, WriteTimesOut, Release, vars
<1>. QED  BY <1>1, <1>2, <1>3

-----------------------------------------------------------------------------
(***************************************************************************)
(* The order of the answers.                                               *)
(***************************************************************************)

\* Where the header of a request ends, where its text does, and the token at
\* place j of it.
HeaderSize(r) == IF r.target = "huge" THEN 5 ELSE 3

TextSize(r) == HeaderSize(r) + (IF r.method = "POST" THEN 1 ELSE 0)

TextAt(n, r, j) ==
  IF j > HeaderSize(r) THEN BODY
  ELSE IF j = 1 \/ (j = 3 /\ r.target = "huge") THEN n ELSE CRLF

\* The text of a request, token by token.
LEMMA TextShape ==
  ASSUME NEW n \in Nat, NEW r
  PROVE  /\ Len(Text(n, r)) = TextSize(r)
         /\ \A j \in 1..TextSize(r) : Text(n, r)[j] = TextAt(n, r, j)
<1> DEFINE S == Nat \cup {BODY}
           head == IF r.target = "huge" THEN <<n, CRLF>> ELSE <<>>
           line == <<n, CRLF, CRLF>>
           rest == IF r.method = "POST" THEN <<BODY>> ELSE <<>>
           h == IF r.target = "huge" THEN 2 ELSE 0
           b == IF r.method = "POST" THEN 1 ELSE 0
<1>1. /\ head \in Seq(S) /\ Len(head) = h
      /\ h = 2 => head[1] = n /\ head[2] = CRLF
  <2>1. /\ <<n, CRLF>> \in Seq(S) /\ Len(<<n, CRLF>>) = 2
        /\ <<n, CRLF>>[1] = n /\ <<n, CRLF>>[2] = CRLF
    BY DEF CRLF
  <2>2. <<>> \in Seq(S) /\ Len(<<>>) = 0
    BY EmptySeq
  <2>3. CASE r.target = "huge"
    BY <2>1, <2>3
  <2>4. CASE r.target # "huge"
    BY <2>2, <2>4
  <2>. QED  BY <2>3, <2>4
<1>2. /\ line \in Seq(S) /\ Len(line) = 3
      /\ line[1] = n /\ line[2] = CRLF /\ line[3] = CRLF
  BY DEF CRLF
<1>3. /\ rest \in Seq(S) /\ Len(rest) = b
      /\ b = 1 => rest[1] = BODY
  <2>1. <<BODY>> \in Seq(S) /\ Len(<<BODY>>) = 1 /\ <<BODY>>[1] = BODY
    OBVIOUS
  <2>2. <<>> \in Seq(S) /\ Len(<<>>) = 0
    BY EmptySeq
  <2>3. CASE r.method = "POST"
    BY <2>1, <2>3
  <2>4. CASE r.method # "POST"
    BY <2>2, <2>4
  <2>. QED  BY <2>3, <2>4
<1>4. h \in {0, 2} /\ b \in {0, 1} /\ HeaderSize(r) = h + 3 /\ TextSize(r) = h + 3 + b
  BY DEF HeaderSize, TextSize
<1>5. Text(n, r) = (head \o line) \o rest
  BY DEF Text
<1>6. ASSUME NEW j \in 1..h + 3 + b
      PROVE  TextAt(n, r, j) = IF j <= h THEN head[j]
                               ELSE IF j <= h + 3 THEN line[j - h] ELSE rest[j - h - 3]
  <2>1. h = 2 <=> r.target = "huge"
    OBVIOUS
  <2>. HIDE DEF head, line, rest, h, b
  <2>. QED  BY <1>1, <1>2, <1>3, <1>4, <2>1 DEF TextAt
<1>. HIDE DEF S, head, line, rest, h, b
<1>7. /\ head \o line \in Seq(S) /\ Len(head \o line) = h + 3
      /\ \A j \in 1..h + 3 : (head \o line)[j] = IF j <= h THEN head[j] ELSE line[j - h]
  <2>1. /\ head \o line \in Seq(S) /\ Len(head \o line) = Len(head) + Len(line)
        /\ \A j \in 1..Len(head) + Len(line) :
             (head \o line)[j] = IF j <= Len(head) THEN head[j] ELSE line[j - Len(head)]
    BY <1>1, <1>2, ConcatProperties
  <2>. QED  BY <1>1, <1>2, <2>1
<1>8. /\ Len(Text(n, r)) = h + 3 + b
      /\ \A j \in 1..h + 3 + b :
           Text(n, r)[j] = IF j <= h + 3 THEN (head \o line)[j] ELSE rest[j - h - 3]
  <2> DEFINE front == head \o line
  <2>. HIDE DEF front
  <2>1. front \in Seq(S) /\ Len(front) = h + 3
    BY <1>7 DEF front
  <2>2. /\ Len(front \o rest) = Len(front) + Len(rest)
        /\ \A j \in 1..Len(front) + Len(rest) :
             (front \o rest)[j] = IF j <= Len(front) THEN front[j] ELSE rest[j - Len(front)]
    BY <1>3, <2>1, ConcatProperties
  <2>3. Text(n, r) = front \o rest
    BY <1>5 DEF front
  <2>. QED  BY <1>3, <1>4, <2>1, <2>2, <2>3 DEF front
<1>. QED  BY <1>4, <1>6, <1>7, <1>8

\* What the worker has not taken out of its buffer yet, and what is on its way.
Total == Len(buffer) + Len(stream)

Ahead(i) == IF i <= Len(buffer) THEN buffer[i] ELSE stream[i - Len(buffer)]

\* What lies ahead are the texts of the requests after the nth in their order,
\* the text of request k behind place b[k].  Their end may be missing when the
\* client does not send any more.
InOrder(n) ==
  \E b \in [Nat -> Int] :
    /\ b[n + 1] = 0
    /\ \A k \in (n + 1)..Len(sent) :
         /\ b[k + 1] = b[k] + TextSize(sent[k])
         /\ b[k + 1] <= b[Len(sent) + 1]
         /\ \A j \in 1..TextSize(sent[k]) :
              b[k] + j \in 1..Total => Ahead(b[k] + j) = TextAt(k, sent[k], j)
    /\ Total <= b[Len(sent) + 1]
    /\ client = "open" => Total = b[Len(sent) + 1]

\* What changes nothing that is ahead but may cut its end off.
LEMMA OrderIsKept ==
  ASSUME NEW n \in Nat, InOrder(n), UNCHANGED sent, Total \in Nat, Total' \in 0..Total,
         \A i \in 1..Total' : Ahead(i)' = Ahead(i),
         client' = "open" => client = "open" /\ Total' = Total
  PROVE  InOrder(n)'
<1>1. PICK b \in [Nat -> Int] :
        /\ b[n + 1] = 0
        /\ \A k \in (n + 1)..Len(sent) :
             /\ b[k + 1] = b[k] + TextSize(sent[k])
             /\ b[k + 1] <= b[Len(sent) + 1]
             /\ \A j \in 1..TextSize(sent[k]) :
                  b[k] + j \in 1..Total => Ahead(b[k] + j) = TextAt(k, sent[k], j)
        /\ Total <= b[Len(sent) + 1]
        /\ client = "open" => Total = b[Len(sent) + 1]
  BY DEF InOrder
<1>2. ASSUME NEW k \in (n + 1)..Len(sent), NEW j \in 1..TextSize(sent[k]),
             b[k] + j \in 1..Total'
      PROVE  Ahead(b[k] + j)' = TextAt(k, sent[k], j)
  <2>1. b[k] + j \in 1..Total
    BY <1>2
  <2>. QED  BY <1>1, <1>2, <2>1
<1>3. /\ Total' <= b[Len(sent) + 1] \/ Len(sent) + 1 \notin Nat
      /\ client' = "open" => Total' = b[Len(sent) + 1]
  BY <1>1
<1>4. Total' <= b[Len(sent) + 1]
  <2>1. b[Len(sent) + 1] \in Int \/ Len(sent) + 1 \notin Nat
    OBVIOUS
  <2>. QED  BY <1>1, <1>3, <2>1
<1>. QED  BY <1>1, <1>2, <1>3, <1>4 DEF InOrder

\* What is ahead when the next request is sent.
LEMMA AheadWhenSent ==
  ASSUME StreamInv, NEW r \in Request, ClientSends(r)
  PROVE  /\ Len(sent) \in Nat /\ Len(sent') = Len(sent) + 1 /\ sent'[Len(sent) + 1] = r
         /\ \A k \in 1..Len(sent) : sent'[k] = sent[k]
         /\ Total \in Nat /\ Total' = Total + TextSize(r)
         /\ \A i \in 1..Total : Ahead(i)' = Ahead(i)
         /\ \A i \in Total + 1..Total + TextSize(r) :
              Ahead(i)' = TextAt(Len(sent) + 1, r, i - Total)
<1> DEFINE m == Len(sent) + 1
           t == Text(m, r)
<1>1. /\ Len(sent) \in Nat /\ Len(sent') = m /\ sent'[m] = r
      /\ \A k \in 1..Len(sent) : sent'[k] = sent[k]
  BY AppendProperties, LenProperties DEF StreamInv, ClientSends
<1>2. Len(t) = TextSize(r) /\ (\A j \in 1..TextSize(r) : t[j] = TextAt(m, r, j))
  BY <1>1, TextShape
<1>3. t \in Seq(Token(m)) /\ stream \in Seq(Token(m)) /\ Len(buffer) \in Nat
  <2>1. Token(Len(sent)) \subseteq Token(m)
    BY <1>1 DEF Token
  <2>2. t \in Seq(Token(m))
    BY <1>1, TextTokens
  <2>. QED  BY <2>1, <2>2, SeqMonotonic, LenProperties DEF StreamInv
<1>4. stream' = stream \o t /\ buffer' = buffer
  BY <1>1 DEF ClientSends
<1>. HIDE DEF t
<1>5. /\ Len(stream) \in Nat /\ Len(stream') = Len(stream) + Len(t) /\ Len(t) \in Nat
      /\ \A i \in 1..Len(stream) + Len(t) :
           stream'[i] = IF i <= Len(stream) THEN stream[i] ELSE t[i - Len(stream)]
  BY <1>3, <1>4, ConcatProperties, LenProperties
<1>6. Total \in Nat /\ Total' = Total + TextSize(r)
  BY <1>2, <1>3, <1>4, <1>5 DEF Total
<1>7. ASSUME NEW i \in 1..Total
      PROVE  Ahead(i)' = Ahead(i)
  BY <1>3, <1>4, <1>5 DEF Total, Ahead
<1>8. ASSUME NEW i \in Total + 1..Total + TextSize(r)
      PROVE  Ahead(i)' = TextAt(m, r, i - Total)
  <2> DEFINE k == i - Len(buffer)
             j == i - Total
  <2>1. /\ ~(i <= Len(buffer)) /\ k \in 1..Len(stream) + Len(t) /\ ~(k <= Len(stream))
        /\ k - Len(stream) = j /\ j \in 1..TextSize(r)
    BY <1>2, <1>3, <1>5 DEF Total
  <2>2. Ahead(i)' = stream'[k]
    BY <1>4, <2>1 DEF Ahead
  <2>3. stream'[k] = t[k - Len(stream)]
    BY <1>5, <2>1
  <2>4. t[j] = TextAt(m, r, j)
    BY <1>2, <2>1
  <2>. QED  BY <2>1, <2>2, <2>3, <2>4
<1>. QED  BY <1>1, <1>6, <1>7, <1>8

\* One more request is sent.
LEMMA OrderWhenSent ==
  ASSUME StreamInv, NEW n \in 0..Len(sent), InOrder(n), NEW r \in Request, ClientSends(r)
  PROVE  InOrder(n)'
<1>1. PICK b \in [Nat -> Int] :
        /\ b[n + 1] = 0
        /\ \A k \in (n + 1)..Len(sent) :
             /\ b[k + 1] = b[k] + TextSize(sent[k])
             /\ b[k + 1] <= b[Len(sent) + 1]
             /\ \A j \in 1..TextSize(sent[k]) :
                  b[k] + j \in 1..Total => Ahead(b[k] + j) = TextAt(k, sent[k], j)
        /\ Total <= b[Len(sent) + 1]
        /\ client = "open" => Total = b[Len(sent) + 1]
  BY DEF InOrder
<1>0. PICK m \in Nat : m = Len(sent) + 1
  BY LenProperties DEF StreamInv
<1> DEFINE c == [b EXCEPT ![m + 1] = b[m] + TextSize(r)]
<1>2. /\ Len(sent) \in Nat /\ Len(sent') = m /\ sent'[m] = r
      /\ \A k \in 1..Len(sent) : sent'[k] = sent[k]
      /\ Total \in Nat /\ Total' = Total + TextSize(r)
      /\ \A i \in 1..Total : Ahead(i)' = Ahead(i)
      /\ \A i \in Total + 1..Total + TextSize(r) : Ahead(i)' = TextAt(m, r, i - Total)
  BY <1>0, AheadWhenSent
<1>3. Total = b[m] /\ TextSize(r) \in Nat
  BY <1>0, <1>1 DEF ClientSends, TextSize, HeaderSize
<1>4. m \in Nat /\ n \in Nat /\ n + 1 <= m
  BY <1>0, <1>2
<1>5. /\ c \in [Nat -> Int] /\ c[m + 1] = b[m] + TextSize(r)
      /\ \A k \in 0..m : c[k] = b[k]
  BY <1>2, <1>3, <1>4
<1>. HIDE DEF c
<1>6. c[n + 1] = 0
  BY <1>1, <1>4, <1>5
<1>7. ASSUME NEW k \in (n + 1)..m
      PROVE  /\ c[k + 1] = c[k] + TextSize(sent'[k])
             /\ c[k + 1] <= c[m + 1]
             /\ \A j \in 1..TextSize(sent'[k]) :
                  c[k] + j \in 1..Total' => Ahead(c[k] + j)' = TextAt(k, sent'[k], j)
  <2>1. CASE k = m
    <3>1. c[k] = Total /\ c[k + 1] = c[k] + TextSize(r) /\ sent'[k] = r
      BY <1>2, <1>3, <1>4, <1>5, <2>1
    <3>2. c[k + 1] \in Int /\ c[m + 1] = c[k + 1]
      BY <1>4, <1>5, <2>1
    <3>3. ASSUME NEW j \in 1..TextSize(r)
          PROVE  Ahead(c[k] + j)' = TextAt(k, r, j)
      <4> DEFINE i == c[k] + j
      <4>1. i \in Total + 1..Total + TextSize(r) /\ i - Total = j
        BY <1>2, <1>3, <3>1, <3>3, SMTT(30)
      <4>. HIDE DEF i
      <4>2. Ahead(i)' = TextAt(m, r, i - Total)
        BY <1>2, <4>1
      <4>. QED  BY <2>1, <4>1, <4>2 DEF i
    <3>. QED  BY <3>1, <3>2, <3>3
  <2>2. CASE k # m
    <3>1. /\ k \in (n + 1)..Len(sent) /\ k \in 1..Len(sent) /\ k \in 0..m /\ k + 1 \in 0..m
      BY <1>0, <1>2, <1>4, <2>2
    <3>2. /\ c[k] = b[k] /\ c[k + 1] = b[k + 1] /\ sent'[k] = sent[k]
          /\ b[k + 1] = b[k] + TextSize(sent[k]) /\ b[k + 1] <= b[m]
      BY <1>0, <1>1, <1>2, <1>5, <3>1
    <3>3. b[k] \in Int /\ b[k + 1] \in Int /\ b[m] \in Int
      BY <1>4, <3>1
    <3>4. ASSUME NEW j \in 1..TextSize(sent[k]), b[k] + j \in 1..Total'
          PROVE  Ahead(b[k] + j)' = TextAt(k, sent[k], j)
      <4>1. TextSize(sent[k]) \in Nat
        BY DEF TextSize, HeaderSize
      <4>2. b[k] + j \in 1..Total
        <5>1. b[k] + TextSize(sent[k]) <= Total
          BY <1>3, <3>2
        <5>. QED  BY <1>2, <3>3, <3>4, <4>1, <5>1, SMTT(30)
      <4>3. Ahead(b[k] + j)' = Ahead(b[k] + j)
        BY <1>2, <4>2
      <4>4. \A i \in 1..TextSize(sent[k]) :
              b[k] + i \in 1..Total => Ahead(b[k] + i) = TextAt(k, sent[k], i)
        BY <1>1, <3>1
      <4>. QED  BY <3>4, <4>2, <4>3, <4>4
    <3>5. c[k + 1] <= c[m + 1]
      BY <1>3, <1>5, <3>2, <3>3
    <3>6. c[k + 1] = c[k] + TextSize(sent'[k])
      BY <3>2
    <3>7. \A j \in 1..TextSize(sent'[k]) :
            c[k] + j \in 1..Total' => Ahead(c[k] + j)' = TextAt(k, sent'[k], j)
      BY <3>2, <3>4
    <3>. QED  BY <3>5, <3>6, <3>7
  <2>. QED  BY <2>1, <2>2
<1>8. Total' = c[m + 1]
  BY <1>2, <1>3, <1>5
<1>9. Total' <= c[m + 1]
  BY <1>2, <1>3, <1>8
<1>10. Len(sent') = m
  BY <1>2
<1>11. /\ Total' <= c[Len(sent') + 1]
       /\ client' = "open" => Total' = c[Len(sent') + 1]
  BY <1>8, <1>9, <1>10
<1>. QED  BY <1>5, <1>6, <1>7, <1>10, <1>11 DEF InOrder

\* The first blank line of the buffer ends the header of the next request.
LEMMA FirstBlankLine ==
  ASSUME StreamInv, NEW n \in 0..Len(sent), InOrder(n),
         NEW last \in BlankLines(buffer), HeaderEnd(buffer, last)
  PROVE  /\ n + 1 \in 1..Len(sent) /\ buffer[1] = n + 1 /\ last = HeaderSize(sent[n + 1])
<1>1. PICK b \in [Nat -> Int] :
        /\ b[n + 1] = 0
        /\ \A k \in (n + 1)..Len(sent) :
             /\ b[k + 1] = b[k] + TextSize(sent[k])
             /\ b[k + 1] <= b[Len(sent) + 1]
             /\ \A j \in 1..TextSize(sent[k]) :
                  b[k] + j \in 1..Total => Ahead(b[k] + j) = TextAt(k, sent[k], j)
        /\ Total <= b[Len(sent) + 1]
        /\ client = "open" => Total = b[Len(sent) + 1]
  BY DEF InOrder
<1> DEFINE r == sent[n + 1]
           h == HeaderSize(r)
<1>2. /\ last \in 2..Len(buffer) /\ buffer[last - 1] = CRLF /\ buffer[last] = CRLF
      /\ \A j \in BlankLines(buffer) : last <= j
      /\ Len(buffer) \in Nat /\ Len(stream) \in Nat /\ Len(sent) \in Nat
  BY LenProperties DEF BlankLines, HeaderEnd, StreamInv
<1>3. n + 1 \in 1..Len(sent)
  <2>1. Total >= 2
    BY <1>2 DEF Total
  <2>2. Total <= b[Len(sent) + 1] /\ b[n + 1] = 0
    BY <1>1
  <2>3. n # Len(sent)
    <3>1. n = Len(sent) => b[Len(sent) + 1] = 0
      BY <2>2
    <3>2. Total \in Nat
      BY <1>2 DEF Total
    <3>. QED  BY <2>1, <2>2, <3>1, <3>2
  <2>. QED  BY <1>2, <2>3
<1>4. h \in {3, 5} /\ TextSize(r) >= h /\ TextSize(r) \in Nat
  BY DEF HeaderSize, TextSize
<1>5. ASSUME NEW i \in 1..Len(buffer), i <= h
      PROVE  buffer[i] = TextAt(n + 1, r, i)
  <2>. HIDE DEF r, h
  <2>1. i \in 1..TextSize(r) /\ i \in 1..Total
    BY <1>2, <1>4, <1>5, SMTT(30) DEF Total
  <2>2. n + 1 \in (n + 1)..Len(sent)
    BY <1>3
  <2>3. Ahead(b[n + 1] + i) = TextAt(n + 1, r, i)
    <3>1. b[n + 1] + i = i
      BY <1>1
    <3>. QED  BY <1>1, <2>1, <2>2, <3>1 DEF r
  <2>4. b[n + 1] + i = i
    BY <1>1
  <2>. QED  BY <2>3, <2>4 DEF Ahead
<1>6. /\ \A i \in 1..h : TextAt(n + 1, r, i) = CRLF <=> i = 2 \/ i = h \/ i = h - 1
      /\ TextAt(n + 1, r, 1) = n + 1
  BY <1>2, <1>3 DEF TextAt, HeaderSize, CRLF
<1>. HIDE DEF r, h
<1>7. ~(last < h)
  <2>. SUFFICES ASSUME last < h
                PROVE  FALSE
    OBVIOUS
  <2>1. /\ last - 1 \in 1..Len(buffer) /\ last - 1 <= h
        /\ last \in 1..Len(buffer) /\ last <= h
    BY <1>2, <1>4
  <2>3. buffer[last - 1] = TextAt(n + 1, r, last - 1) /\ buffer[last] = TextAt(n + 1, r, last)
    BY <1>5, <2>1
  <2>2. last \in 1..h /\ last - 1 \in 1..h
    BY <1>2, <1>4
  <2>. QED  BY <1>2, <1>4, <1>6, <2>2, <2>3
<1>8. h \in BlankLines(buffer)
  <2>1. h \in 1..Len(buffer) /\ h - 1 \in 1..Len(buffer) /\ h \in 2..Len(buffer)
    BY <1>2, <1>4, <1>7, SMTT(30)
  <2>2. buffer[h - 1] = CRLF /\ buffer[h] = CRLF
    <3>1. h \in 1..h /\ h - 1 \in 1..h /\ h <= h /\ h - 1 <= h
      BY <1>4
    <3>. QED  BY <1>5, <1>6, <2>1, <3>1
  <2>. QED  BY <2>1, <2>2 DEF BlankLines
<1>9. last = h
  BY <1>2, <1>4, <1>7, <1>8
<1>10. buffer[1] = n + 1
  <2>1. 1 \in 1..Len(buffer) /\ 1 <= h
    BY <1>2, <1>4
  <2>. QED  BY <1>5, <1>6, <2>1
<1>. QED  BY <1>3, <1>9, <1>10 DEF h, r

\* Once a request without a body is taken, the next one is ahead.
LEMMA OrderWhenTaken ==
  ASSUME StreamInv, NEW n \in 0..Len(sent), InOrder(n), TakeRequest
  PROVE  /\ request' = n + 1 /\ n + 1 \in 1..Len(sent)
         /\ sent[n + 1].method = "GET" => InOrder(n + 1)'
<1>1. PICK b \in [Nat -> Int] :
        /\ b[n + 1] = 0
        /\ \A k \in (n + 1)..Len(sent) :
             /\ b[k + 1] = b[k] + TextSize(sent[k])
             /\ b[k + 1] <= b[Len(sent) + 1]
             /\ \A j \in 1..TextSize(sent[k]) :
                  b[k] + j \in 1..Total => Ahead(b[k] + j) = TextAt(k, sent[k], j)
        /\ Total <= b[Len(sent) + 1]
        /\ client = "open" => Total = b[Len(sent) + 1]
  BY DEF InOrder
<1>2. PICK p \in BlankLines(buffer) :
        /\ HeaderEnd(buffer, p)
        /\ request' = IF buffer[1] > 0 THEN buffer[1] ELSE 0
        /\ buffer' = SubSeq(buffer, p + 1, Len(buffer))
  BY DEF TakeRequest
<1>3. n + 1 \in 1..Len(sent) /\ buffer[1] = n + 1 /\ p = HeaderSize(sent[n + 1])
  BY <1>2, FirstBlankLine
<1>4. request' = n + 1
  BY <1>2, <1>3
<1>5. /\ Len(buffer) \in Nat /\ Len(stream) \in Nat /\ p \in 2..Len(buffer)
      /\ Len(sent) \in Nat
  BY LenProperties DEF StreamInv, BlankLines
<1>6. UNCHANGED <<stream, sent, client>>
  BY DEF TakeRequest, clientVars
<1>7. /\ Len(buffer') = Len(buffer) - p
      /\ \A i \in 1..Len(buffer) - p : buffer'[i] = buffer[i + p]
  BY <1>2, <1>5, SMTT(30) DEF StreamInv
<1>8. Total \in Nat /\ Total' = Total - p /\ Total' \in Nat
  BY <1>5, <1>6, <1>7 DEF Total
<1>9. ASSUME NEW i \in 1..Total'
      PROVE  Ahead(i)' = Ahead(i + p)
  <2>1. i <= Len(buffer') <=> i + p <= Len(buffer)
    BY <1>5, <1>7, <1>8
  <2>2. CASE i <= Len(buffer')
    BY <1>5, <1>7, <2>1, <2>2 DEF Ahead
  <2>3. CASE ~(i <= Len(buffer'))
    <3>1. i - Len(buffer') = (i + p) - Len(buffer)
      BY <1>5, <1>7, <1>8
    <3>2. Ahead(i)' = stream[i - Len(buffer')]
      BY <1>6, <2>3 DEF Ahead
    <3>3. Ahead(i + p) = stream[(i + p) - Len(buffer)]
      <4>1. ~(i + p <= Len(buffer))
        BY <2>1, <2>3
      <4>. QED  BY <4>1, Zenon DEF Ahead
    <3>. QED  BY <3>1, <3>2, <3>3
  <2>. QED  BY <2>2, <2>3
<1>10. ASSUME sent[n + 1].method = "GET"
       PROVE  InOrder(n + 1)'
  <2> DEFINE c == [k \in Nat |-> b[k] - p]
  <2>1. c \in [Nat -> Int] /\ (\A k \in Nat : c[k] = b[k] - p /\ b[k] \in Int)
    BY <1>5
  <2>. HIDE DEF c
  <2>2. TextSize(sent[n + 1]) = p
    BY <1>3, <1>10 DEF TextSize, HeaderSize
  <2>3. c[n + 2] = 0
    <3>1. n + 1 \in (n + 1)..Len(sent) /\ n + 1 + 1 = n + 2 /\ n + 2 \in Nat
      BY <1>3
    <3>2. b[n + 2] = 0 + p
      BY <1>1, <2>2, <3>1
    <3>. QED  BY <1>5, <2>1, <3>1, <3>2
  <2>4. ASSUME NEW k \in (n + 2)..Len(sent)
        PROVE  /\ c[k + 1] = c[k] + TextSize(sent[k])
               /\ c[k + 1] <= c[Len(sent) + 1]
               /\ \A j \in 1..TextSize(sent[k]) :
                    c[k] + j \in 1..Total' => Ahead(c[k] + j)' = TextAt(k, sent[k], j)
    <3>1. k \in (n + 1)..Len(sent) /\ k \in Nat /\ k + 1 \in Nat /\ Len(sent) + 1 \in Nat
      BY <1>3, <1>5
    <3>2. TextSize(sent[k]) \in Nat
      BY DEF TextSize, HeaderSize
    <3>3. ASSUME NEW j \in 1..TextSize(sent[k]), c[k] + j \in 1..Total'
          PROVE  Ahead(c[k] + j)' = TextAt(k, sent[k], j)
      <4>1. c[k] + j + p = b[k] + j /\ b[k] + j \in 1..Total
        <5>1. c[k] = b[k] - p /\ b[k] \in Int /\ p \in Nat
          BY <1>5, <2>1, <3>1
        <5>2. c[k] + j \in 1..Total - p /\ j \in Nat
          BY <1>8, <3>2, <3>3
        <5>. QED  BY <1>8, <5>1, <5>2, SMTT(30)
      <4>2. Ahead(c[k] + j)' = Ahead(c[k] + j + p)
        BY <1>9, <3>3
      <4>. QED  BY <1>1, <3>1, <4>1, <4>2
    <3>4. b[k + 1] = b[k] + TextSize(sent[k]) /\ b[k + 1] <= b[Len(sent) + 1]
      BY <1>1, <3>1
    <3>5. /\ c[k] = b[k] - p /\ c[k + 1] = b[k + 1] - p
          /\ c[Len(sent) + 1] = b[Len(sent) + 1] - p
          /\ b[k] \in Int /\ b[k + 1] \in Int /\ b[Len(sent) + 1] \in Int /\ p \in Int
      <4>1. p \in Int
        BY <1>5
      <4>. QED  BY <2>1, <3>1, <4>1
    <3>6. c[k + 1] = c[k] + TextSize(sent[k]) /\ c[k + 1] <= c[Len(sent) + 1]
      BY <3>2, <3>4, <3>5, SMTT(30)
    <3>. QED  BY <3>3, <3>6
  <2>5. /\ Total' <= c[Len(sent) + 1]
        /\ client = "open" => Total' = c[Len(sent) + 1]
    <3>1. Len(sent) + 1 \in Nat
      BY <1>5
    <3>2. /\ c[Len(sent) + 1] = b[Len(sent) + 1] - p
          /\ b[Len(sent) + 1] \in Int /\ p \in Int
      BY <1>5, <2>1, <3>1
    <3>3. Total <= b[Len(sent) + 1] /\ (client = "open" => Total = b[Len(sent) + 1])
      BY <1>1
    <3>. QED  BY <1>8, <3>2, <3>3
  <2>6. n + 1 + 1 = n + 2
    BY <1>3
  <2>. QED  BY <1>6, <2>1, <2>3, <2>4, <2>5, <2>6 DEF InOrder
<1>. QED  BY <1>3, <1>4, <1>10

\* The client never takes a request back.
LEMMA SentGrows ==
  ASSUME StreamInv, [Next]_vars
  PROVE  /\ Len(sent) \in Nat /\ Len(sent') \in Nat /\ Len(sent) <= Len(sent')
         /\ \A k \in 1..Len(sent) : sent'[k] = sent[k]
<1>1. ASSUME NEW r \in Request, ClientSends(r)
      PROVE  /\ Len(sent) \in Nat /\ Len(sent') = Len(sent) + 1
             /\ \A k \in 1..Len(sent) : sent'[k] = sent[k]
  BY <1>1, AppendProperties, LenProperties DEF StreamInv, ClientSends
<1>2. UNCHANGED sent \/ \E r \in Request : ClientSends(r)
  BY DEF Next, Worker, ClientStops, FileChanges, Begin, Handshake, TakeRequest, TooLarge,
     Read, ReceiveFails, ReadTimesOut, TryAgain, Process, WriteHeader, WriteText, ReadFile,
     WriteFile, WriteFails, WriteTimesOut, Release, vars, clientVars
<1>3. Len(sent) \in Nat
  BY LenProperties DEF StreamInv
<1>. QED  BY <1>1, <1>2, <1>3

\* Only TakeRequest takes a request out of what is ahead.
LEMMA OrderStays ==
  ASSUME StreamInv, [Next]_vars, ~TakeRequest, NEW n \in 0..Len(sent), InOrder(n)
  PROVE  InOrder(n)'
<1>1. CASE UNCHANGED <<client, sent, stream, buffer>>
  BY <1>1 DEF InOrder, Total, Ahead
<1>2. ASSUME NEW r \in Request, ClientSends(r)
      PROVE  InOrder(n)'
  BY <1>2, OrderWhenSent
<1>3. /\ stream \in Seq(Token(Len(sent))) /\ buffer \in Seq(Token(Len(sent)))
      /\ Len(buffer) \in Nat /\ Len(stream) \in Nat /\ n \in Nat /\ Len(sent) \in Nat
  BY LenProperties DEF StreamInv
<1>4. ASSUME NEW how \in {"closed", "reset", "silent"}, ClientStops(how)
      PROVE  InOrder(n)'
  <2>1. PICK l \in 0..Len(stream) : stream' = SubSeq(stream, 1, l)
    BY <1>4 DEF ClientStops
  <2>2. UNCHANGED <<sent, buffer>> /\ client' # "open"
    BY <1>4 DEF ClientStops
  <2>3. Len(stream') = l /\ \A i \in 1..l : stream'[i] = stream[i]
    BY <1>3, <2>1
  <2>4. Total \in Nat /\ Total' \in 0..Total
    BY <1>3, <2>2, <2>3 DEF Total
  <2>5. ASSUME NEW i \in 1..Total'
        PROVE  Ahead(i)' = Ahead(i)
    <3>1. Total' = Len(buffer) + l
      BY <2>2, <2>3 DEF Total
    <3>2. CASE i <= Len(buffer)
      BY <2>2, <3>2 DEF Ahead
    <3>3. CASE ~(i <= Len(buffer))
      <4>1. i - Len(buffer) \in 1..l
        BY <1>3, <2>1, <3>1, <3>3
      <4>2. stream'[i - Len(buffer)] = stream[i - Len(buffer)]
        BY <2>3, <4>1
      <4>. QED  BY <2>2, <3>3, <4>2 DEF Ahead
    <3>. QED  BY <3>2, <3>3
  <2>. QED  BY <1>3, <2>2, <2>4, <2>5, OrderIsKept
<1>5. CASE Read
  <2>1. PICK l \in 1..Len(stream) :
          /\ buffer' = buffer \o SubSeq(stream, 1, l)
          /\ stream' = SubSeq(stream, l + 1, Len(stream))
    BY <1>5 DEF Read
  <2>2. UNCHANGED <<sent, client>>
    BY <1>5 DEF Read
  <2> DEFINE part == SubSeq(stream, 1, l)
  <2>3. /\ part \in Seq(Token(Len(sent))) /\ Len(part) = l
        /\ \A i \in 1..l : part[i] = stream[i]
        /\ Len(stream') = Len(stream) - l
        /\ \A i \in 1..Len(stream) - l : stream'[i] = stream[i + l]
    BY <1>3, <2>1, Cut
  <2>. HIDE DEF part
  <2>4. /\ Len(buffer') = Len(buffer) + l
        /\ \A i \in 1..Len(buffer) + l :
             buffer'[i] = IF i <= Len(buffer) THEN buffer[i] ELSE part[i - Len(buffer)]
    <3>1. buffer' = buffer \o part
      BY <2>1 DEF part
    <3>. QED  BY <1>3, <2>3, <3>1, ConcatProperties
  <2>5. Total \in Nat /\ Total' = Total
    <3>1. Total' = Len(buffer') + Len(stream')
      BY DEF Total
    <3>2. Len(buffer') = Len(buffer) + l /\ Len(stream') = Len(stream) - l /\ l \in Nat
      BY <1>3, <2>3, <2>4
    <3>. QED  BY <1>3, <3>1, <3>2 DEF Total
  <2>6. ASSUME NEW i \in 1..Total
        PROVE  Ahead(i)' = Ahead(i)
    <3>1. CASE i <= Len(buffer)
      <4>1. i \in 1..Len(buffer) + l /\ i <= Len(buffer')
        BY <1>3, <2>1, <2>4, <3>1
      <4>. QED  BY <2>4, <3>1, <4>1 DEF Ahead
    <3>2. CASE ~(i <= Len(buffer)) /\ i <= Len(buffer) + l
      <4>1. i \in 1..Len(buffer) + l /\ i <= Len(buffer') /\ i - Len(buffer) \in 1..l
        BY <1>3, <2>1, <2>4, <3>2
      <4>2. buffer'[i] = stream[i - Len(buffer)]
        BY <2>3, <2>4, <3>2, <4>1
      <4>. QED  BY <3>2, <4>1, <4>2 DEF Ahead
    <3>3. CASE ~(i <= Len(buffer) + l)
      <4> DEFINE j == i - Len(buffer')
      <4>1. /\ ~(i <= Len(buffer)) /\ ~(i <= Len(buffer'))
            /\ j \in 1..Len(stream) - l /\ j + l = i - Len(buffer)
        BY <1>3, <2>1, <2>4, <3>3 DEF Total
      <4>2. Ahead(i)' = stream'[j]
        BY <4>1 DEF Ahead
      <4>3. stream'[j] = stream[j + l]
        BY <2>3, <4>1
      <4>. QED  BY <4>1, <4>2, <4>3 DEF Ahead
    <3>. QED  BY <3>1, <3>2, <3>3
  <2>7. Total' \in 0..Total /\ \A i \in 1..Total' : Ahead(i)' = Ahead(i)
    BY <2>5, <2>6
  <2>. QED  BY <1>3, <2>2, <2>5, <2>7, OrderIsKept
<1>6. CASE FileChanges \/ UNCHANGED vars
  BY <1>1, <1>6 DEF FileChanges, vars, clientVars
<1>7. CASE Worker /\ ~TakeRequest /\ ~Read
  BY <1>1, <1>7 DEF Worker, Begin, Handshake, TooLarge, ReceiveFails, ReadTimesOut, TryAgain,
     Process, WriteHeader, WriteText, ReadFile, WriteFile, WriteFails, WriteTimesOut, Release,
     clientVars
<1>. QED  BY <1>2, <1>4, <1>5, <1>6, <1>7 DEF Next

\* All responses so far answer a request, each the next one.
Answered ==
  /\ Len(output) <= Len(sent)
  /\ \A i \in 1..Len(output) : output[i].reply.to = i

\* The sixth layer.  Where the worker is tells how many requests are answered,
\* or are being answered, and that the next one is what lies ahead.
OrderInv ==
  /\ AnswersInOrder
  /\ \A n \in Nat :
       /\ pc \in {"start", "handshake", "receive"} /\ n = Len(output) =>
            Answered /\ InOrder(n)
       /\ pc = "process" /\ n = request =>
            /\ Answered /\ n = Len(output) + 1 /\ n <= Len(sent)
            /\ sent[n].method = "GET" => InOrder(n)
       /\ pc = "header" /\ n = reply.to =>
            /\ Answered
            /\ \/ n = Len(output) + 1 /\ n <= Len(sent) /\ (reply.keep => InOrder(n))
               \/ n = 0 /\ reply.status = 431 /\ ~reply.keep
       /\ pc \in {"text", "file", "write"} /\ reply.keep /\ n = Len(output) =>
            Answered /\ InOrder(n)

\* Nothing is sent, and nothing is ahead, when the connection begins.
LEMMA OrderAtFirst ==
  ASSUME Init
  PROVE  OrderInv
<1>1. /\ output = <<>> /\ sent = <<>> /\ stream = <<>> /\ buffer = <<>> /\ pc = "start"
      /\ Len(<<>>) = 0 /\ DOMAIN output = {}
  BY EmptySeq DEF Init
<1>2. AnswersInOrder
  BY <1>1 DEF AnswersInOrder
<1>3. Answered
  BY <1>1 DEF Answered
<1>4. InOrder(0)
  <2> DEFINE b == [k \in Nat |-> 0]
  <2>1. b \in [Nat -> Int] /\ b[0 + 1] = 0
    OBVIOUS
  <2>2. Len(sent) = 0 /\ Total = 0
    BY <1>1 DEF Total
  <2>3. b[Len(sent) + 1] = 0 /\ (0 + 1)..Len(sent) = {}
    BY <2>2
  <2>. HIDE DEF b
  <2>. QED  BY <2>1, <2>2, <2>3 DEF InOrder
<1>. QED  BY <1>1, <1>2, <1>3, <1>4 DEF OrderInv

\* Responses that are in order stay so while nothing is begun.
LEMMA AnsweredStays ==
  ASSUME StreamInv, FrameInv, [Next]_vars, ~WriteHeader
  PROVE  /\ AnswersInOrder => AnswersInOrder'
         /\ Answered => Answered'
<1>1. /\ Len(output) \in Nat /\ Len(output') = Len(output)
      /\ DOMAIN output = 1..Len(output) /\ DOMAIN output' = 1..Len(output)
      /\ \A i \in 1..Len(output) : output'[i].reply = output[i].reply
  BY OutputStays
<1>2. Len(sent) \in Nat /\ Len(sent') \in Nat /\ Len(sent) <= Len(sent')
  BY SentGrows
<1>3. Answered => Answered'
  BY <1>1, <1>2 DEF Answered
<1>4. ASSUME AnswersInOrder
      PROVE  AnswersInOrder'
  BY <1>1, <1>2, <1>4 DEF AnswersInOrder
<1>. QED  BY <1>3, <1>4

\* What is decided on answers the request.
LEMMA AnswersName ==
  ASSUME NEW r, NEW a \in Answers(r)
  PROVE  a.to = request
<1>1. \A status, keep : Short(status, keep).to = request /\ Redirect(keep).to = request
  BY DEF Short, Redirect
<1>2. \A status, keep, first, last : FileReply(status, keep, first, last).to = request
  BY DEF FileReply, Short
<1>3. \A f \in FileAnswers(r) : f.to = request
  BY <1>1, <1>2 DEF FileAnswers
<1>. QED  BY <1>1, <1>3, ZenonT(30) DEF Answers

\* The next request is taken.
LEMMA OrderTake ==
  ASSUME StreamInv, FrameInv, OrderInv, TakeRequest
  PROVE  OrderInv'
<1>1. pc = "receive" /\ pc' = "process" /\ UNCHANGED <<sent, output>>
  BY DEF TakeRequest, At, clientVars, writeVars
<1>2. PICK n \in Nat : n = Len(output)
  BY LenProperties DEF FrameInv, OutputInv
<1>3. Answered /\ InOrder(n) /\ n \in 0..Len(sent) /\ AnswersInOrder
  BY <1>1, <1>2 DEF OrderInv, Answered
<1>4. /\ request' = n + 1 /\ n + 1 \in 1..Len(sent)
      /\ sent[n + 1].method = "GET" => InOrder(n + 1)'
  BY <1>3, OrderWhenTaken
<1>5. AnswersInOrder' /\ Answered' /\ Len(output') = n
  BY <1>1, <1>2, <1>3 DEF AnswersInOrder, Answered
<1>6. ASSUME NEW m \in Nat, m = request'
      PROVE  /\ Answered' /\ m = Len(output') + 1 /\ m <= Len(sent')
             /\ sent'[m].method = "GET" => InOrder(m)'
  <2>1. m = n + 1
    BY <1>4, <1>6
  <2>. QED  BY <1>1, <1>4, <1>5, <2>1
<1>. QED  BY <1>1, <1>5, <1>6 DEF OrderInv

\* The response to it is decided on.
LEMMA OrderProcess ==
  ASSUME StreamInv, HeldInv, ReplyInv, FrameInv, OrderInv, Process
  PROVE  OrderInv'
<1>1. /\ pc = "process" /\ pc' \in {"header", "release"} /\ UNCHANGED <<sent, output>>
      /\ reply' \in IF request = 0 THEN {Short(400, FALSE)} ELSE Answers(sent[request])
  BY DEF Process, At, clientVars
<1>2. PICK n \in Nat : n = request
  BY LenProperties DEF StreamInv
<1>3. /\ Answered /\ n = Len(output) + 1 /\ n <= Len(sent) /\ AnswersInOrder
      /\ sent[n].method = "GET" => InOrder(n)
  BY <1>1, <1>2 DEF OrderInv
<1>4. n \in 1..Len(sent) /\ Len(sent) \in Nat /\ DOMAIN sent = 1..Len(sent)
  <2>1. Len(sent) \in Nat /\ DOMAIN sent = 1..Len(sent) /\ Len(output) \in Nat
    BY LenProperties DEF StreamInv, FrameInv, OutputInv
  <2>. QED  BY <1>3, <2>1
<1>5. reply' \in Answers(sent[request]) /\ request # 0
  <2>1. request # 0
    BY <1>2, <1>4
  <2>. QED  BY <1>1, <2>1, Zenon
<1>6. reply'.to = n /\ Honoured(reply')
  BY <1>2, <1>5, AnswersName, AnswersAreSendable
<1>7. reply'.keep => InOrder(n)
  BY <1>3, <1>4, <1>6 DEF Honoured
<1>8. InOrder(n) => InOrder(n)'
  BY ZenonT(30) DEF InOrder, Total, Ahead, Process, clientVars
<1>9. AnswersInOrder' /\ Answered' /\ Len(output') = Len(output)
  BY <1>1, <1>3 DEF AnswersInOrder, Answered
<1>10. ASSUME NEW m \in Nat, m = reply'.to
       PROVE  /\ Answered' /\ m = Len(output') + 1 /\ m <= Len(sent')
              /\ reply'.keep => InOrder(m)'
  <2>1. m = n
    BY <1>6, <1>10
  <2>. QED  BY <1>1, <1>3, <1>7, <1>8, <1>9, <2>1
<1>. QED  BY <1>1, <1>9, <1>10 DEF OrderInv

\* The header is begun: one more request is answered.
LEMMA OrderHeader ==
  ASSUME StreamInv, ReplyInv, FrameInv, OrderInv, WriteHeader
  PROVE  OrderInv'
<1>1. /\ pc = "header" /\ pc' \in {"text", "file", "receive", "release"}
      /\ pc' = "receive" => reply.keep
      /\ UNCHANGED <<client, sent, stream, buffer, reply>>
      /\ output' = Append(output, Entry(reply, <<>>))
  BY DEF WriteHeader, At, Done, clientVars
<1>2. PICK n \in Nat : n = reply.to
  BY DEF ReplyInv, Reply
<1>3. /\ Answered
      /\ \/ n = Len(output) + 1 /\ n <= Len(sent) /\ (reply.keep => InOrder(n))
         \/ n = 0 /\ reply.status = 431 /\ ~reply.keep
  BY <1>1, <1>2 DEF OrderInv
<1>4. /\ Len(output) \in Nat /\ Len(output') = Len(output) + 1
      /\ DOMAIN output' = 1..Len(output) + 1
      /\ \A i \in 1..Len(output) : output'[i] = output[i]
      /\ output'[Len(output) + 1].reply = reply
  <2>1. output \in Seq(Output)
    BY DEF FrameInv, OutputInv
  <2>. QED  BY <1>1, <2>1, AppendProperties, LenProperties DEF Entry
<1>5. Len(sent) \in Nat
  BY LenProperties DEF StreamInv
<1>6. ASSUME NEW i \in 1..Len(output) + 1
      PROVE  \/ output'[i].reply.to = i /\ i <= Len(sent')
             \/ output'[i].reply.to = 0 /\ output'[i].reply.status = 431 /\ i = Len(output')
  <2>1. CASE i = Len(output) + 1
    BY <1>1, <1>2, <1>3, <1>4, <2>1
  <2>2. CASE i # Len(output) + 1
    <3>1. i \in 1..Len(output)
      BY <1>4, <2>2
    <3>2. output'[i].reply.to = i /\ i <= Len(sent)
      BY <1>3, <1>4, <1>5, <3>1 DEF Answered
    <3>. QED  BY <1>1, <3>2
  <2>. QED  BY <2>1, <2>2
<1>7. AnswersInOrder'
  BY <1>4, <1>6 DEF AnswersInOrder
<1>8. ASSUME reply.keep
      PROVE  Answered' /\ InOrder(n)' /\ n = Len(output')
  <2>1. n = Len(output) + 1 /\ n <= Len(sent) /\ InOrder(n)
    BY <1>3, <1>8
  <2>2. InOrder(n)'
    BY <1>1, <2>1, ZenonT(30) DEF InOrder, Total, Ahead
  <2>3. ASSUME NEW i \in 1..Len(output) + 1
        PROVE  output'[i].reply.to = i
    <3>1. CASE i = Len(output) + 1
      BY <1>2, <1>4, <2>1, <3>1
    <3>2. CASE i # Len(output) + 1
      <4>1. i \in 1..Len(output)
        BY <1>4, <3>2
      <4>. QED  BY <1>3, <1>4, <4>1 DEF Answered
    <3>. QED  BY <3>1, <3>2
  <2>4. Answered'
    BY <1>1, <1>4, <2>1, <2>3 DEF Answered
  <2>. QED  BY <1>4, <2>1, <2>2, <2>4
<1>9. ASSUME NEW m \in Nat, m = Len(output'), reply'.keep
      PROVE  Answered' /\ InOrder(m)'
  <2>1. reply.keep
    BY <1>1, <1>9
  <2>2. m = n
    BY <1>8, <1>9, <2>1
  <2>. QED  BY <1>8, <2>1, <2>2
<1>10. pc' = "receive" => reply'.keep
  BY <1>1
<1>. QED  BY <1>1, <1>7, <1>9, <1>10 DEF OrderInv

\* Where the other steps lead to.
LEMMA WorkerPlaces ==
  ASSUME [Next]_vars, ~TakeRequest, ~Process, ~WriteHeader, ~TooLarge
  PROVE  /\ UNCHANGED <<request, reply>>
         /\ \/ UNCHANGED pc
            \/ pc' \in {"release", "closed"}
            \/ pc \in {"start", "handshake"} /\ pc' \in {"handshake", "receive"}
            \/ pc \in {"text", "file", "write"} /\ pc' \in {"file", "write"}
            \/ pc \in {"text", "file"} /\ pc' = "receive" /\ reply.keep
<1>1. CASE Begin \/ Handshake \/ ReceiveFails \/ ReadTimesOut \/ WriteFails \/ Release
  BY <1>1 DEF Begin, Handshake, ReceiveFails, ReadTimesOut, WriteFails, Release, At, writeVars
<1>2. CASE WriteText \/ ReadFile \/ WriteFile
  BY <1>2 DEF WriteText, ReadFile, WriteFile, At, Done
<1>3. CASE \/ \E r \in Request : ClientSends(r)
           \/ \E how \in {"closed", "reset", "silent"} : ClientStops(how)
           \/ FileChanges \/ Read \/ TryAgain \/ WriteTimesOut \/ UNCHANGED vars
  BY <1>3 DEF ClientSends, ClientStops, FileChanges, Read, TryAgain, WriteTimesOut, vars,
     writeVars
<1>. QED  BY <1>1, <1>2, <1>3 DEF Next, Worker

\* The sixth layer is inductive, given the others.
LEMMA OrderStep ==
  ASSUME StreamInv, HeldInv, ReplyInv, FrameInv, OrderInv, [Next]_vars
  PROVE  OrderInv'
<1>1. CASE TakeRequest
  BY <1>1, OrderTake
<1>2. CASE Process
  BY <1>2, OrderProcess
<1>3. CASE WriteHeader
  BY <1>3, OrderHeader
<1>4. CASE TooLarge
  <2>1. /\ pc = "receive" /\ pc' = "header" /\ UNCHANGED <<sent, output>>
        /\ reply'.to = 0 /\ reply'.status = 431 /\ ~reply'.keep
    BY <1>4 DEF TooLarge, Incomplete, At, Nothing, clientVars
  <2>2. Answered /\ AnswersInOrder
    <3>1. Len(output) \in Nat
      BY LenProperties DEF FrameInv, OutputInv
    <3>. QED  BY <2>1, <3>1 DEF OrderInv
  <2>3. Answered' /\ AnswersInOrder'
    BY <2>1, <2>2 DEF Answered, AnswersInOrder
  <2>. QED  BY <2>1, <2>3 DEF OrderInv
<1>5. CASE ~TakeRequest /\ ~Process /\ ~WriteHeader /\ ~TooLarge
  <2>1. /\ UNCHANGED <<request, reply>>
        /\ \/ UNCHANGED pc
           \/ pc' \in {"release", "closed"}
           \/ pc \in {"start", "handshake"} /\ pc' \in {"handshake", "receive"}
           \/ pc \in {"text", "file", "write"} /\ pc' \in {"file", "write"}
           \/ pc \in {"text", "file"} /\ pc' = "receive" /\ reply.keep
    BY <1>5, WorkerPlaces
  <2>2. AnswersInOrder' /\ (Answered => Answered')
    BY <1>5, AnsweredStays DEF OrderInv
  <2>3. Len(output') = Len(output) /\ Len(output) \in Nat
    BY <1>5, OutputStays
  <2>4. /\ Len(sent) \in Nat /\ Len(sent') \in Nat /\ Len(sent) <= Len(sent')
        /\ \A k \in 1..Len(sent) : sent'[k] = sent[k]
    BY SentGrows
  <2>5. ASSUME NEW n \in Nat, n <= Len(sent), InOrder(n)
        PROVE  InOrder(n)'
    <3>1. n \in 0..Len(sent)
      BY <2>4, <2>5
    <3>. QED  BY <1>5, <2>5, <3>1, OrderStays
  <2>6. ASSUME NEW n \in Nat, n = Len(output'),
               \/ pc' \in {"start", "handshake", "receive"}
               \/ pc' \in {"text", "file", "write"} /\ reply'.keep
        PROVE  Answered' /\ InOrder(n)'
    <3>1. Answered /\ InOrder(n)
      BY <2>1, <2>3, <2>6 DEF OrderInv
    <3>2. n <= Len(sent)
      BY <2>3, <2>6, <3>1 DEF Answered
    <3>. QED  BY <2>2, <2>5, <3>1, <3>2
  <2>7. ASSUME NEW n \in Nat, pc' = "process", n = request'
        PROVE  /\ Answered' /\ n = Len(output') + 1 /\ n <= Len(sent')
               /\ sent'[n].method = "GET" => InOrder(n)'
    <3>1. /\ Answered /\ n = Len(output) + 1 /\ n <= Len(sent)
          /\ sent[n].method = "GET" => InOrder(n)
      BY <2>1, <2>7 DEF OrderInv
    <3>2. sent'[n] = sent[n] /\ n <= Len(sent')
      BY <2>3, <2>4, <3>1
    <3>. QED  BY <2>2, <2>3, <2>5, <3>1, <3>2
  <2>8. ASSUME NEW n \in Nat, pc' = "header", n = reply'.to
        PROVE  /\ Answered'
               /\ \/ n = Len(output') + 1 /\ n <= Len(sent') /\ (reply'.keep => InOrder(n)')
                  \/ n = 0 /\ reply'.status = 431 /\ ~reply'.keep
    <3>1. /\ Answered
          /\ \/ n = Len(output) + 1 /\ n <= Len(sent) /\ (reply.keep => InOrder(n))
             \/ n = 0 /\ reply.status = 431 /\ ~reply.keep
      BY <2>1, <2>8 DEF OrderInv
    <3>2. n <= Len(sent) => n <= Len(sent')
      BY <2>4
    <3>. QED  BY <2>1, <2>2, <2>3, <2>5, <3>1, <3>2
  <2>. QED  BY <2>2, <2>6, <2>7, <2>8 DEF OrderInv
<1>. QED  BY <1>1, <1>2, <1>3, <1>4, <1>5

-----------------------------------------------------------------------------
(***************************************************************************)
(* The theorems.                                                           *)
(***************************************************************************)

\* The inductive invariant.
Inv == StreamInv /\ HeldInv /\ ReplyInv /\ FrameInv /\ CloseInv /\ OrderInv

\* It holds when client_worker begins.
LEMMA InitHolds ==
  ASSUME Init
  PROVE  Inv
<1>1. <<>> \in Seq(Request) /\ <<>> \in Seq(Token(0)) /\ <<>> \in Seq(Output) /\ Len(<<>>) = 0
  BY EmptySeq
<1>2. StreamInv
  BY <1>1, SizeAssumption DEF Init, StreamInv
<1>3. HeldInv
  BY DEF Init, HeldInv, Holds
<1>4. ReplyInv
  BY DEF Init, ReplyInv, Nothing, Reply
<1>5. FrameInv
  BY <1>1, SizeAssumption DEF Init, FrameInv, OutputInv, ProgressInv
<1>6. CloseInv
  BY <1>1 DEF Init, CloseInv
<1>. QED  BY <1>2, <1>3, <1>4, <1>5, <1>6, OrderAtFirst DEF Inv

\* It holds as long as the connection lasts.
LEMMA InvHolds == Spec => []Inv
<1>1. Inv /\ [Next]_vars => Inv'
  <2>. SUFFICES ASSUME StreamInv, HeldInv, ReplyInv, FrameInv, CloseInv, OrderInv,
                       [Next]_vars
                PROVE  Inv'
    BY DEF Inv
  <2>. QED  BY StreamStep, HeldStep, ReplyStep, FrameStep, CloseStep, OrderStep DEF Inv
<1>. QED  BY InitHolds, <1>1, PTL DEF Spec

\* The variables keep their types; in particular receive_request_headers never
\* has more in its buffer than the buffer holds, and connection_write_all is
\* never asked for more than was read of the file.
THEOREM TypeCorrect == Spec => []TypeOK
<1>1. ASSUME Inv
      PROVE  TypeOK
  <2>. USE <1>1
  <2>1. Token(Len(sent)) \subseteq Nat \cup {BODY} /\ Len(sent) \in Nat
    BY LenProperties DEF Inv, StreamInv, Token
  <2>2. /\ stream \in Seq(Nat \cup {BODY})
        /\ buffer \in Seq(Nat \cup {BODY})
    BY <2>1, SeqMonotonic DEF Inv, StreamInv
  <2>3. request \in Nat
    BY <2>1 DEF Inv, StreamInv
  <2>4. held \subseteq {"fd", "args", "ssl", "request", "file"}
    BY DEF Inv, HeldInv, Holds, Base
  <2>5. left \in 0..IO_BUFFER_SIZE /\ output \in Seq([reply : Reply, body : Seq(Nat)])
    BY DEF Inv, FrameInv, ProgressInv, OutputInv, Output
  <2>. QED  BY <2>2, <2>3, <2>4, <2>5 DEF Inv, StreamInv, HeldInv, ReplyInv, TypeOK
<1>. QED  BY InvHolds, <1>1, PTL

\* However client_worker ends, on whichever error of whichever call, it has
\* released the request, the file, the TLS session, the socket and its
\* arguments, and it carries none of the first two from one request to the next.
THEOREM NothingLeaksHolds == Spec => []NothingLeaks
<1>1. ASSUME Inv
      PROVE  NothingLeaks
  BY <1>1 DEF Inv, HeldInv, Holds, Base, NothingLeaks
<1>. QED  BY InvHolds, <1>1, PTL

\* send_file_response sends what its Content-Length says, from the place its
\* Content-Range says, or client_worker leaves its loop: the client never takes
\* a part of one response for another, though the file changes meanwhile.
THEOREM StreamStaysFramedHolds == Spec => []StreamStaysFramed
<1>1. ASSUME Inv
      PROVE  StreamStaysFramed
  <2>. SUFFICES ASSUME NEW i \in DOMAIN output
                PROVE  /\ Len(output[i].body) <= Promised(output[i].reply)
                       /\ i < Len(output) =>
                            /\ Len(output[i].body) = Promised(output[i].reply)
                            /\ output[i].reply.keep
                       /\ \A k \in DOMAIN output[i].body :
                            output[i].body[k] = output[i].reply.start + k - 1
    BY Zenon DEF StreamStaysFramed
  <2>1. output \in Seq(Output) /\ i \in 1..Len(output)
    BY <1>1, LenProperties DEF Inv, FrameInv, OutputInv
  <2>2. output[i] \in Output
    BY <2>1, ElementOfSeq
  <2>3. DOMAIN output[i].body = 1..Len(output[i].body)
    BY <2>2, LenProperties DEF Output
  <2>. QED  BY <1>1, <2>1, <2>3 DEF Inv, FrameInv, OutputInv, Framed, Complete
<1>. QED  BY InvHolds, <1>1, PTL

\* After the answer to a request that process_http_request does not keep the
\* connection for, client_worker sends nothing more on it.
THEOREM CloseIsHonouredHolds == Spec => []CloseIsHonoured
<1>1. ASSUME Inv
      PROVE  CloseIsHonoured
  <2>. SUFFICES ASSUME NEW i \in DOMAIN output, i < Len(output)
                PROVE  /\ output[i].reply.to \in DOMAIN sent
                       /\ LET r == sent[output[i].reply.to]
                          IN  /\ "close" \notin r.connection
                              /\ r.version = "1.0" => "keep-alive" \in r.connection
                              /\ r.method = "GET" /\ r.version \in {"1.0", "1.1"}
    BY Zenon DEF CloseIsHonoured
  <2>1. i \in 1..Len(output) /\ Len(output) \in Nat
    BY <1>1, LenProperties DEF Inv, FrameInv, OutputInv
  <2>2. output[i].reply.keep
    BY <1>1, <2>1 DEF Inv, FrameInv, OutputInv, Complete
  <2>3. Honoured(output[i].reply)
    BY <1>1, <2>1 DEF Inv, CloseInv
  <2>4. output[i].reply.to = i /\ i <= Len(sent)
    <3>1. i # Len(output)
      BY <2>1
    <3>. QED  BY <1>1, <3>1 DEF Inv, OrderInv, AnswersInOrder
  <2>5. output[i].reply.to \in DOMAIN sent
    <3>1. DOMAIN sent = 1..Len(sent) /\ Len(sent) \in Nat
      BY <1>1, LenProperties DEF Inv, StreamInv
    <3>. QED  BY <2>1, <2>4, <3>1
  <2>. QED  BY <2>2, <2>3, <2>5 DEF Honoured
<1>. QED  BY InvHolds, <1>1, PTL

\* However the stream is cut into reads, and wherever the client stops it,
\* receive_request_headers finds the requests one by one: the nth response is
\* for the nth request, and only what is too large for the buffer is answered
\* without being a request, by the last response.
THEOREM AnswersInOrderHolds == Spec => []AnswersInOrder
<1>1. Inv => AnswersInOrder
  BY DEF Inv, OrderInv
<1>. QED  BY InvHolds, <1>1, PTL
=============================================================================
