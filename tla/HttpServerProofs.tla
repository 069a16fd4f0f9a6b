-------------------------- MODULE HttpServerProofs --------------------------
(***************************************************************************)
(* Proofs about the process of the file server, for every set of clients   *)
(* and every limit.                                                        *)
(***************************************************************************)
EXTENDS HttpServer, SequenceTheorems, FiniteSetTheorems, TLAPS

USE DEF threadVars, clientVars, heldVars

-----------------------------------------------------------------------------
(***************************************************************************)
(* main and the listener threads.                                          *)
(***************************************************************************)

\* What main has done and what the listeners have become.
ThreadInv ==
  /\ main \in {"start", "create_http", "create_https", "check", "return",
               "join_http", "join_https", "exited"}
  /\ thread \in [Listener -> {"none", "setup", "accept", "handover", "ended"}]
  /\ context \in {"none", "owned", "released"}
  /\ main \in {"start", "create_http"} => thread["http"] = "none"
  /\ main \in {"start", "create_http", "create_https"} => thread["https"] = "none"
  /\ main \in {"create_http", "create_https", "check", "join_http", "join_https"} =>
       context = "owned"
  /\ main \in {"join_http", "join_https"} => Created = Listener
  /\ main = "join_https" => thread["http"] = "ended"
  /\ ServerStaysUp

\* The first layer is inductive.
LEMMA ThreadStep ==
  ASSUME ThreadInv, [Next]_vars
  PROVE  ThreadInv'
<1>. USE DEF ThreadInv, ServerStaysUp, Created, MainGoes, Listener
<1>1. CASE CreateContext
  BY <1>1 DEF CreateContext
<1>2. CASE CheckListeners
  BY <1>2 DEF CheckListeners
<1>3. CASE Join
  BY <1>3 DEF Join
<1>4. CASE Return
  BY <1>4 DEF Return
<1>5. ASSUME NEW l \in Listener, CreateListener(l)
      PROVE  ThreadInv'
  BY <1>5 DEF CreateListener
<1>6. ASSUME NEW l \in Listener, Listen(l) \/ Accept(l)
      PROVE  ThreadInv'
  BY <1>6 DEF Listen, Accept, Alive
<1>7. ASSUME NEW l \in Listener, NEW c \in Client, StartWorker(l, c) \/ DropClient(l, c)
      PROVE  ThreadInv'
  BY <1>7 DEF StartWorker, DropClient, HandsOver, Alive
<1>8. ASSUME NEW c \in Client,
             Connect(c) \/ Serve(c) \/ OpenFile(c) \/ CloseFile(c) \/ EndWorker(c)
      PROVE  UNCHANGED threadVars
  BY <1>8 DEF Connect, Serve, OpenFile, CloseFile, EndWorker
<1>9. CASE UNCHANGED threadVars
  BY <1>9
<1>10. UNCHANGED vars => UNCHANGED threadVars
  BY DEF vars
<1>. QED
  BY <1>1, <1>2, <1>3, <1>4, <1>5, <1>6, <1>7, <1>8, <1>9, <1>10 DEF Next

-----------------------------------------------------------------------------
(***************************************************************************)
(* The clients.                                                            *)
(***************************************************************************)

\* Whoever waits in a queue waits there once, and only a listener that got its
\* socket has clients.
QueueInv ==
  /\ queue \in [Listener -> Seq(Client)]
  /\ conn \in [Client -> {"new", "queued", "accepted", "started", "serving", "reading",
                          "closed"}]
  /\ \A l \in Listener : \A i \in DOMAIN queue[l] : conn[queue[l][i]] = "queued"
  /\ \A l \in Listener : \A i, j \in DOMAIN queue[l] : queue[l][i] = queue[l][j] => i = j
  /\ \A l \in Listener : \A i \in DOMAIN queue[l] : Wants[queue[l][i]] = l
  /\ \A c \in Client : conn[c] # "new" => thread[Wants[c]] \in {"accept", "handover"}
  /\ \A l \in Listener : Len(queue[l]) <= LISTEN_BACKLOG

\* A listener that got its socket keeps it.
LEMMA ListenersStay ==
  ASSUME ThreadInv, Next, NEW l \in Listener, thread[l] \in {"accept", "handover"}
  PROVE  thread'[l] \in {"accept", "handover"}
<1>1. thread \in [Listener -> {"none", "setup", "accept", "handover", "ended"}]
  BY DEF ThreadInv
<1>2. ASSUME NEW k \in Listener, CreateListener(k)
      PROVE  k # l
  BY <1>2 DEF CreateListener, ThreadInv, MainGoes, Listener
<1>3. ASSUME NEW k \in Listener, CreateListener(k) \/ Listen(k)
      PROVE  thread'[l] = thread[l]
  BY <1>1, <1>2, <1>3 DEF CreateListener, Listen
<1>4. ASSUME NEW k \in Listener, Accept(k)
      PROVE  thread'[l] \in {"accept", "handover"}
  BY <1>1, <1>4 DEF Accept
<1>5. ASSUME NEW k \in Listener, NEW c \in Client, StartWorker(k, c) \/ DropClient(k, c)
      PROVE  thread'[l] \in {"accept", "handover"}
  BY <1>1, <1>5 DEF StartWorker, DropClient, HandsOver
<1>6. CASE \/ CreateContext \/ CheckListeners \/ Join \/ Return
           \/ \E c \in Client :
                Connect(c) \/ Serve(c) \/ OpenFile(c) \/ CloseFile(c) \/ EndWorker(c)
  BY <1>6 DEF CreateContext, CheckListeners, Join, Return, Connect, Serve, OpenFile,
     CloseFile, EndWorker
<1>. QED  BY <1>3, <1>4, <1>5, <1>6 DEF Next

\* The second layer is inductive.
LEMMA QueueStep ==
  ASSUME ThreadInv, QueueInv, [Next]_vars
  PROVE  QueueInv'
<1>1. ASSUME NEW c \in Client, Connect(c)
      PROVE  QueueInv'
  <2> DEFINE l == Wants[c]
  <2>1. /\ conn[c] = "new" /\ thread[l] \in {"accept", "handover"} /\ UNCHANGED thread
        /\ conn' = [conn EXCEPT ![c] = "queued"]
        /\ queue' = [queue EXCEPT ![l] = Append(queue[l], c)]
    BY <1>1 DEF Connect
  <2>2. l \in Listener /\ queue[l] \in Seq(Client)
    BY ClientAssumption DEF QueueInv
  <2>3. /\ Append(queue[l], c) \in Seq(Client) /\ Len(Append(queue[l], c)) = Len(queue[l]) + 1
        /\ DOMAIN queue[l] = 1..Len(queue[l]) /\ Len(queue[l]) \in Nat
        /\ DOMAIN Append(queue[l], c) = DOMAIN queue[l] \cup {Len(queue[l]) + 1}
        /\ Len(queue[l]) + 1 \notin DOMAIN queue[l]
        /\ \A i \in DOMAIN queue[l] : Append(queue[l], c)[i] = queue[l][i]
        /\ Append(queue[l], c)[Len(queue[l]) + 1] = c
    BY <2>2, AppendProperties
  <2>. HIDE DEF l
  <2>4. \A k \in Listener : queue'[k] = IF k = l THEN Append(queue[l], c) ELSE queue[k]
    BY <2>1, <2>2 DEF QueueInv
  <2>5. queue' \in [Listener -> Seq(Client)]
    BY <2>1, <2>3 DEF QueueInv
  <2>6. conn'[c] = "queued" /\ \A d \in Client : d # c => conn'[d] = conn[d]
    BY <2>1 DEF QueueInv
  <2>7. \A k \in Listener : \A i \in DOMAIN queue[k] : queue[k][i] # c /\ queue[k][i] \in Client
    BY <2>1 DEF QueueInv
  <2>13. ASSUME NEW k \in Listener, NEW i \in DOMAIN queue'[k]
         PROVE  \/ k = l /\ i = Len(queue[l]) + 1 /\ queue'[k][i] = c
                \/ i \in DOMAIN queue[k] /\ queue'[k][i] = queue[k][i]
    <3>1. CASE k = l
      <4>1. queue'[k] = Append(queue[l], c)
        BY <2>4, <3>1
      <4>2. i \in DOMAIN queue[l] \/ i = Len(queue[l]) + 1
        BY <2>3, <2>13, <4>1
      <4>. QED  BY <2>3, <3>1, <4>1, <4>2
    <3>2. CASE k # l
      BY <2>4, <2>13, <3>2
    <3>. QED  BY <3>1, <3>2
  <2>8. \A k \in Listener : \A i \in DOMAIN queue'[k] : conn'[queue'[k][i]] = "queued"
    <3>. TAKE k \in Listener
    <3>. TAKE i \in DOMAIN queue'[k]
    <3>1. CASE i \in DOMAIN queue[k] /\ queue'[k][i] = queue[k][i]
      <4>1. conn[queue[k][i]] = "queued"
        BY <3>1 DEF QueueInv
      <4>2. conn'[queue[k][i]] = conn[queue[k][i]]
        BY <2>6, <2>7, <3>1
      <4>. QED  BY <3>1, <4>1, <4>2
    <3>. QED  BY <2>6, <2>13, <3>1
  <2>9. \A k \in Listener : \A i, j \in DOMAIN queue'[k] : queue'[k][i] = queue'[k][j] => i = j
    <3>. TAKE k \in Listener
    <3>. TAKE i, j \in DOMAIN queue'[k]
    <3>1. i \in DOMAIN queue[k] /\ j \in DOMAIN queue[k] /\ queue[k][i] = queue[k][j] => i = j
      BY DEF QueueInv
    <3>2. i \in DOMAIN queue[k] => queue[k][i] # c
      BY <2>7
    <3>3. j \in DOMAIN queue[k] => queue[k][j] # c
      BY <2>7
    <3>4. \/ k = l /\ i = Len(queue[l]) + 1 /\ queue'[k][i] = c
          \/ i \in DOMAIN queue[k] /\ queue'[k][i] = queue[k][i]
      BY <2>13
    <3>5. \/ k = l /\ j = Len(queue[l]) + 1 /\ queue'[k][j] = c
          \/ j \in DOMAIN queue[k] /\ queue'[k][j] = queue[k][j]
      BY <2>13
    <3>. QED  BY <3>1, <3>2, <3>3, <3>4, <3>5
  <2>10. \A k \in Listener : \A i \in DOMAIN queue'[k] : Wants[queue'[k][i]] = k
    <3>. TAKE k \in Listener
    <3>. TAKE i \in DOMAIN queue'[k]
    <3>1. i \in DOMAIN queue[k] => Wants[queue[k][i]] = k
      BY DEF QueueInv
    <3>2. Wants[c] = l
      BY DEF l
    <3>. QED  BY <2>13, <3>1, <3>2
  <2>11. conn' \in [Client -> {"new", "queued", "accepted", "started", "serving", "reading",
                               "closed"}]
    BY <2>1 DEF QueueInv
  <2>12. \A d \in Client : conn'[d] # "new" => thread'[Wants[d]] \in {"accept", "handover"}
    BY <2>1, <2>6 DEF QueueInv, l
  <2>14. \A k \in Listener : Len(queue'[k]) <= LISTEN_BACKLOG
    <3>1. Len(queue[l]) < LISTEN_BACKLOG
      BY <1>1 DEF Connect, l
    <3>2. Len(Append(queue[l], c)) <= LISTEN_BACKLOG
      BY <2>3, <3>1, LimitAssumption
    <3>3. \A k \in Listener : Len(queue[k]) <= LISTEN_BACKLOG
      BY DEF QueueInv
    <3>. QED  BY <2>4, <3>2, <3>3
  <2>. QED  BY <2>5, <2>8, <2>9, <2>10, <2>11, <2>12, <2>14 DEF QueueInv
<1>2. ASSUME NEW l \in Listener, Accept(l)
      PROVE  QueueInv'
  <2> DEFINE c == Head(queue[l])
  <2>1. /\ queue[l] \in Seq(Client) /\ queue[l] # <<>>
        /\ conn' = [conn EXCEPT ![c] = "accepted"]
        /\ queue' = [queue EXCEPT ![l] = Tail(queue[l])]
    BY <1>2 DEF Accept, QueueInv
  <2>2. /\ c \in Client /\ c = queue[l][1] /\ 1 \in DOMAIN queue[l]
        /\ Tail(queue[l]) \in Seq(Client)
        /\ \A i \in DOMAIN Tail(queue[l]) : i + 1 \in DOMAIN queue[l] /\ i + 1 # 1 /\ i \in Nat
        /\ \A i \in DOMAIN Tail(queue[l]) : Tail(queue[l])[i] = queue[l][i + 1]
    BY <2>1, HeadTailProperties
  <2>. HIDE DEF c
  <2>3. \A k \in Listener : queue'[k] = IF k = l THEN Tail(queue[l]) ELSE queue[k]
    BY <2>1 DEF QueueInv
  <2>4. queue' \in [Listener -> Seq(Client)]
    BY <2>1, <2>2 DEF QueueInv
  <2>5. conn'[c] = "accepted" /\ \A d \in Client : d # c => conn'[d] = conn[d]
    BY <2>1, <2>2 DEF QueueInv
  <2>6. \A k \in Listener : \A i \in DOMAIN queue'[k] : \E j \in DOMAIN queue[k] :
          queue'[k][i] = queue[k][j] /\ (k = l => j = i + 1 /\ j # 1)
    BY <2>2, <2>3
  <2>7. c # "none" => Wants[c] = l /\ conn[c] = "queued"
    BY <2>2 DEF QueueInv
  <2>8. \A k \in Listener : \A i \in DOMAIN queue'[k] : queue'[k][i] \in Client /\ queue'[k][i] # c
    BY <2>2, <2>6, ClientAssumption DEF QueueInv
  <2>9. \A k \in Listener : \A i \in DOMAIN queue'[k] : conn'[queue'[k][i]] = "queued"
    BY <2>5, <2>6, <2>8 DEF QueueInv
  <2>10. \A k \in Listener : \A i, j \in DOMAIN queue'[k] : queue'[k][i] = queue'[k][j] => i = j
    <3>. TAKE k \in Listener
    <3>. TAKE i, j \in DOMAIN queue'[k]
    <3>1. CASE k # l
      BY <2>3, <3>1 DEF QueueInv
    <3>2. CASE k = l
      <4>1. queue'[k] = Tail(queue[l])
        BY <2>3, <3>2
      <4>2. /\ i + 1 \in DOMAIN queue[l] /\ queue'[k][i] = queue[l][i + 1] /\ i \in Nat
            /\ j + 1 \in DOMAIN queue[l] /\ queue'[k][j] = queue[l][j + 1] /\ j \in Nat
        BY <2>2, <4>1
      <4>3. queue[l][i + 1] = queue[l][j + 1] => i + 1 = j + 1
        BY <4>2 DEF QueueInv
      <4>4. i + 1 = j + 1 => i = j
        BY <4>2
      <4>. QED  BY <4>2, <4>3, <4>4
    <3>. QED  BY <3>1, <3>2
  <2>11. \A k \in Listener : \A i \in DOMAIN queue'[k] : Wants[queue'[k][i]] = k
    BY <2>6 DEF QueueInv
  <2>12. conn' \in [Client -> {"new", "queued", "accepted", "started", "serving", "reading",
                               "closed"}]
    BY <2>1 DEF QueueInv
  <2>13. conn[c] = "queued"
    BY <2>2 DEF QueueInv
  <2>14. \A d \in Client : conn'[d] # "new" => thread'[Wants[d]] \in {"accept", "handover"}
    BY <1>2, <2>5, <2>13, <2>2, ListenersStay, ClientAssumption DEF QueueInv, Next
  <2>15. \A k \in Listener : Len(queue'[k]) <= LISTEN_BACKLOG
    <3>1. Len(Tail(queue[l])) <= Len(queue[l]) /\ Len(queue[l]) <= LISTEN_BACKLOG
          /\ Len(Tail(queue[l])) \in Nat /\ Len(queue[l]) \in Nat
      BY <2>1, HeadTailProperties DEF QueueInv
    <3>2. Len(Tail(queue[l])) <= LISTEN_BACKLOG
      BY <3>1, LimitAssumption
    <3>. QED  BY <2>3, <3>2 DEF QueueInv
  <2>. QED  BY <2>4, <2>9, <2>10, <2>11, <2>12, <2>14, <2>15 DEF QueueInv
<1>3. ASSUME Next, UNCHANGED queue,
             NEW c \in Client, NEW s \in {"started", "serving", "reading", "closed"},
             conn[c] \notin {"new", "queued"}, conn' = [conn EXCEPT ![c] = s]
      PROVE  QueueInv'
  <2>1. \A d \in Client :
          conn[d] \in {"new", "queued"} \/ conn'[d] \in {"new", "queued"} => conn'[d] = conn[d]
    BY <1>3 DEF QueueInv
  <2>2. conn' \in [Client -> {"new", "queued", "accepted", "started", "serving", "reading",
                              "closed"}]
    BY <1>3 DEF QueueInv
  <2>3. \A d \in Client : conn'[d] # "new" => thread'[Wants[d]] \in {"accept", "handover"}
    BY <1>3, <2>1, ListenersStay, ClientAssumption DEF QueueInv
  <2>4. \A l \in Listener : \A i \in DOMAIN queue[l] : queue[l][i] \in Client
    BY DEF QueueInv
  <2>5. \A l \in Listener : \A i \in DOMAIN queue[l] : conn'[queue[l][i]] = "queued"
    BY <2>1, <2>4 DEF QueueInv
  <2>. QED  BY <1>3, <2>2, <2>3, <2>5 DEF QueueInv
<1>4. ASSUME NEW l \in Listener, NEW c \in Client, StartWorker(l, c) \/ DropClient(l, c)
      PROVE  QueueInv'
  <2>1. /\ UNCHANGED queue /\ conn[c] = "accepted"
        /\ \E s \in {"started", "closed"} : conn' = [conn EXCEPT ![c] = s]
    BY <1>4 DEF StartWorker, DropClient, HandsOver
  <2>. QED  BY <1>3, <1>4, <2>1 DEF Next
<1>5. ASSUME NEW c \in Client, Serve(c) \/ OpenFile(c) \/ CloseFile(c) \/ EndWorker(c)
      PROVE  QueueInv'
  <2>1. /\ UNCHANGED queue /\ conn[c] \in {"started", "serving", "reading"}
        /\ \E s \in {"serving", "reading", "closed"} : conn' = [conn EXCEPT ![c] = s]
    BY <1>5 DEF Serve, OpenFile, CloseFile, EndWorker
  <2>. QED  BY <1>3, <1>5, <2>1 DEF Next
<1>6. CASE Next /\ UNCHANGED clientVars
  <2>1. \A c \in Client : conn'[c] # "new" => thread'[Wants[c]] \in {"accept", "handover"}
    BY <1>6, ListenersStay, ClientAssumption DEF QueueInv
  <2>. QED  BY <1>6, <2>1 DEF QueueInv
<1>7. CASE UNCHANGED vars
  BY <1>7 DEF vars, QueueInv
<1>8. CASE \/ CreateContext \/ CheckListeners \/ Join \/ Return
           \/ \E l \in Listener : CreateListener(l) \/ Listen(l)
  <2>1. UNCHANGED clientVars
    BY <1>8 DEF CreateContext, CheckListeners, Join, Return, CreateListener, Listen
  <2>. QED  BY <1>6, <1>8, <2>1 DEF Next
<1>. QED  BY <1>1, <1>2, <1>4, <1>5, <1>7, <1>8 DEF Next

-----------------------------------------------------------------------------
(***************************************************************************)
(* What the clients hold.                                                  *)
(***************************************************************************)

Reading == {c \in Client : conn[c] = "reading"}

\* The context has been misused only when main is about to exit because a
\* listener could not be created.
MisusedLate ==
  /\ misused \in BOOLEAN
  /\ misused => main \in {"return", "exited"} /\ Created # Listener

\* The descriptors are counted, and the context is used while it is there.
HeldInv ==
  /\ NothingLeaks
  /\ descriptors <= MaxDescriptors
  /\ MisusedLate

\* The three sets whose members hold a descriptor are finite.
LEMMA HoldersAreFinite ==
  /\ IsFiniteSet(Listening) /\ Cardinality(Listening) \in Nat
  /\ IsFiniteSet(WithSocket) /\ Cardinality(WithSocket) \in Nat
  /\ IsFiniteSet(Reading) /\ Cardinality(Reading) \in Nat
<1>1. IsFiniteSet(Listener)
  <2>1. Listener = ({} \cup {"http"}) \cup {"https"}
    BY DEF Listener
  <2>. QED  BY <2>1, FS_EmptySet, FS_AddElement
<1>2. Listening \subseteq Listener /\ WithSocket \subseteq Client /\ Reading \subseteq Client
  BY DEF Listening, WithSocket, Reading
<1>. QED  BY <1>1, <1>2, ClientAssumption, FS_Subset, FS_CardinalityType

\* The sum that NothingLeaks compares the descriptors with.
Holders == Cardinality(Listening) + Cardinality(WithSocket) + Cardinality(Reading)

\* A step leaves every descriptor with its holder.
LEMMA CountStep ==
  ASSUME ThreadInv, QueueInv, [Next]_vars, descriptors = Holders
  PROVE  descriptors' = Holders'
<1>0. /\ thread \in [Listener -> {"none", "setup", "accept", "handover", "ended"}]
      /\ conn \in [Client -> {"new", "queued", "accepted", "started", "serving", "reading",
                              "closed"}]
  BY DEF ThreadInv, QueueInv
<1>1. CASE /\ UNCHANGED descriptors
           /\ Listening' = Listening /\ WithSocket' = WithSocket /\ Reading' = Reading
  BY <1>1 DEF Holders
<1>2. CASE UNCHANGED vars
  BY <1>1, <1>2 DEF vars, Listening, WithSocket, Reading
<1>3. CASE CreateContext \/ CheckListeners \/ Join \/ Return
  <2>. UNCHANGED <<descriptors, thread, conn>>
    BY <1>3 DEF CreateContext, CheckListeners, Join, Return
  <2>. QED  BY <1>1 DEF Listening, WithSocket, Reading
<1>4. ASSUME NEW l \in Listener, CreateListener(l)
      PROVE  descriptors' = Holders'
  <2>1. /\ UNCHANGED <<descriptors, conn>>
        /\ thread[l] = "none" /\ thread' \in {thread, [thread EXCEPT ![l] = "setup"]}
    BY <1>4 DEF CreateListener, ThreadInv, MainGoes, Listener
  <2>2. Listening' = Listening
    BY <1>0, <2>1 DEF Listening
  <2>. QED  BY <1>1, <2>1, <2>2 DEF WithSocket, Reading
<1>5. ASSUME NEW l \in Listener, Listen(l)
      PROVE  descriptors' = Holders'
  <2>1. UNCHANGED conn /\ thread[l] = "setup"
    BY <1>5 DEF Listen
  <2>2. WithSocket' = WithSocket /\ Reading' = Reading
    BY <2>1 DEF WithSocket, Reading
  <2>3. CASE descriptors' = descriptors + 1 /\ thread' = [thread EXCEPT ![l] = "accept"]
    <3>1. Listening' = Listening \cup {l} /\ l \notin Listening
      BY <1>0, <2>1, <2>3 DEF Listening
    <3>2. Cardinality(Listening') = Cardinality(Listening) + 1
      BY <3>1, HoldersAreFinite, FS_AddElement
    <3>. QED  BY <2>2, <2>3, <3>2, HoldersAreFinite DEF Holders
  <2>4. CASE UNCHANGED descriptors /\ thread' = [thread EXCEPT ![l] = "ended"]
    <3>1. Listening' = Listening
      BY <1>0, <2>1, <2>4 DEF Listening
    <3>. QED  BY <1>1, <2>2, <2>4, <3>1
  <2>. QED  BY <1>5, <2>3, <2>4 DEF Listen
<1>6. ASSUME NEW c \in Client, Connect(c) \/ Serve(c)
      PROVE  descriptors' = Holders'
  <2>1. /\ UNCHANGED <<descriptors, thread>>
        /\ \/ conn[c] = "new" /\ conn' = [conn EXCEPT ![c] = "queued"]
           \/ conn[c] = "started" /\ conn' = [conn EXCEPT ![c] = "serving"]
    BY <1>6 DEF Connect, Serve
  <2>2. WithSocket' = WithSocket
    BY <1>0, <2>1 DEF WithSocket
  <2>3. Reading' = Reading
    BY <1>0, <2>1 DEF Reading
  <2>. QED  BY <1>1, <2>1, <2>2, <2>3 DEF Listening
<1>7. ASSUME NEW l \in Listener, Accept(l)
      PROVE  descriptors' = Holders'
  <2> DEFINE c == Head(queue[l])
  <2>1. /\ thread[l] = "accept" /\ thread' = [thread EXCEPT ![l] = "handover"]
        /\ conn' = [conn EXCEPT ![c] = "accepted"] /\ descriptors' = descriptors + 1
    BY <1>7 DEF Accept
  <2>2. c \in Client /\ conn[c] = "queued"
    <3>1. queue[l] \in Seq(Client) /\ queue[l] # <<>>
      BY <1>7 DEF Accept, QueueInv
    <3>2. c \in Client /\ c = queue[l][1] /\ 1 \in DOMAIN queue[l]
      BY <3>1, HeadTailProperties
    <3>. QED  BY <3>2 DEF QueueInv
  <2>. HIDE DEF c
  <2>3. Listening' = Listening
    BY <1>0, <2>1 DEF Listening
  <2>4. Reading' = Reading
    BY <1>0, <2>1, <2>2 DEF Reading
  <2>5. WithSocket' = WithSocket \cup {c} /\ c \notin WithSocket
    BY <1>0, <2>1, <2>2 DEF WithSocket
  <2>6. Cardinality(WithSocket') = Cardinality(WithSocket) + 1
    BY <2>5, HoldersAreFinite, FS_AddElement
  <2>. QED  BY <2>1, <2>3, <2>4, <2>6, HoldersAreFinite DEF Holders
<1>8. ASSUME NEW l \in Listener, NEW c \in Client, StartWorker(l, c)
      PROVE  descriptors' = Holders'
  <2>1. /\ UNCHANGED descriptors /\ thread[l] = "handover" /\ conn[c] = "accepted"
        /\ thread' = [thread EXCEPT ![l] = "accept"] /\ conn' = [conn EXCEPT ![c] = "started"]
    BY <1>8 DEF StartWorker, HandsOver
  <2>2. Listening' = Listening
    BY <1>0, <2>1 DEF Listening
  <2>3. WithSocket' = WithSocket
    BY <1>0, <2>1 DEF WithSocket
  <2>4. Reading' = Reading
    BY <1>0, <2>1 DEF Reading
  <2>. QED  BY <1>1, <2>1, <2>2, <2>3, <2>4
<1>9. ASSUME NEW l \in Listener, NEW c \in Client, DropClient(l, c)
      PROVE  descriptors' = Holders'
  <2>1. /\ descriptors' = descriptors - 1 /\ thread[l] = "handover" /\ conn[c] = "accepted"
        /\ thread' = [thread EXCEPT ![l] = "accept"] /\ conn' = [conn EXCEPT ![c] = "closed"]
    BY <1>9 DEF DropClient, HandsOver
  <2>2. Listening' = Listening
    BY <1>0, <2>1 DEF Listening
  <2>3. Reading' = Reading
    BY <1>0, <2>1 DEF Reading
  <2>4. WithSocket' = WithSocket \ {c} /\ c \in WithSocket
    BY <1>0, <2>1 DEF WithSocket
  <2>5. Cardinality(WithSocket') = Cardinality(WithSocket) - 1
    BY <2>4, HoldersAreFinite, FS_RemoveElement
  <2>. QED  BY <2>1, <2>2, <2>3, <2>5, HoldersAreFinite DEF Holders
<1>10. ASSUME NEW c \in Client, OpenFile(c)
       PROVE  descriptors' = Holders'
  <2>1. /\ descriptors' = descriptors + 1 /\ UNCHANGED thread
        /\ conn[c] = "serving" /\ conn' = [conn EXCEPT ![c] = "reading"]
    BY <1>10 DEF OpenFile
  <2>2. WithSocket' = WithSocket
    BY <1>0, <2>1 DEF WithSocket
  <2>3. Reading' = Reading \cup {c} /\ c \notin Reading
    BY <1>0, <2>1 DEF Reading
  <2>4. Cardinality(Reading') = Cardinality(Reading) + 1
    BY <2>3, HoldersAreFinite, FS_AddElement
  <2>5. Listening' = Listening
    BY <2>1 DEF Listening
  <2>. QED  BY <2>1, <2>2, <2>4, <2>5, HoldersAreFinite DEF Holders
<1>11. ASSUME NEW c \in Client, CloseFile(c)
       PROVE  descriptors' = Holders'
  <2>1. /\ descriptors' = descriptors - 1 /\ UNCHANGED thread
        /\ conn[c] = "reading" /\ conn' = [conn EXCEPT ![c] = "serving"]
    BY <1>11 DEF CloseFile
  <2>2. WithSocket' = WithSocket
    BY <1>0, <2>1 DEF WithSocket
  <2>3. Reading' = Reading \ {c} /\ c \in Reading
    BY <1>0, <2>1 DEF Reading
  <2>4. Cardinality(Reading') = Cardinality(Reading) - 1
    BY <2>3, HoldersAreFinite, FS_RemoveElement
  <2>5. Listening' = Listening
    BY <2>1 DEF Listening
  <2>. QED  BY <2>1, <2>2, <2>4, <2>5, HoldersAreFinite DEF Holders
<1>12. ASSUME NEW c \in Client, EndWorker(c)
       PROVE  descriptors' = Holders'
  <2>1. /\ descriptors' = descriptors - 1 /\ UNCHANGED thread
        /\ conn[c] \in {"started", "serving"} /\ conn' = [conn EXCEPT ![c] = "closed"]
    BY <1>12 DEF EndWorker
  <2>2. Reading' = Reading
    BY <1>0, <2>1 DEF Reading
  <2>3. WithSocket' = WithSocket \ {c} /\ c \in WithSocket
    BY <1>0, <2>1 DEF WithSocket
  <2>4. Cardinality(WithSocket') = Cardinality(WithSocket) - 1
    BY <2>3, HoldersAreFinite, FS_RemoveElement
  <2>5. Listening' = Listening
    BY <2>1 DEF Listening
  <2>. QED  BY <2>1, <2>2, <2>4, <2>5, HoldersAreFinite DEF Holders
<1>. QED
  BY <1>2, <1>3, <1>4, <1>5, <1>6, <1>7, <1>8, <1>9, <1>10, <1>11, <1>12 DEF Next

\* Which clients have their arguments and their SSL object allocated.
Allocated ==
  /\ args = {c \in Client : conn[c] \in {"started", "serving", "reading"}}
  /\ ssl \subseteq args

\* A step leaves nothing allocated for a client that is gone.
LEMMA AllocatedStep ==
  ASSUME ThreadInv, QueueInv, Allocated, [Next]_vars
  PROVE  Allocated'
<1>0. conn \in [Client -> {"new", "queued", "accepted", "started", "serving", "reading",
                           "closed"}]
  BY DEF QueueInv
<1>. USE DEF Allocated
<1>1. CASE UNCHANGED <<conn, args, ssl>>
  BY <1>1
<1>2. ASSUME NEW c \in Client, NEW s \in {"queued", "accepted", "closed"},
             conn[c] \in {"new", "queued", "accepted"}, conn' = [conn EXCEPT ![c] = s],
             UNCHANGED <<args, ssl>>
      PROVE  Allocated'
  BY <1>0, <1>2
<1>3. ASSUME NEW c \in Client, Connect(c)
      PROVE  Allocated'
  BY <1>2, <1>3 DEF Connect
<1>4. ASSUME NEW l \in Listener, Accept(l)
      PROVE  Allocated'
  <2>1. Head(queue[l]) \in Client /\ conn[Head(queue[l])] = "queued"
    <3>1. queue[l] \in Seq(Client) /\ queue[l] # <<>>
      BY <1>4 DEF Accept, QueueInv
    <3>2. /\ Head(queue[l]) \in Client /\ Head(queue[l]) = queue[l][1]
          /\ 1 \in DOMAIN queue[l]
      BY <3>1, HeadTailProperties
    <3>. QED  BY <3>2 DEF QueueInv
  <2>2. /\ conn' = [conn EXCEPT ![Head(queue[l])] = "accepted"]
        /\ UNCHANGED <<args, ssl>>
    BY <1>4 DEF Accept
  <2>. QED  BY <1>2, <2>1, <2>2
<1>5. ASSUME NEW l \in Listener, NEW c \in Client, StartWorker(l, c)
      PROVE  Allocated'
  <2>1. /\ conn[c] = "accepted" /\ conn' = [conn EXCEPT ![c] = "started"]
        /\ args' = args \cup {c} /\ UNCHANGED ssl
    BY <1>5 DEF StartWorker, HandsOver
  <2>. QED  BY <1>0, <2>1
<1>6. ASSUME NEW l \in Listener, NEW c \in Client, DropClient(l, c)
      PROVE  Allocated'
  BY <1>2, <1>6 DEF DropClient, HandsOver
<1>7. ASSUME NEW c \in Client, Serve(c) \/ OpenFile(c) \/ CloseFile(c)
      PROVE  Allocated'
  <2>1. /\ conn[c] \in {"started", "serving", "reading"}
        /\ \E s \in {"serving", "reading"} : conn' = [conn EXCEPT ![c] = s]
        /\ UNCHANGED args /\ ssl' \subseteq ssl \cup {c}
    BY <1>7 DEF Serve, OpenFile, CloseFile
  <2>. QED  BY <1>0, <2>1
<1>8. ASSUME NEW c \in Client, EndWorker(c)
      PROVE  Allocated'
  <2>1. /\ conn' = [conn EXCEPT ![c] = "closed"]
        /\ args' = args \ {c} /\ ssl' = ssl \ {c}
    BY <1>8 DEF EndWorker
  <2>. QED  BY <1>0, <2>1
<1>9. CASE \/ CreateContext \/ CheckListeners \/ Join \/ Return \/ UNCHANGED vars
           \/ \E l \in Listener : CreateListener(l) \/ Listen(l)
  BY <1>1, <1>9 DEF CreateContext, CheckListeners, Join, Return, CreateListener, Listen, vars
<1>. QED  BY <1>3, <1>4, <1>5, <1>6, <1>7, <1>8, <1>9 DEF Next

\* A worker is never given a context that is gone, unless a listener could not
\* be created and main is about to exit.
LEMMA MisusedStep ==
  ASSUME ThreadInv, QueueInv, HeldInv, [Next]_vars
  PROVE  MisusedLate'
<1>. USE DEF MisusedLate
<1>1. MisusedLate
  BY DEF HeldInv
<1>2. CASE UNCHANGED <<misused, main, thread>>
  BY <1>1, <1>2 DEF Created
<1>3. ASSUME NEW c \in Client, conn[c] = "started", UNCHANGED <<main, thread>>,
             misused' = (misused \/ ~ContextLives)
      PROVE  MisusedLate'
  <2>1. ASSUME ~ContextLives
        PROVE  main \in {"return", "exited"} /\ Created # Listener
    <3>1. context # "owned"
      BY <2>1 DEF ContextLives
    <3>2. Wants[c] \in Listener /\ thread[Wants[c]] \in {"accept", "handover"}
      BY <1>3, ClientAssumption DEF QueueInv
    <3>3. main # "start"
      BY <3>2 DEF ThreadInv, Listener
    <3>4. main \in {"return", "exited"}
      BY <3>1, <3>3 DEF ThreadInv
    <3>5. Created # Listener
      BY <3>2, <3>4 DEF ThreadInv, ServerStaysUp
    <3>. QED  BY <3>4, <3>5
  <2>. QED  BY <1>1, <1>3, <2>1 DEF Created
<1>4. ASSUME NEW c \in Client, Serve(c) \/ EndWorker(c)
      PROVE  MisusedLate'
  <2>1. /\ UNCHANGED <<main, thread>>
        /\ \/ UNCHANGED misused
           \/ conn[c] = "started" /\ misused' = (misused \/ ~ContextLives)
    <3>1. CASE Serve(c)
      BY <3>1 DEF Serve
    <3>2. CASE EndWorker(c) /\ conn[c] = "started"
      BY <1>1, <3>2 DEF EndWorker
    <3>3. CASE EndWorker(c) /\ conn[c] # "started"
      BY <1>1, <3>3 DEF EndWorker
    <3>. QED  BY <1>4, <3>1, <3>2, <3>3
  <2>. QED  BY <1>2, <1>3, <2>1
<1>5. ASSUME NEW l \in Listener,
             Listen(l) \/ Accept(l) \/ \E c \in Client : StartWorker(l, c) \/ DropClient(l, c)
      PROVE  UNCHANGED <<misused, main>> /\ Created' = Created
  <2>1. /\ UNCHANGED <<misused, main>> /\ thread[l] # "none"
        /\ \/ UNCHANGED thread
           \/ \E s \in {"accept", "handover", "ended"} : thread' = [thread EXCEPT ![l] = s]
    BY <1>5 DEF Listen, Accept, StartWorker, DropClient, HandsOver
  <2>2. thread \in [Listener -> {"none", "setup", "accept", "handover", "ended"}]
    BY DEF ThreadInv
  <2>. QED  BY <2>1, <2>2 DEF Created
<1>6. ASSUME misused,
             \/ CreateContext \/ CheckListeners \/ Join \/ Return
             \/ \E l \in Listener : CreateListener(l)
      PROVE  misused' /\ main' = "exited" /\ UNCHANGED thread
  BY <1>1, <1>6 DEF CreateContext, CheckListeners, Join, Return, CreateListener, MainGoes
<1>7. CASE \/ CreateContext \/ CheckListeners \/ Join \/ Return
           \/ \E l \in Listener : CreateListener(l)
  <2>1. UNCHANGED misused
    BY <1>7 DEF CreateContext, CheckListeners, Join, Return, CreateListener
  <2>. QED  BY <1>1, <1>6, <1>7, <2>1 DEF Created
<1>8. CASE \E l \in Listener :
             Listen(l) \/ Accept(l) \/ \E c \in Client : StartWorker(l, c) \/ DropClient(l, c)
  BY <1>1, <1>5, <1>8
<1>9. CASE UNCHANGED vars \/ \E c \in Client : Connect(c) \/ OpenFile(c) \/ CloseFile(c)
  BY <1>2, <1>9 DEF vars, Connect, OpenFile, CloseFile
<1>. QED  BY <1>4, <1>7, <1>8, <1>9 DEF Next

\* The third layer is inductive, given the two others.
LEMMA HeldStep ==
  ASSUME ThreadInv, QueueInv, HeldInv, [Next]_vars
  PROVE  HeldInv'
<1>1. descriptors' = Holders'
  <2>1. descriptors = Holders
    BY DEF HeldInv, NothingLeaks, Holders, Reading
  <2>. QED  BY <2>1, CountStep
<1>2. Allocated'
  <2>1. Allocated
    BY DEF HeldInv, NothingLeaks, Allocated
  <2>. QED  BY <2>1, AllocatedStep
<1>3. NothingLeaks'
  BY <1>1, <1>2 DEF NothingLeaks, Holders, Reading, Allocated
<1>4. descriptors \in Nat /\ descriptors <= MaxDescriptors
  BY HoldersAreFinite DEF HeldInv, NothingLeaks, Reading
<1>5. \/ descriptors < MaxDescriptors /\ descriptors' = descriptors + 1
      \/ descriptors' = descriptors - 1 \/ UNCHANGED descriptors
  BY DEF Next, vars, CreateContext, CheckListeners, Join, Return, CreateListener, Listen,
     Accept, StartWorker, DropClient, Connect, Serve, OpenFile, CloseFile, EndWorker
<1>6. descriptors' <= MaxDescriptors
  BY <1>4, <1>5, LimitAssumption
<1>. QED  BY <1>3, <1>6, MisusedStep DEF HeldInv

-----------------------------------------------------------------------------
(***************************************************************************)
(* The theorems.                                                           *)
(***************************************************************************)

Inv == ThreadInv /\ QueueInv /\ HeldInv

\* The process starts with nothing open.
LEMMA InitHolds == Init => Inv
<1>. SUFFICES ASSUME Init PROVE Inv
  OBVIOUS
<1>1. ThreadInv
  BY DEF Init, ThreadInv, ServerStaysUp, Created, Listener
<1>2. QueueInv
  <2>1. \A l \in Listener : queue[l] = <<>> /\ DOMAIN queue[l] = {} /\ Len(queue[l]) = 0
    BY EmptySeq DEF Init
  <2>2. queue \in [Listener -> Seq(Client)]
    BY EmptySeq DEF Init
  <2>. QED  BY <2>1, <2>2, LimitAssumption DEF Init, QueueInv
<1>3. HeldInv
  <2>1. Listening = {} /\ WithSocket = {} /\ Reading = {}
    BY DEF Init, Listening, WithSocket, Reading
  <2>2. descriptors = Cardinality(Listening) + Cardinality(WithSocket) + Cardinality(Reading)
    BY <2>1, FS_EmptySet DEF Init
  <2>3. Allocated
    BY DEF Init, Allocated
  <2>4. NothingLeaks
    BY <2>2, <2>3 DEF NothingLeaks, Reading, Allocated
  <2>5. descriptors <= MaxDescriptors
    <3>1. descriptors = 0
      BY DEF Init
    <3>. QED  BY <3>1, LimitAssumption
  <2>6. MisusedLate
    BY DEF Init, MisusedLate
  <2>. QED  BY <2>4, <2>5, <2>6 DEF HeldInv
<1>. QED  BY <1>1, <1>2, <1>3 DEF Inv

\* The inductive invariant holds in every state of the process.
THEOREM InvHolds == Spec => []Inv
<1>1. Inv /\ [Next]_vars => Inv'
  BY ThreadStep, QueueStep, HeldStep DEF Inv
<1>. QED  BY <1>1, InitHolds, PTL DEF Spec

\* http-server.c:960-1007: the variables keep their types, no backlog grows
\* past its limit and the process never has more descriptors than it may.
THEOREM TypeCorrect == Spec => []TypeOK
<1>1. Inv => TypeOK
  <2>. SUFFICES ASSUME Inv PROVE TypeOK
    OBVIOUS
  <2>1. descriptors \in 0..MaxDescriptors
    <3>1. HeldInv
      BY DEF Inv
    <3>2. descriptors \in Nat /\ descriptors <= MaxDescriptors
      BY <3>1, HoldersAreFinite DEF HeldInv, NothingLeaks, Reading
    <3>. QED  BY <3>2, LimitAssumption
  <2>2. args \subseteq Client /\ ssl \subseteq Client /\ misused \in BOOLEAN
    BY DEF Inv, HeldInv, MisusedLate, NothingLeaks
  <2>. QED  BY <2>1, <2>2 DEF Inv, ThreadInv, QueueInv, TypeOK
<1>. QED  BY <1>1, InvHolds, PTL

\* http-server.c:991-1003: main does not return while one of two listeners
\* that were both created still runs, whatever became of the other one.
THEOREM ServerStaysUpHolds == Spec => []ServerStaysUp
<1>1. Inv => ServerStaysUp
  BY DEF Inv, ThreadInv
<1>. QED  BY <1>1, InvHolds, PTL

\* http-server.c:976: no worker is given an SSL_CTX that has been freed, except
\* when main is about to exit because a listener could not be created.
THEOREM ContextIsThereHolds == Spec => []ContextIsThere
<1>1. Inv => ContextIsThere
  BY DEF Inv, HeldInv, MisusedLate, ContextIsThere
<1>. QED  BY <1>1, InvHolds, PTL

\* http-server.c:848-956: every descriptor is that of a listener, of a client
\* that is served or of a file that is read, and nothing of a client that is
\* gone stays allocated, whichever step of taking it on failed.
THEOREM NothingLeaksHolds == Spec => []NothingLeaks
<1>1. Inv => NothingLeaks
  BY DEF Inv, HeldInv
<1>. QED  BY <1>1, InvHolds, PTL
=============================================================================
