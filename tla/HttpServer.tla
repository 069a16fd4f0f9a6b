----------------------------- MODULE HttpServer -----------------------------
(***************************************************************************)
(* The process of "P2 Socket/02-socket/http-server.c": main, its two       *)
(* listener threads and a detached worker for every client, and what they  *)
(* share: the SSL_CTX and the file descriptors of the process.  What a     *)
(* worker does on its connection is the subject of HttpConnection; here it *)
(* opens files and ends.                                                   *)
(***************************************************************************)
EXTENDS Integers, Sequences, FiniteSets

CONSTANTS
  Client,          \* the clients, each of which connects once
  Wants,           \* the port every client connects to
  MaxDescriptors,  \* how many descriptors the process may have open
  LISTEN_BACKLOG   \* how many connections wait in the kernel for an accept

Listener == {"http", "https"}

ASSUME ClientAssumption == IsFiniteSet(Client) /\ Wants \in [Client -> Listener]

ASSUME LimitAssumption == MaxDescriptors \in Nat /\ LISTEN_BACKLOG \in Nat

VARIABLES
  main,         \* where main is
  thread,       \* where each listener thread is
  queue,        \* the connections that wait for an accept, on each port
  conn,         \* how far each client has got
  context,      \* main's reference to the SSL_CTX
  args,         \* the clients whose struct client_args is allocated
  ssl,          \* the clients whose worker has an SSL object
  descriptors,  \* how many descriptors are open
  misused       \* SSL_new was given a context that has been freed

threadVars == <<main, thread, context>>

clientVars == <<queue, conn>>

heldVars == <<args, ssl, descriptors>>

vars == <<threadVars, clientVars, heldVars, misused>>

\* The types of the variables; the descriptors stay within their limit.
TypeOK ==
  /\ main \in {"start", "create_http", "create_https", "check", "return",
               "join_http", "join_https", "exited"}
  /\ thread \in [Listener -> {"none", "setup", "accept", "handover", "ended"}]
  /\ queue \in [Listener -> Seq(Client)]
  /\ \A l \in Listener : Len(queue[l]) <= LISTEN_BACKLOG
  /\ conn \in [Client -> {"new", "queued", "accepted", "started", "serving", "reading",
                          "closed"}]
  /\ context \in {"none", "owned", "released"}
  /\ args \subseteq Client /\ ssl \subseteq Client
  /\ descriptors \in 0..MaxDescriptors
  /\ misused \in BOOLEAN

Init ==
  /\ main = "start"
  /\ thread = [l \in Listener |-> "none"]
  /\ queue = [l \in Listener |-> <<>>]
  /\ conn = [c \in Client |-> "new"]
  /\ context = "none"
  /\ args = {} /\ ssl = {} /\ descriptors = 0
  /\ misused = FALSE

-----------------------------------------------------------------------------
(***************************************************************************)
(* main.  Its return ends the process and every thread in it.              *)
(***************************************************************************)

MainGoes(from, to) == main = from /\ main' = to

CreateContext ==
  /\ \/ MainGoes("start", "create_http") /\ context' = "owned"
     \/ MainGoes("start", "exited") /\ UNCHANGED context
  /\ UNCHANGED <<thread, clientVars, heldVars, misused>>

\* pthread_create succeeds or fails, and main goes on either way.
CreateListener(l) ==
  /\ IF l = "http" THEN MainGoes("create_http", "create_https")
                   ELSE MainGoes("create_https", "check")
  /\ thread' \in {thread, [thread EXCEPT ![l] = "setup"]}
  /\ UNCHANGED <<context, clientVars, heldVars, misused>>

Created == {l \in Listener : thread[l] # "none"}

\* The context is freed when a listener could not be created, though the
\* other one may be running.
CheckListeners ==
  /\ \/ Created = Listener /\ MainGoes("check", "join_http") /\ UNCHANGED context
     \/ Created # Listener /\ MainGoes("check", "return") /\ context' = "released"
  /\ UNCHANGED <<thread, clientVars, heldVars, misused>>

\* Mutant of Join: main does not wait for the second listener.
JoinOne ==
  /\ thread["http"] = "ended" /\ MainGoes("join_http", "return") /\ context' = "released"
  /\ UNCHANGED <<thread, clientVars, heldVars, misused>>

Join ==
  /\ \/ thread["http"] = "ended" /\ MainGoes("join_http", "join_https") /\ UNCHANGED context
     \/ thread["https"] = "ended" /\ MainGoes("join_https", "return") /\ context' = "released"
  /\ UNCHANGED <<thread, clientVars, heldVars, misused>>

Return == MainGoes("return", "exited") /\ UNCHANGED <<thread, context, clientVars, heldVars,
                                                      misused>>

-----------------------------------------------------------------------------
(***************************************************************************)
(* The listener threads.                                                   *)
(***************************************************************************)

Alive == main # "exited"

\* socket, bind and listen; the thread ends, with its socket closed, when one
\* of them fails.
Listen(l) ==
  /\ Alive /\ thread[l] = "setup"
  /\ \/ /\ descriptors < MaxDescriptors
        /\ descriptors' = descriptors + 1
        /\ thread' = [thread EXCEPT ![l] = "accept"]
     \/ thread' = [thread EXCEPT ![l] = "ended"] /\ UNCHANGED descriptors
  /\ UNCHANGED <<main, context, clientVars, args, ssl, misused>>

\* The kernel completes the connection.
Connect(c) ==
  LET l == Wants[c]
  IN  /\ Alive /\ conn[c] = "new"
      /\ thread[l] \in {"accept", "handover"}
      /\ Len(queue[l]) < LISTEN_BACKLOG
      /\ conn' = [conn EXCEPT ![c] = "queued"]
      /\ queue' = [queue EXCEPT ![l] = Append(@, c)]
      /\ UNCHANGED <<threadVars, heldVars, misused>>

\* Mutant of Accept: the loop ends when accept fails.
AcceptOrEnd(l) ==
  /\ Alive /\ thread[l] = "accept"
  /\ queue[l] # <<>>
  /\ IF descriptors < MaxDescriptors
     THEN /\ descriptors' = descriptors + 1
          /\ thread' = [thread EXCEPT ![l] = "handover"]
          /\ conn' = [conn EXCEPT ![Head(queue[l])] = "accepted"]
          /\ queue' = [queue EXCEPT ![l] = Tail(@)]
     ELSE thread' = [thread EXCEPT ![l] = "ended"] /\ UNCHANGED <<descriptors, conn, queue>>
  /\ UNCHANGED <<main, context, args, ssl, misused>>

\* accept needs a descriptor.  Without one it fails, and the loop calls it
\* again at once.
Accept(l) ==
  /\ Alive /\ thread[l] = "accept"
  /\ queue[l] # <<>>
  /\ descriptors < MaxDescriptors
  /\ descriptors' = descriptors + 1
  /\ thread' = [thread EXCEPT ![l] = "handover"]
  /\ conn' = [conn EXCEPT ![Head(queue[l])] = "accepted"]
  /\ queue' = [queue EXCEPT ![l] = Tail(@)]
  /\ UNCHANGED <<main, context, args, ssl, misused>>

\* The listener has accepted c.
HandsOver(l, c) ==
  /\ Alive /\ thread[l] = "handover" /\ conn[c] = "accepted" /\ Wants[c] = l
  /\ thread' = [thread EXCEPT ![l] = "accept"]

\* The arguments are allocated and the worker is created.
StartWorker(l, c) ==
  /\ HandsOver(l, c)
  /\ conn' = [conn EXCEPT ![c] = "started"]
  /\ args' = args \cup {c}
  /\ UNCHANGED <<main, context, queue, ssl, descriptors, misused>>

\* Mutant of DropClient: the socket stays open.
DropClientOpen(l, c) ==
  /\ HandsOver(l, c)
  /\ conn' = [conn EXCEPT ![c] = "closed"]
  /\ UNCHANGED <<main, context, queue, heldVars, misused>>

\* There is no memory, or no thread: what there is of the client goes.
DropClient(l, c) ==
  /\ HandsOver(l, c)
  /\ conn' = [conn EXCEPT ![c] = "closed"]
  /\ descriptors' = descriptors - 1
  /\ UNCHANGED <<main, context, queue, args, ssl, misused>>

-----------------------------------------------------------------------------
(***************************************************************************)
(* The workers.                                                            *)
(***************************************************************************)

\* The memory of the context: every SSL object holds a reference as well.
ContextLives == context = "owned" \/ ssl # {}

\* A worker of port 443 makes its SSL object.
Serve(c) ==
  /\ Alive /\ conn[c] = "started"
  /\ conn' = [conn EXCEPT ![c] = "serving"]
  /\ IF Wants[c] = "https"
     THEN ssl' = ssl \cup {c} /\ misused' = (misused \/ ~ContextLives)
     ELSE UNCHANGED <<ssl, misused>>
  /\ UNCHANGED <<threadVars, queue, args, descriptors>>

\* send_file_response opens a file that is there.  Without a descriptor open
\* fails, which is answered with 404 like a file that is not there.
OpenFile(c) ==
  /\ Alive /\ conn[c] = "serving" /\ Wants[c] = "https"
  /\ descriptors < MaxDescriptors
  /\ conn' = [conn EXCEPT ![c] = "reading"]
  /\ descriptors' = descriptors + 1
  /\ UNCHANGED <<threadVars, queue, args, ssl, misused>>

CloseFile(c) ==
  /\ Alive /\ conn[c] = "reading"
  /\ conn' = [conn EXCEPT ![c] = "serving"]
  /\ descriptors' = descriptors - 1
  /\ UNCHANGED <<threadVars, queue, args, ssl, misused>>

\* The end of client_worker, and its early returns (SSL_new, SSL_accept).
EndWorker(c) ==
  /\ Alive /\ conn[c] \in {"started", "serving"}
  /\ conn[c] = "started" => Wants[c] = "https"
  /\ conn' = [conn EXCEPT ![c] = "closed"]
  /\ descriptors' = descriptors - 1
  /\ args' = args \ {c}
  /\ ssl' = ssl \ {c}
  /\ misused' = (misused \/ (conn[c] = "started" /\ ~ContextLives))
  /\ UNCHANGED <<threadVars, queue>>

Next ==
  \/ CreateContext \/ CheckListeners \/ Join \/ Return
  \/ \E l \in Listener : CreateListener(l) \/ Listen(l) \/ Accept(l)
  \/ \E l \in Listener, c \in Client : StartWorker(l, c) \/ DropClient(l, c)
  \/ \E c \in Client : Connect(c) \/ Serve(c) \/ OpenFile(c) \/ CloseFile(c) \/ EndWorker(c)

Spec == Init /\ [][Next]_vars

(***************************************************************************)
(* The threads run.  A listener gets a descriptor when there is one again  *)
(* and again, and a client goes in the end (HttpConnection shows what that *)
(* takes), also when it asks for one file after the other.                 *)
(***************************************************************************)
Fairness ==
  /\ \A l \in Listener :
       /\ SF_vars(Accept(l))
       /\ WF_vars(\E c \in Client : StartWorker(l, c) \/ DropClient(l, c))
  /\ \A c \in Client : /\ WF_vars(Serve(c)) /\ WF_vars(CloseFile(c))
                       /\ SF_vars(EndWorker(c))

FairSpec == Spec /\ Fairness

-----------------------------------------------------------------------------
(***************************************************************************)
(* Properties.                                                             *)
(***************************************************************************)

Listening == {l \in Listener : thread[l] \in {"accept", "handover"}}

WithSocket == {c \in Client : conn[c] \in {"accepted", "started", "serving", "reading"}}

\* Every open descriptor is that of a listener, of a client that is served or
\* of a file that is read; nothing of a client that is gone stays allocated,
\* whichever step of accept, malloc, pthread_create and SSL_new failed.
NothingLeaks ==
  /\ descriptors = Cardinality(Listening) + Cardinality(WithSocket)
                   + Cardinality({c \in Client : conn[c] = "reading"})
  /\ args = {c \in Client : conn[c] \in {"started", "serving", "reading"}}
  /\ ssl \subseteq args

\* A port that listens goes on listening: main does not return while one of
\* the two listeners, both created, still runs (it joins both, whatever
\* happens to the other one).
ServerStaysUp ==
  main \in {"return", "exited"} /\ Created = Listener
    => \A l \in Listener : thread[l] = "ended"

\* A client that is in the queue of a port is accepted (or dropped) in the
\* end, also after all the descriptors were in use; the process may exit.
QueuedClientIsTaken ==
  \A c \in Client : conn[c] = "queued" ~> (conn[c] # "queued" \/ ~Alive)

\* http-server.c:976, "两个监听线程共享只读 SSL_CTX": the context is there for
\* as long as a listener hands it to workers.  (Only when one listener could
\* not be created does main free it while the other one may be running; the
\* process exits next.)
ContextIsThere == misused => Created # Listener
=============================================================================
