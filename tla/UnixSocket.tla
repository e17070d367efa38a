----------------------------- MODULE UnixSocket ------------------------------
(***************************************************************************)
(* socket_example/main.c: `main s TYPE PATH` binds a UNIX domain socket to *)
(* a path, receives one message and ends; `main c MESSAGE TYPE PATH` sends *)
(* the first sizeof(message) bytes of a message, which is the size of a    *)
(* pointer.  A server never unlinks its path: the name stays, bound to a   *)
(* socket that is closed, until the user removes it.                       *)
(***************************************************************************)
EXTENDS Integers, Sequences

CONSTANTS
    Server, Client,   \* the processes, each runs once
    Nobody,           \* no process
    SIZE,             \* sizeof(message)
    QUEUE             \* how many connections or datagrams wait at a socket

UnixAssumption ==
    /\ Server \intersect Client = {} /\ Nobody \notin Server \union Client
    /\ {SIZE, QUEUE} \subseteq Nat \ {0}

VARIABLES
    type,      \* SOCK_TYPE of each process; never changes
    bound,     \* the server whose socket has the path
    upc,       \* where each process is
    dest,      \* the server a client has reached
    sent,      \* how many bytes of its message a client has sent
    wire,      \* how many of them are under way
    queue,     \* the clients at each server's socket
    peer,      \* the client a server has accepted or heard
    buf,       \* how many bytes it has of it
    first      \* history: the client that was the first at each server

vars == <<type, bound, upc, dest, sent, wire, queue, peer, buf, first>>

Process == Server \union Client

Init ==
    /\ type \in [Process -> {"stream", "datagram"}]
    /\ bound = Nobody
    /\ upc = [p \in Process |-> "start"]
    /\ dest = [c \in Client |-> Nobody]
    /\ sent = [c \in Client |-> 0] /\ wire = [c \in Client |-> 0]
    /\ queue = [s \in Server |-> << >>]
    /\ peer = [s \in Server |-> Nobody] /\ buf = [s \in Server |-> 0]
    /\ first = [s \in Server |-> Nobody]

GoTo(p, l) == upc' = [upc EXCEPT ![p] = l]
-----------------------------------------------------------------------------
\* socket and bind; EADDRINUSE when the path is there, in use or not.
Bind(s) ==
    /\ upc[s] = "start"
    /\ IF bound = Nobody
         THEN bound' = s /\ GoTo(s, IF type[s] = "stream" THEN "bound" ELSE "recvfrom")
         ELSE GoTo(s, "failed") /\ UNCHANGED bound
    /\ UNCHANGED <<type, dest, sent, wire, queue, peer, buf, first>>

Listen(s) ==
    /\ upc[s] = "bound"
    /\ GoTo(s, "accept")
    /\ UNCHANGED <<type, bound, dest, sent, wire, queue, peer, buf, first>>

Accept(s) ==
    /\ upc[s] = "accept" /\ queue[s] # << >>
    /\ peer' = [peer EXCEPT ![s] = Head(queue[s])]
    /\ queue' = [queue EXCEPT ![s] = Tail(@)]
    /\ GoTo(s, "recv")
    /\ UNCHANGED <<type, bound, dest, sent, wire, buf, first>>

\* One turn of partial_message_recv.
Recv(s) ==
    /\ upc[s] = "recv"
    /\ \E n \in 1 .. wire[peer[s]] :
        /\ wire' = [wire EXCEPT ![peer[s]] = @ - n]
        /\ buf' = [buf EXCEPT ![s] = @ + n]
    /\ UNCHANGED <<type, bound, upc, dest, sent, queue, peer, first>>

\* Wrong on purpose: one recv is taken for the message, or its end is missed.
BugEndOfData(s) == buf[s] > 0
BugNoEnd(s) == buf[s] > SIZE

\* recv returns 0 when everything is read and the client has closed its end.
EndOfData(s) == wire[peer[s]] = 0 /\ upc[peer[s]] \in {"ok", "failed"}

\* The message is printed, the sockets are closed; who is in the queue is reset.
PrintText(s) ==
    /\ upc[s] = "recv" /\ EndOfData(s)
    /\ GoTo(s, "ok")
    /\ UNCHANGED <<type, bound, dest, sent, wire, queue, peer, buf, first>>

\* recvfrom: one datagram is printed, the others go with the socket.
RecvFrom(s) ==
    /\ upc[s] = "recvfrom" /\ queue[s] # << >>
    /\ peer' = [peer EXCEPT ![s] = Head(queue[s])]
    /\ buf' = [buf EXCEPT ![s] = SIZE]
    /\ GoTo(s, "ok")
    /\ UNCHANGED <<type, bound, dest, sent, wire, queue, first>>
-----------------------------------------------------------------------------
\* Where a message to the path comes to: a socket of the same type that is open
\* and, for a stream, listens; ENOENT, EPROTOTYPE or ECONNREFUSED otherwise.
Takes(s, t) ==
    /\ s # Nobody
    /\ type[s] = t /\ upc[s] \in {"accept", "recv", "recvfrom"}

\* connect, or sendto of the whole message; both wait for room in the queue.
Reach(c) ==
    /\ upc[c] = "start" /\ Takes(bound, type[c])
    /\ Len(queue[bound]) < QUEUE
    /\ queue' = [queue EXCEPT ![bound] = Append(@, c)]
    /\ dest' = [dest EXCEPT ![c] = bound]
    /\ first' = [first EXCEPT ![bound] = IF @ = Nobody THEN c ELSE @]
    /\ IF type[c] = "stream" THEN GoTo(c, "send") /\ UNCHANGED sent
                             ELSE GoTo(c, "ok") /\ sent' = [sent EXCEPT ![c] = SIZE]
    /\ UNCHANGED <<type, bound, wire, peer, buf>>

Refused(c) ==
    /\ upc[c] = "start" /\ ~Takes(bound, type[c])
    /\ GoTo(c, "failed")
    /\ UNCHANGED <<type, bound, dest, sent, wire, queue, peer, buf, first>>

\* One turn of partial_message_send, and after the last one close; SIGPIPE when
\* the server has closed the connection.
Send(c) ==
    /\ upc[c] = "send"
    /\ IF upc[dest[c]] \in {"ok", "failed"}
         THEN GoTo(c, "failed") /\ UNCHANGED <<sent, wire>>
         ELSE \E n \in 1 .. SIZE - sent[c] :
               /\ sent' = [sent EXCEPT ![c] = @ + n]
               /\ wire' = [wire EXCEPT ![c] = @ + n]
               /\ GoTo(c, IF sent'[c] = SIZE THEN "ok" ELSE "send")
    /\ UNCHANGED <<type, bound, dest, queue, peer, buf, first>>

\* The user interrupts a process, or removes the path.
Kill(p) ==
    /\ upc[p] \notin {"start", "ok", "failed"}
    /\ GoTo(p, "failed")
    /\ UNCHANGED <<type, bound, dest, sent, wire, queue, peer, buf, first>>

Remove ==
    /\ bound # Nobody
    /\ bound' = Nobody
    /\ UNCHANGED <<type, upc, dest, sent, wire, queue, peer, buf, first>>

ServerStep(s) == Listen(s) \/ Accept(s) \/ Recv(s) \/ PrintText(s) \/ RecvFrom(s)

Next ==
    \/ \E s \in Server : Bind(s) \/ ServerStep(s)
    \/ \E c \in Client : Reach(c) \/ Refused(c) \/ Send(c)
    \/ (\E p \in Process : Kill(p)) \/ Remove

Spec == Init /\ [][Next]_vars

\* Running processes go on; nobody has to start or interrupt one.
Run(p) == IF p \in Server THEN ServerStep(p) ELSE Send(p)
FairSpec == Spec /\ \A p \in Process : WF_vars(Run(p))
-----------------------------------------------------------------------------
TypeOK ==
    /\ type \in [Process -> {"stream", "datagram"}]
    /\ bound \in Server \union {Nobody}
    /\ upc \in [Process -> {"start", "bound", "accept", "recv", "recvfrom", "send",
                            "ok", "failed"}]
    /\ dest \in [Client -> Server \union {Nobody}]
    /\ sent \in [Client -> 0 .. SIZE] /\ wire \in [Client -> 0 .. SIZE]
    /\ queue \in [Server -> Seq(Client)] /\ \A s \in Server : Len(queue[s]) <= QUEUE
    /\ peer \in [Server -> Client \union {Nobody}]
    /\ buf \in [Server -> 0 .. SIZE]
    /\ first \in [Server -> Client \union {Nobody}]

\* A server that ends by itself has printed the message of the client that was
\* the first to reach it, whole unless that client was interrupted: however many
\* servers came and went at the path, and although a connection counts before
\* it is accepted and bytes arrive in pieces.
FirstIsHeard ==
    \A s \in Server :
        upc[s] = "ok" => /\ peer[s] = first[s]
                         /\ buf[s] = sent[first[s]]
                         /\ upc[first[s]] = "ok" => buf[s] = SIZE

\* A server that a client has reached comes to its end: it never waits for a
\* client that has closed, nor for one in the queue.
ServerEnds ==
    \A s \in Server : first[s] # Nobody ~> upc[s] \in {"ok", "failed"}

\* What the servers have got whole, as Delivery sees it.
Ended == {c \in Client : upc[c] = "ok"}
Printed == [s \in Server |-> IF upc[s] = "ok" /\ buf[s] = SIZE THEN peer[s] ELSE Nobody]
=============================================================================
