------------------------------ MODULE ForkEcho ------------------------------
(***************************************************************************)
(* just_study/12.fork_echo_service: an echo server that forks a process    *)
(* for every connection.  A process is described by where it is, what its  *)
(* variable c_socket refers to, whether its copy of s_socket is open, and  *)
(* the connections it has a descriptor of.  The bytes that are echoed are  *)
(* left out: a process in do_echo reads until its client closes.           *)
(***************************************************************************)
EXTENDS Naturals, Sequences, FiniteSets

CONSTANTS
    Client,
    NoConn,      \* c_socket after a failed accept: -1
    Process,     \* the process table: fork fails when it is full
    Root         \* the process that was started by the user

ForkAssumption == Root \in Process /\ NoConn \notin Client

VARIABLES
    pc,          \* where each process is
    c_socket,    \* the connection its c_socket refers to, or NoConn
    listening,   \* the processes whose s_socket is open
    fds,         \* the connections each process has a descriptor of
    queue,       \* connections waiting for accept
    cpc          \* where each client is: "start", "connected", "closed"

vars == <<pc, c_socket, listening, fds, queue, cpc>>

Init ==
    /\ pc = [p \in Process |-> IF p = Root THEN "accept" ELSE "free"]
    /\ c_socket = [p \in Process |-> NoConn]
    /\ listening = {Root}
    /\ fds = [p \in Process |-> {}]
    /\ queue = << >>
    /\ cpc = [c \in Client |-> "start"]

GoTo(p, l) == pc' = [pc EXCEPT ![p] = l]

\* p closes s_socket; the close of the last copy resets the queue.
StopListening(p) ==
    /\ listening' = listening \ {p}
    /\ queue' = IF listening \subseteq {p} THEN << >> ELSE queue
-----------------------------------------------------------------------------
\* connect succeeds while some process keeps the listening socket open.
Connect(c) ==
    /\ cpc[c] = "start" /\ listening # {}
    /\ cpc' = [cpc EXCEPT ![c] = "connected"]
    /\ queue' = Append(queue, c)
    /\ UNCHANGED <<pc, c_socket, listening, fds>>

Close(c) ==
    /\ cpc[c] = "connected"
    /\ cpc' = [cpc EXCEPT ![c] = "closed"]
    /\ UNCHANGED <<pc, c_socket, listening, fds, queue>>
-----------------------------------------------------------------------------
Accept(p) ==
    /\ pc[p] = "accept" /\ p \in listening
    /\ queue # << >>
    /\ c_socket' = [c_socket EXCEPT ![p] = Head(queue)]
    /\ fds' = [fds EXCEPT ![p] = @ \union {Head(queue)}]
    /\ queue' = Tail(queue)
    /\ GoTo(p, "fork")
    /\ UNCHANGED <<listening, cpc>>

\* accept on the s_socket that the child has closed: -1, which is not checked.
AcceptFails(p) ==
    /\ pc[p] = "accept" /\ p \notin listening
    /\ c_socket' = [c_socket EXCEPT ![p] = NoConn]
    /\ GoTo(p, "fork")
    /\ UNCHANGED <<listening, fds, queue, cpc>>

\* The child is a copy of its parent, with a descriptor of all it has open.
Fork(p) ==
    /\ pc[p] = "fork"
    /\ \E q \in Process :
        /\ pc[q] = "free"
        /\ pc' = [pc EXCEPT ![p] = "parent", ![q] = "child"]
        /\ c_socket' = [c_socket EXCEPT ![q] = c_socket[p]]
        /\ fds' = [fds EXCEPT ![q] = fds[p]]
        /\ listening' = IF p \in listening THEN listening \union {q} ELSE listening
    /\ UNCHANGED <<queue, cpc>>

\* With no process left fork returns -1 and the caller leaves main.
ForkFails(p) ==
    /\ pc[p] = "fork" /\ \A q \in Process : pc[q] # "free"
    /\ GoTo(p, "ended")
    /\ StopListening(p)
    /\ fds' = [fds EXCEPT ![p] = {}]
    /\ c_socket' = [c_socket EXCEPT ![p] = NoConn]
    /\ UNCHANGED cpc

\* Wrong on purpose: a parent that echoes too, one that keeps the connection,
\* one that waits for its children.
BugParentEchoes(p) ==
    /\ pc[p] = "parent"
    /\ GoTo(p, "do_echo")
    /\ UNCHANGED <<c_socket, listening, fds, queue, cpc>>
BugParentKeeps(p) ==
    /\ pc[p] = "parent"
    /\ GoTo(p, "accept")
    /\ UNCHANGED <<c_socket, listening, fds, queue, cpc>>
BugParentWaits(p) ==
    /\ pc[p] = "parent" /\ \A q \in Process : pc[q] # "do_echo"
    /\ fds' = [fds EXCEPT ![p] = @ \ {c_socket[p]}]
    /\ GoTo(p, "accept")
    /\ UNCHANGED <<c_socket, listening, queue, cpc>>

\* The parent closes its copy of the connection (of -1: nothing) and goes on.
Parent(p) ==
    /\ pc[p] = "parent"
    /\ fds' = [fds EXCEPT ![p] = @ \ {c_socket[p]}]
    /\ GoTo(p, "accept")
    /\ UNCHANGED <<c_socket, listening, queue, cpc>>

\* The child closes its copy of the listening socket and enters do_echo.
Child(p) ==
    /\ pc[p] = "child"
    /\ StopListening(p)
    /\ GoTo(p, "do_echo")
    /\ UNCHANGED <<c_socket, fds, cpc>>

\* read returns 0 after the client has closed: do_echo returns, and the child
\* runs on into the next turn of main's loop, its connection still open.
\* read(-1) returns -1, which is not 0: a process without a connection stays
\* in do_echo, busy, for ever.
Return(p) ==
    /\ pc[p] = "do_echo" /\ c_socket[p] # NoConn
    /\ cpc[c_socket[p]] = "closed"
    /\ GoTo(p, "accept")
    /\ UNCHANGED <<c_socket, listening, fds, queue, cpc>>

\* Two writes to a client that has closed raise SIGPIPE in the second.
Sigpipe(p) ==
    /\ pc[p] = "do_echo" /\ c_socket[p] # NoConn
    /\ cpc[c_socket[p]] = "closed"
    /\ GoTo(p, "ended")
    /\ fds' = [fds EXCEPT ![p] = {}]
    /\ c_socket' = [c_socket EXCEPT ![p] = NoConn]
    /\ UNCHANGED <<listening, queue, cpc>>

ProcessStep(p) == Accept(p) \/ AcceptFails(p) \/ Fork(p) \/ ForkFails(p)
                    \/ Parent(p) \/ Child(p) \/ Return(p) \/ Sigpipe(p)

Next == (\E p \in Process : ProcessStep(p)) \/ \E c \in Client : Connect(c) \/ Close(c)

Spec == Init /\ [][Next]_vars

\* The scheduler runs every process that can run.
FairSpec == Spec /\ \A p \in Process : WF_vars(ProcessStep(p))
-----------------------------------------------------------------------------
TypeOK ==
    /\ pc \in [Process -> {"free", "accept", "fork", "parent", "child", "do_echo", "ended"}]
    /\ c_socket \in [Process -> Client \union {NoConn}]
    /\ listening \subseteq Process
    /\ fds \in [Process -> SUBSET Client]
    /\ queue \in Seq(Client)
    /\ cpc \in [Client -> {"start", "connected", "closed"}]

\* One process echoes a connection: two would split the client's bytes.
OneEchoer ==
    \A p, q \in Process :
        pc[p] = "do_echo" /\ pc[q] = "do_echo" /\ c_socket[p] # NoConn
            => c_socket[p] # c_socket[q] \/ p = q

\* The root holds no connection while it waits for the next one, and only it
\* takes connections: so each child is the only one with a descriptor of a
\* living client's connection, and a child's end would be the client's end.
ChildOwnsConnection ==
    \A c \in Client : cpc[c] = "connected" =>
        \A p, q \in Process :
            pc[p] = "do_echo" /\ c_socket[p] = c /\ c \in fds[q] => q = p \/ pc[q] = "parent"

\* A connection does not wait for the clients before it: whatever they do, it
\* is accepted, or lost with the server when no process can be forked.
QueueMoves ==
    \A c \in Client :
        LET waiting == \E j \in 1 .. Len(queue) : queue[j] = c
        IN  waiting ~> ~waiting

\* README.md:47 "TCP echo system using fork()": a process in do_echo is there
\* to echo for a client.
EchoersHaveClients == \A p \in Process : pc[p] = "do_echo" => c_socket[p] # NoConn
=============================================================================
