------------------------------ MODULE EchoTcp -------------------------------
(***************************************************************************)
(* just_study/8.echo_service_tcp: the iterative echo server and its        *)
(* clients.  The client sends a line and reads until as many bytes have    *)
(* come back; the server serves one connection until its end and lets the  *)
(* others wait in the listen queue.  A byte is a triple <<client, line     *)
(* number, position>>, so that a lost, repeated, stale or foreign byte     *)
(* shows.  Reads and writes move any part of what they may.                *)
(***************************************************************************)
EXTENDS Integers, Sequences

CONSTANTS
    Client,
    NoClient,     \* c_socket of a server that serves nobody
    LineLen,      \* the lengths of the lines users type
    MaxLines,     \* bound: lines per client
    SndBuf,       \* bytes a connection holds from client to server
    RcvBuf,       \* bytes it holds from server to client
    SrvBuf        \* sizeof(rcvBuffer) of the server

\* A line fits between the client's write and its first read.
ASSUME EchoAssumption ==
    /\ NoClient \notin Client
    /\ MaxLines \in Nat /\ {SndBuf, RcvBuf, SrvBuf} \subseteq Nat \ {0}
    /\ LineLen \subseteq 1 .. (SndBuf + RcvBuf)

VARIABLES
    cpc,      \* where each client is
    lines,    \* bound: how many lines it has sent
    line,     \* the line it is busy with
    rest,     \* the bytes of the line it has yet to write
    got,      \* rcvBuffer up to n_recv
    c2s, s2c, \* the bytes under way in each direction
    peer,     \* what the client's end has told the server: "open", "fin", "rst",
              \* or "lost": its reset is known, the next write raises SIGPIPE
    srv,      \* what the server's end has told the client: "open", "fin", "rst"
    spc,      \* where the server is
    queue,    \* connections waiting for accept
    cur,      \* the client being served
    sbuf      \* what the server has read and not yet written back

client == <<cpc, lines, line, rest, got>>
wire == <<c2s, s2c, peer, srv>>
server == <<spc, queue, cur, sbuf>>
vars == <<client, wire, server>>

Each(v) == [c \in Client |-> v]

Init ==
    /\ cpc = Each("start") /\ lines = Each(0)
    /\ line = Each(<< >>) /\ rest = Each(<< >>) /\ got = Each(<< >>)
    /\ c2s = Each(<< >>) /\ s2c = Each(<< >>)
    /\ peer = Each("open") /\ srv = Each("open")
    /\ spc = "accept" /\ queue = << >> /\ cur = NoClient /\ sbuf = << >>

First(q, k) == SubSeq(q, 1, k)
After(q, k) == SubSeq(q, k + 1, Len(q))
Lower(a, b) == IF a < b THEN a ELSE b
-----------------------------------------------------------------------------
GoTo(c, l) == cpc' = [cpc EXCEPT ![c] = l]

\* connect succeeds as soon as the connection is queued; a dead server refuses.
Connect(c) ==
    /\ cpc[c] = "start"
    /\ IF spc = "dead" THEN GoTo(c, "gone") /\ UNCHANGED queue
                       ELSE GoTo(c, "prompt") /\ queue' = Append(queue, c)
    /\ UNCHANGED <<lines, line, rest, got, wire, spc, cur, sbuf>>

\* The user types a line.
Type(c) ==
    /\ cpc[c] = "prompt" /\ lines[c] < MaxLines
    /\ GoTo(c, "write")
    /\ lines' = [lines EXCEPT ![c] = @ + 1]
    /\ \E n \in LineLen :
          LET new == [k \in 1 .. n |-> <<c, lines[c] + 1, k>>] IN
          line' = [line EXCEPT ![c] = new] /\ rest' = [rest EXCEPT ![c] = new]
    /\ got' = [got EXCEPT ![c] = << >>]
    /\ UNCHANGED <<wire, server>>

\* Part of the blocking write; after the last part the client starts to read.
Write(c) ==
    /\ cpc[c] = "write" /\ srv[c] = "open"
    /\ \E k \in 1 .. Lower(Len(rest[c]), SndBuf - Len(c2s[c])) :
        /\ c2s' = [c2s EXCEPT ![c] = @ \o First(rest[c], k)]
        /\ rest' = [rest EXCEPT ![c] = After(@, k)]
        /\ IF k = Len(rest[c]) THEN GoTo(c, "read") ELSE UNCHANGED cpc
    /\ UNCHANGED <<lines, line, got, s2c, peer, srv, server>>

BugNLeft(c) == Len(line[c]) - Len(got[c]) + 1   \* wrong on purpose: with the NUL
NLeft(c) == Len(line[c]) - Len(got[c])

\* Wrong on purpose: one read per line, without the n_left loop.
BugRead(c) ==
    /\ cpc[c] = "read"
    /\ \E k \in 1 .. Lower(NLeft(c), Len(s2c[c])) :
        /\ got' = [got EXCEPT ![c] = @ \o First(s2c[c], k)]
        /\ s2c' = [s2c EXCEPT ![c] = After(@, k)]
    /\ GoTo(c, "prompt")
    /\ UNCHANGED <<lines, line, rest, c2s, peer, srv, server>>

\* One turn of while(n_left): at most n_left bytes are asked for.
Read(c) ==
    /\ cpc[c] = "read"
    /\ \E k \in 1 .. Lower(NLeft(c), Len(s2c[c])) :
        /\ got' = [got EXCEPT ![c] = @ \o First(s2c[c], k)]
        /\ s2c' = [s2c EXCEPT ![c] = After(@, k)]
        /\ IF k = NLeft(c) THEN GoTo(c, "prompt") ELSE UNCHANGED cpc
    /\ UNCHANGED <<lines, line, rest, c2s, peer, srv, server>>

\* The server has gone.  A write that has moved nothing fails after a reset and
\* the client ends; a write after an orderly end is accepted, at least in part,
\* and lost; n_left becomes the number of bytes accepted.
WriteEnd(c) ==
    /\ cpc[c] = "write" /\ srv[c] # "open"
    /\ \/ /\ srv[c] = "rst" /\ rest[c] = line[c]
          /\ GoTo(c, "gone") /\ UNCHANGED <<line, rest>>
       \/ \E n \in 1 .. Len(line[c]) :
          /\ n >= Len(line[c]) - Len(rest[c])
          /\ srv[c] = "rst" => n = Len(line[c]) - Len(rest[c])
          /\ line' = [line EXCEPT ![c] = First(@, n)]
          /\ rest' = [rest EXCEPT ![c] = << >>]
          /\ GoTo(c, "read")
    /\ UNCHANGED <<lines, got, wire, server>>

\* A read after a reset fails and the client ends.  A read after an orderly end
\* returns 0, which the loop takes for progress: it reads 0 bytes for ever.
ReadEnd(c) ==
    /\ cpc[c] = "read" /\ s2c[c] = << >> /\ srv[c] # "open"
    /\ GoTo(c, IF srv[c] = "rst" THEN "gone" ELSE "spin")
    /\ UNCHANGED <<lines, line, rest, got, wire, server>>

\* The client's end is closed: by "quit" at the prompt, by an interrupt
\* anywhere.  Bytes it has not read turn the end into a reset, which drops what
\* it has not yet sent.
Close(c) ==
    /\ IF s2c[c] = << >>
         THEN /\ peer' = [peer EXCEPT ![c] = "fin"]
              /\ UNCHANGED c2s
         ELSE /\ peer' = [peer EXCEPT ![c] = "rst"]
              /\ \E k \in 0 .. Len(c2s[c]) : c2s' = [c2s EXCEPT ![c] = First(@, k)]
    /\ s2c' = [s2c EXCEPT ![c] = << >>]
    /\ GoTo(c, "gone")
    /\ UNCHANGED <<lines, line, rest, got, srv, server>>

Quit(c) == cpc[c] = "prompt" /\ Close(c)
Kill(c) == cpc[c] \in {"write", "read", "spin"} /\ Close(c)
-----------------------------------------------------------------------------
Accept ==
    /\ spc = "accept" /\ queue # << >>
    /\ cur' = Head(queue) /\ queue' = Tail(queue)
    /\ spc' = "read"
    /\ UNCHANGED <<client, wire, sbuf>>

SRead ==
    /\ spc = "read"
    /\ \E k \in 1 .. Lower(SrvBuf, Len(c2s[cur])) :
        /\ sbuf' = First(c2s[cur], k)
        /\ c2s' = [c2s EXCEPT ![cur] = After(@, k)]
    /\ spc' = "write"
    /\ UNCHANGED <<client, s2c, peer, srv, queue, cur>>

\* Part of the blocking write to a client that is there.
SWrite ==
    /\ spc = "write" /\ peer[cur] = "open"
    /\ \E k \in 1 .. Lower(Len(sbuf), RcvBuf - Len(s2c[cur])) :
        /\ s2c' = [s2c EXCEPT ![cur] = @ \o First(sbuf, k)]
        /\ sbuf' = After(sbuf, k)
        /\ spc' = IF k = Len(sbuf) THEN "read" ELSE "write"
    /\ UNCHANGED <<client, c2s, peer, srv, queue, cur>>

\* A write to a client that has gone.  After an orderly end it is accepted and
\* answered by a reset; after a reset it fails, or ends early with the reset
\* still to be reported.  The result of write is not looked at.
SWriteLost ==
    /\ spc = "write" /\ peer[cur] \in {"fin", "rst"}
    /\ \E e \in {"lost"} \union ({peer[cur]} \ {"fin"}) : peer' = [peer EXCEPT ![cur] = e]
    /\ sbuf' = << >> /\ spc' = "read"
    /\ UNCHANGED <<client, c2s, s2c, srv, queue, cur>>

\* read reports the reset with -1, which is != 0: write(c_socket, rcvBuffer, -1)
\* follows, fails (EFAULT) and the loop goes on.
SReadError ==
    /\ spc = "read" /\ c2s[cur] = << >> /\ peer[cur] = "rst"
    /\ peer' = [peer EXCEPT ![cur] = "lost"]
    /\ UNCHANGED <<client, c2s, s2c, srv, server>>

\* read returns 0: the connection is closed and the next one accepted.
SEnd ==
    /\ spc = "read" /\ c2s[cur] = << >> /\ peer[cur] \in {"fin", "lost"}
    /\ srv' = [srv EXCEPT ![cur] = "fin"]
    /\ cur' = NoClient /\ spc' = "accept"
    /\ UNCHANGED <<client, c2s, s2c, peer, queue, sbuf>>

\* What the clients see when the server's process ends: a reset for those in
\* the queue and for the one whose bytes were not all read.
SDie ==
    LET served == IF cur = NoClient THEN {} ELSE {cur}
        reset == {c \in Client : \/ \E j \in 1 .. Len(queue) : queue[j] = c
                                 \/ c \in served /\ c2s[c] # << >>}
    IN  /\ spc' = "dead"
        /\ srv' = [c \in Client |-> IF c \in reset THEN "rst"
                                    ELSE IF c \in served THEN "fin" ELSE srv[c]]
        /\ IF served \intersect reset = {} THEN UNCHANGED s2c
             ELSE \E k \in 0 .. Len(s2c[cur]) : s2c' = [s2c EXCEPT ![cur] = First(@, k)]
        /\ cur' = NoClient /\ sbuf' = << >> /\ queue' = << >>
        /\ UNCHANGED <<client, c2s, peer>>

\* SIGPIPE: a write after the reset is known.
SPipe == spc = "write" /\ peer[cur] = "lost" /\ SDie

SKill == spc # "dead" /\ SDie

ClientStep(c) == Write(c) \/ WriteEnd(c) \/ Read(c) \/ ReadEnd(c)
ServerStep == Accept \/ SRead \/ SWrite \/ SWriteLost \/ SReadError \/ SEnd \/ SPipe

Next ==
    \/ \E c \in Client : Connect(c) \/ Type(c) \/ ClientStep(c) \/ Quit(c) \/ Kill(c)
    \/ ServerStep \/ SKill

Spec == Init /\ [][Next]_vars

\* Processes that can run do; users need not type, quit or interrupt.
FairSpec == Spec /\ WF_vars(ServerStep) /\ \A c \in Client : WF_vars(ClientStep(c))
-----------------------------------------------------------------------------
Busy(c) == cpc[c] \in {"write", "read"}

Byte == Client \X Nat \X Nat

TypeOK ==
    /\ cpc \in [Client -> {"start", "prompt", "write", "read", "spin", "gone"}]
    /\ lines \in [Client -> Nat] /\ line \in [Client -> Seq(Byte)]
    /\ rest \in [Client -> Seq(Byte)] /\ got \in [Client -> Seq(Byte)]
    /\ c2s \in [Client -> Seq(Byte)] /\ s2c \in [Client -> Seq(Byte)]
    /\ \A c \in Client : Len(c2s[c]) <= SndBuf /\ Len(s2c[c]) <= RcvBuf
    /\ peer \in [Client -> {"open", "fin", "rst", "lost"}]
    /\ srv \in [Client -> {"open", "fin", "rst"}]
    /\ spc \in {"accept", "read", "write", "dead"}
    /\ queue \in Seq(Client) /\ cur \in Client \union {NoClient}
    /\ (cur = NoClient) <=> spc \in {"accept", "dead"}
    /\ sbuf \in Seq(Byte)
    /\ (sbuf # << >>) <=> spc = "write"

\* The echo is the line: at every moment what the client has got, what is on
\* its way back, in the server, on its way there and unsent make up the line it
\* typed, each byte once and in order.  At the prompt this says that the client
\* has got its whole line and nothing of it is left behind for the next one.
PipelineIntact ==
    \A c \in Client :
        cpc[c] \in {"prompt", "write", "read"} /\ srv[c] = "open" =>
            got[c] \o s2c[c] \o (IF cur = c THEN sbuf ELSE << >>) \o c2s[c] \o rest[c]
                = line[c]

\* A client that is served gets its echo, unless it is interrupted or the server
\* ends: client and server never wait for each other, each with a full buffer.
ServedClientGoesOn ==
    \A c \in Client :
        (Busy(c) /\ cur = c) ~> (cpc[c] \in {"prompt", "gone"} \/ spc = "dead")
=============================================================================
