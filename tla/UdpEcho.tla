------------------------------ MODULE UdpEcho -------------------------------
(***************************************************************************)
(* just_study/9.echo_service_udp: a server that sends each datagram back   *)
(* to where it came from, and clients that send a line and wait for one    *)
(* datagram, with USE_ALARM 0 and CHECK_ASTNC_ERROR 1 as committed.  Both  *)
(* sides have one buffer that they never clear and use at its full size or *)
(* up to its first NUL.  A byte is a pair <<client, number of the line>>;  *)
(* it keeps its place wherever it is copied to.                            *)
(***************************************************************************)
EXTENDS Integers, Sequences

CONSTANTS
    Client,
    Nobody,       \* whose the bytes are that no client has typed
    BUFSIZ,
    MaxLine,      \* bound: the longest line that read(0) gets
    MaxAsks,      \* bound: the lines of each client
    MaxRuns,      \* bound: starts of the server
    MaxFaults     \* bound: datagrams lost or doubled

\* read(0) takes no more than the buffer holds.
ASSUME UdpAssumption ==
    /\ Nobody \notin Client
    /\ BUFSIZ \in Nat /\ BUFSIZ > 1
    /\ MaxLine \in Nat /\ MaxLine <= BUFSIZ
    /\ MaxAsks \in [Client -> Nat] /\ {MaxRuns, MaxFaults} \subseteq Nat

NUL == <<Nobody, 0>>
Junk == <<Nobody, 1>>
Cell == 1 .. BUFSIZ
Byte == (UNION {{c} \X (1 .. MaxAsks[c]) : c \in Client}) \union {NUL, Junk}

VARIABLES
    faulty,     \* whether datagrams may be lost or doubled; never changes
    faults,     \* how many have been
    cpc,        \* where each client is
    buf,        \* its sndBuff
    asked,      \* how many lines it has sent
    err,        \* whether its socket has an ECONNREFUSED to report
    answers,    \* its socket's queue: whole buffers of the server
    spc,        \* where the server is, "down" when there is none
    sbuf, cur,  \* its buf, zeroes when there is none; the request it is busy with
    requests,   \* its socket's queue
    runs,       \* how often it has been started
    sent,       \* history: sndBuff of each client as each line was sent
    heard,      \* history: what it printed last, and in answer to which line
    dropped     \* history: the clients for whom a datagram was lost

client == <<cpc, buf, asked, err, answers, sent, heard>>
server == <<spc, sbuf, cur, requests, runs>>
net == <<faults, dropped>>
vars == <<faulty, client, server, net>>

Each(v) == [c \in Client |-> v]

\* A buffer on the stack before its first use holds anything.
Fresh == [Cell -> {Junk, NUL}]
Zeroes == [p \in Cell |-> NUL]
Idle == [from |-> Nobody, ask |-> 0]

Init ==
    /\ faulty \in BOOLEAN /\ faults = 0 /\ dropped = {}
    /\ cpc = Each("prompt") /\ buf \in [Client -> Fresh] /\ asked = Each(0)
    /\ err = Each(FALSE) /\ answers = Each(<< >>)
    /\ spc = "down" /\ sbuf = Zeroes /\ cur = Idle /\ requests = << >> /\ runs = 0
    /\ sent = Each(<< >>) /\ heard = Each([ask |-> 0, data |-> << >>])

\* strlen.  In a buffer without NUL it runs on: more than BUFSIZ bytes are sent, and
\* asked for.  The server takes and returns BUFSIZ of them, so it comes to those.
StrLen(b) == CHOOSE n \in 0 .. BUFSIZ :
                /\ \A p \in 1 .. n : b[p] # NUL
                /\ n < BUFSIZ => b[n + 1] = NUL

\* Wrong on purpose: ends the text with a NUL.
BugOver(a, n, b) ==
    [p \in Cell \union {n + 1} |-> IF p <= n THEN a[p] ELSE IF p = n + 1 THEN NUL ELSE b[p]]

\* The memory b after the first n bytes of a have been stored at its start.
Over(a, n, b) == [p \in Cell |-> IF p <= n THEN a[p] ELSE b[p]]

String(b) == SubSeq(b, 1, StrLen(b))

GoTo(c, l) == cpc' = [cpc EXCEPT ![c] = l]
-----------------------------------------------------------------------------
\* How many copies of a datagram arrive: one, unless a fault makes it none or two.
Copies == IF faulty /\ faults < MaxFaults THEN 0 .. 2 ELSE {1}
Times(n, d) == [i \in 1 .. n |-> d]

\* n copies of a datagram from or to c have arrived.
Arrive(n, c) ==
    /\ faults' = IF n = 1 THEN faults ELSE faults + 1
    /\ dropped' = IF n = 0 THEN dropped \union {c} ELSE dropped

\* read(0): n bytes, 0 at the end of the input; no NUL is added, what follows
\* them in sndBuff is sent as well.
Typed(c) ==
    /\ cpc[c] = "prompt" /\ asked[c] < MaxAsks[c]
    /\ asked' = [asked EXCEPT ![c] = @ + 1]
    /\ \E n \in 0 .. MaxLine :
          buf' = [buf EXCEPT ![c] = Over([p \in Cell |-> <<c, asked'[c]>>], n, @)]
    /\ sent' = [sent EXCEPT ![c] = Append(@, buf'[c])]
    /\ UNCHANGED <<faulty, answers, heard, spc, sbuf, cur, runs>>

Request(c, n) ==
    /\ requests' = requests \o Times(n, [from |-> c, ask |-> asked'[c], data |-> buf'[c]])
    /\ Arrive(n, c)

\* Wrong on purpose: the socket is not connected and hears of no error.
BugWrite(c) ==
    /\ GoTo(c, "read")
    /\ IF spc = "down" THEN UNCHANGED <<requests, net>> ELSE \E n \in Copies : Request(c, n)
    /\ UNCHANGED err

\* write: a pending error is reported; without a server the datagram is
\* refused, which the next call reports.
Write(c) ==
    /\ GoTo(c, IF err[c] THEN "gone" ELSE "read")
    /\ err' = [err EXCEPT ![c] = ~@ /\ spc = "down"]
    /\ IF err[c] \/ spc = "down" THEN UNCHANGED <<requests, net>>
                                 ELSE \E n \in Copies : Request(c, n)

Ask(c) == Typed(c) /\ Write(c)

BugWanted(c) == BUFSIZ           \* wrong on purpose: reads the whole answer
Wanted(c) == StrLen(buf[c])

\* read of as many bytes as were sent; asked for 0 bytes it leaves error and
\* answers where they are.
ReadNothing(c) ==
    /\ cpc[c] = "read" /\ Wanted(c) = 0
    /\ GoTo(c, "prompt")
    /\ heard' = [heard EXCEPT ![c] = [ask |-> asked[c], data |-> << >>]]
    /\ UNCHANGED <<faulty, buf, asked, err, answers, sent, server, net>>

ReadError(c) ==
    /\ cpc[c] = "read" /\ Wanted(c) > 0 /\ err[c]
    /\ GoTo(c, "gone")
    /\ UNCHANGED <<faulty, buf, asked, err, answers, sent, heard, server, net>>

ReadAnswer(c) ==
    LET a == Head(answers[c]) IN
    /\ cpc[c] = "read" /\ Wanted(c) > 0 /\ ~err[c] /\ answers[c] # << >>
    /\ GoTo(c, "prompt")
    /\ buf' = [buf EXCEPT ![c] = Over(a.data, Wanted(c), @)]
    /\ heard' = [heard EXCEPT ![c] = [ask |-> a.ask, data |-> SubSeq(a.data, 1, Wanted(c))]]
    /\ answers' = [answers EXCEPT ![c] = Tail(@)]
    /\ UNCHANGED <<faulty, asked, err, sent, server, net>>

\* The user interrupts a client that waits; its port goes, and what is there.
\* (At its prompt it may as well stay there.)
Kill(c) ==
    /\ cpc[c] = "read"
    /\ GoTo(c, "gone") /\ answers' = [answers EXCEPT ![c] = << >>]
    /\ UNCHANGED <<faulty, buf, asked, err, sent, heard, server, net>>
-----------------------------------------------------------------------------
SStart ==
    /\ spc = "down" /\ runs < MaxRuns
    /\ spc' = "recv" /\ runs' = runs + 1 /\ sbuf' \in Fresh
    /\ UNCHANGED <<faulty, cur, requests, client, net>>

BugReceived(d) == Over(sbuf, StrLen(sbuf), d)   \* wrong on purpose: keeps the old start

\* recvfrom: the text of the datagram covers the start of what buf holds.
Received(d) == Over(d, StrLen(d), sbuf)

SRecv ==
    /\ spc = "recv" /\ requests # << >>
    /\ LET r == Head(requests) IN
        /\ sbuf' = Received(r.data)
        /\ cur' = [from |-> r.from, ask |-> r.ask]
    /\ requests' = Tail(requests)
    /\ spc' = "send"
    /\ UNCHANGED <<faulty, runs, client, net>>

\* sendto of the whole buf, although n_recv is known.  A client that has gone
\* is not noticed.
SSend ==
    /\ spc = "send"
    /\ spc' = "recv" /\ cur' = Idle
    /\ IF cpc[cur.from] = "gone" THEN UNCHANGED <<answers, net>>
       ELSE \E n \in Copies :
              /\ answers' = [answers EXCEPT ![cur.from] =
                                @ \o Times(n, [ask |-> cur.ask, data |-> sbuf])]
              /\ Arrive(n, cur.from)
    /\ UNCHANGED <<faulty, cpc, buf, asked, err, sent, heard, sbuf, requests, runs>>

\* The server is interrupted; the requests it has not answered are lost.
SKill ==
    /\ spc # "down"
    /\ spc' = "down" /\ sbuf' = Zeroes /\ cur' = Idle /\ requests' = << >>
    /\ dropped' = dropped \union {r.from : r \in {requests[i] : i \in 1 .. Len(requests)}}
                  \union ({cur.from} \ {Nobody})
    /\ UNCHANGED <<faulty, faults, runs, client>>

ClientStep(c) == ReadNothing(c) \/ ReadError(c) \/ ReadAnswer(c)
ServerStep == SRecv \/ SSend

Next ==
    \/ \E c \in Client : Ask(c) \/ ClientStep(c) \/ Kill(c)
    \/ SStart \/ ServerStep \/ SKill

Spec == Init /\ [][Next]_vars

\* Running processes go on; nobody has to type, start or interrupt.
FairSpec == Spec /\ WF_vars(ServerStep) /\ \A c \in Client : WF_vars(ClientStep(c))
-----------------------------------------------------------------------------
Buffer == [Cell -> Byte]

\* In particular, no copy goes beyond the end of a buffer.
TypeOK ==
    /\ faulty \in BOOLEAN /\ faults \in 0 .. (IF faulty THEN MaxFaults ELSE 0)
    /\ cpc \in [Client -> {"prompt", "read", "gone"}]
    /\ asked \in [Client -> Nat] /\ \A c \in Client : asked[c] <= MaxAsks[c]
    /\ buf \in [Client -> Buffer] /\ sbuf \in Buffer
    /\ err \in [Client -> BOOLEAN]
    /\ answers \in [Client -> Seq([ask : Nat, data : Buffer])]
    /\ spc \in {"down", "recv", "send"} /\ runs \in 0 .. MaxRuns
    /\ cur \in [from : Client, ask : Nat] \union {Idle}
    /\ (cur = Idle) <=> (spc # "send")
    /\ requests \in Seq([from : Client, ask : Nat, data : Buffer])
    /\ sent \in [Client -> Seq(Buffer)] /\ heard \in [Client -> [ask : Nat, data : Seq(Byte)]]
    /\ dropped \subseteq Client

\* Without faults, whoever uses the server besides and however often it is
\* started anew, what a client prints is what it has just sent, as long as it
\* has never sent an empty datagram (read then asks for 0 bytes, the answer
\* stays in the queue, and from there on every answer is that of a line before).
EchoIsOwn ==
    \A c \in Client :
        /\ ~faulty /\ cpc[c] = "prompt" /\ asked[c] > 0
        /\ \A k \in 1 .. asked[c] : StrLen(sent[c][k]) > 0
        => heard[c] = [ask |-> asked[c], data |-> String(sent[c][asked[c]])]

\* Whatever is lost, doubled or late: what a client prints begins with a line
\* that it has sent itself.  Bytes of others can only follow behind the end of
\* that line, where the server sends what its buffer held before.
AnswersAreOwn ==
    \A c \in Client :
        LET h == heard[c] IN
        /\ h.ask <= asked[c]
        /\ h.ask > 0 => \A p \in 1 .. Len(h.data) :
                            p <= StrLen(sent[c][h.ask]) => h.data[p] = sent[c][h.ask][p]

\* A client waits for ever only if a datagram of its own was lost: one that finds
\* no server hears of it.
Answered == \A c \in Client : cpc[c] = "read" ~> (cpc[c] # "read" \/ c \in dropped)
=============================================================================
