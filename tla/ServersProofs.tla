--------------------------- MODULE ServersProofs ----------------------------
(***************************************************************************)
(* Proofs about Servers: EchoTcp, HelloWorld and ForkEcho, for any clients,*)
(* lines, words, buffers and any number of processes.                      *)
(***************************************************************************)
EXTENDS Servers, SequenceTheorems, TLAPS

\* --- The forking echo server.
Serving == {"child", "do_echo"}

\* The root holds the connection it has accepted until it has forked; it is the
\* only one that listens, but for a child that has not yet closed its copy.
RootInv ==
    /\ pc[Root] \in {"accept", "fork", "parent", "ended"}
    /\ pc[Root] # "ended" => Root \in listening
    /\ pc[Root] \in {"accept", "ended"} => fds[Root] = {}
    /\ pc[Root] \in {"fork", "parent"} =>
           c_socket[Root] \in Client /\ fds[Root] = {c_socket[Root]}
    /\ pc[Root] = "fork" =>
           \A q \in Process \ {Root} : pc[q] \in Serving => c_socket[q] # c_socket[Root]

\* Another process has a descriptor of the connection it serves, and of some that
\* its ancestors served to the end; when it leaves do_echo it has none to serve.
OthersInv ==
    \A p \in Process \ {Root} :
        /\ p \in listening => pc[p] = "child"
        /\ pc[p] \in {"free", "ended"} => fds[p] = {} /\ c_socket[p] = NoClient
        /\ pc[p] \in {"fork", "parent"} => c_socket[p] = NoClient
        /\ pc[p] = "accept" /\ c_socket[p] # NoClient => fcpc[c_socket[p]] = "closed"
        /\ \A c \in fds[p] : c = c_socket[p] \/ fcpc[c] = "closed"

OneServes ==
    \A p, q \in Process \ {Root} :
        pc[p] \in Serving /\ pc[q] \in Serving /\ c_socket[p] # NoClient
            => c_socket[p] # c_socket[q] \/ p = q

\* A connection that waits is new to every process.
WaitingInv ==
    /\ \A j, k \in 1 .. Len(fqueue) : fqueue[j] = fqueue[k] => j = k
    /\ \A j \in 1 .. Len(fqueue) :
           fcpc[fqueue[j]] # "start" /\ \A p \in Process : c_socket[p] # fqueue[j]
    /\ \A p \in Process : c_socket[p] # NoClient => fcpc[c_socket[p]] # "start"

ForkInv == FE!TypeOK /\ RootInv /\ OthersInv /\ OneServes /\ WaitingInv

\* --- The echo server.
Waits(c) == \E j \in 1 .. Len(queue) : queue[j] = c

\* Nothing is under way of a client that has not connected, and nobody serves it.
NewClient(c) ==
    cpc[c] = "start" =>
        /\ c # cur /\ ~Waits(c)
        /\ line[c] = << >> /\ rest[c] = << >> /\ got[c] = << >>
        /\ c2s[c] = << >> /\ s2c[c] = << >>

\* Who has closed its end has gone; a client writes until nothing of the line is
\* left, and reads until all has come.
Progress(c) ==
    /\ peer[c] # "open" => cpc[c] = "gone"
    /\ cpc[c] \in {"prompt", "read"} /\ srv[c] = "open" => rest[c] = << >>
    /\ cpc[c] = "prompt" /\ srv[c] = "open" => Len(got[c]) = Len(line[c])

Held(c) == IF cur = c THEN sbuf ELSE << >>

\* PipelineIntact, for one client.
Intact(c) ==
    cpc[c] \in {"prompt", "write", "read"} /\ srv[c] = "open" =>
        got[c] \o s2c[c] \o Held(c) \o c2s[c] \o rest[c] = line[c]

ClientInv(c) == NewClient(c) /\ Progress(c) /\ Intact(c)

EchoInv == TypeOK /\ \A c \in Client : ClientInv(c)

\* --- The hello world server.
Sent(c) == HW!Bytes(style[c], word[c])

\* How many bytes of its request are out of c's connection.
Taken(c) == Len(Sent(c)) - Len(sentBytes[c])

\* What is left in the connection is the end of what was sent.
WireOK(c) ==
    IF word[c] = << >>
    THEN sentBytes[c] = << >>
    ELSE /\ Taken(c) >= 0
         /\ \A j \in 1 .. Len(sentBytes[c]) : sentBytes[c][j] = Sent(c)[Taken(c) + j]

\* What has been read of a client's request is at the front of the buffer.
ReadOK(c) ==
    IF word[c] = << >>
    THEN temp = 1
    ELSE style[c] = "client" =>
            /\ temp = Taken(c) + 1 /\ Taken(c) <= Len(word[c])
            /\ \A j \in 1 .. temp - 1 : rBuffer[j] = word[c][j]

AnswerOK(c) ==
    style[c] = "client" /\ word[c] # << >> =>
        /\ \A j \in 1 .. Len(word[c]) : rBuffer[j] = word[c][j]
        /\ rBuffer[Len(word[c]) + 1] = "NUL"

\* AskedIsAnswered, for one client.
Answered(c) ==
    style[c] = "client" /\ word[c] # << >> /\ reply[c] # "none" =>
        ((reply[c] = "hello") <=> (word[c] = HW!Request))

HelloClient(c) ==
    /\ hcpc[c] \in {"start", "prompt"} => word[c] = << >> /\ reply[c] = "none"
    /\ style[c] = "client" => Len(word[c]) < BUFSIZ
    /\ WireOK(c)
    /\ c # hcur /\ reply[c] = "none" /\ word[c] # << >> => Taken(c) = 0
    /\ c = hcur /\ hspc = "read" => ReadOK(c)
    /\ c = hcur /\ hspc = "answer" => AnswerOK(c)
    /\ Answered(c)

\* Nobody waits twice, waits while it is served, or has an answer before.
HelloQueue ==
    /\ \A j, k \in 1 .. Len(hqueue) : hqueue[j] = hqueue[k] => j = k
    /\ \A j \in 1 .. Len(hqueue) : /\ hqueue[j] # hcur /\ reply[hqueue[j]] = "none"
                                   /\ hcpc[hqueue[j]] # "start"
    /\ hcur # NoClient => reply[hcur] = "none" /\ hcpc[hcur] # "start"
    /\ hspc = "answer" => hcpc[hcur] # "prompt"

HelloInv == HW!TypeOK /\ HelloQueue /\ \A c \in Client : HelloClient(c)
-----------------------------------------------------------------------------
\* --- Proofs about the forking echo server.
LEMMA ServersFacts ==
  /\ Root \in Process /\ NoClient \notin Client
  /\ HW!HelloAssumption /\ EchoAssumption
  BY ServersAssumption, EchoAssumption DEF FE!ForkAssumption

\* No step takes a variable out of its type.
LEMMA ForkTypeStep == FE!TypeOK /\ [FE!Next]_FE!vars => FE!TypeOK'
<1> SUFFICES ASSUME FE!TypeOK, [FE!Next]_FE!vars PROVE FE!TypeOK'
  OBVIOUS
<1> USE DEF FE!TypeOK, FE!GoTo, FE!StopListening
<1>1. CASE UNCHANGED FE!vars
  BY <1>1 DEF FE!vars
<1>2. ASSUME NEW c \in Client, FE!Connect(c) PROVE FE!TypeOK'
  <2>1. fqueue' \in Seq(Client)
    BY <1>2, AppendProperties DEF FE!Connect
  <2> QED
    BY <1>2, <2>1 DEF FE!Connect
<1>3. ASSUME NEW c \in Client, FE!Close(c) PROVE FE!TypeOK'
  BY <1>3 DEF FE!Close
<1>4. ASSUME NEW p \in Process, FE!Accept(p) PROVE FE!TypeOK'
  <2>1. Head(fqueue) \in Client /\ Tail(fqueue) \in Seq(Client)
    BY <1>4, HeadTailProperties DEF FE!Accept
  <2> QED
    BY <1>4, <2>1 DEF FE!Accept
<1>5. ASSUME NEW p \in Process, FE!Fork(p) PROVE FE!TypeOK'
  <2>1. listening' \subseteq Process /\ UNCHANGED <<fqueue, fcpc>>
    BY <1>5 DEF FE!Fork
  <2>2. PICK q \in Process : /\ pc' = [pc EXCEPT ![p] = "parent", ![q] = "child"]
                             /\ c_socket' = [c_socket EXCEPT ![q] = c_socket[p]]
                             /\ fds' = [fds EXCEPT ![q] = fds[p]]
    BY <1>5 DEF FE!Fork
  <2> QED
    BY <2>1, <2>2
<1>6. ASSUME NEW p \in Process, FE!Child(p) \/ FE!ForkFails(p) PROVE FE!TypeOK'
  <2>1. << >> \in Seq(Client)
    OBVIOUS
  <2>2. listening' \subseteq Process /\ fqueue' \in Seq(Client)
    BY <1>6, <2>1 DEF FE!Child, FE!ForkFails
  <2> QED
    BY <1>6, <2>2 DEF FE!Child, FE!ForkFails
<1>7. ASSUME NEW p \in Process, FE!AcceptFails(p) \/ FE!Parent(p) \/ FE!Return(p) \/ FE!Sigpipe(p)
      PROVE  FE!TypeOK'
  BY <1>7 DEF FE!AcceptFails, FE!Parent, FE!Return, FE!Sigpipe
<1> QED
  BY <1>1, <1>2, <1>3, <1>4, <1>5, <1>6, <1>7 DEF FE!Next, FE!ProcessStep

ForkCore == RootInv /\ OthersInv /\ OneServes /\ WaitingInv

\* A client comes or goes.
LEMMA ForkClientStep ==
  ASSUME ForkInv, NEW c \in Client, FE!Connect(c) \/ FE!Close(c)
  PROVE  ForkCore'
<1> USE ServersFacts DEF ForkInv, FE!TypeOK
<1>1. /\ UNCHANGED <<pc, c_socket, listening, fds>>
      /\ \A d \in Client : fcpc[d] = "closed" => fcpc'[d] = "closed"
      /\ \A d \in Client : fcpc[d] # "start" => fcpc'[d] # "start"
  BY DEF FE!Connect, FE!Close
<1>2. RootInv' /\ OneServes'
  BY <1>1 DEF RootInv, OneServes, Serving
<1>3. OthersInv'
  BY <1>1 DEF OthersInv
<1>4. WaitingInv'
  <2>1. CASE FE!Connect(c)
    <3>1. /\ Len(fqueue') = Len(fqueue) + 1 /\ fqueue'[Len(fqueue) + 1] = c
          /\ \A j \in 1 .. Len(fqueue) : fqueue'[j] = fqueue[j] /\ fqueue[j] \in Client
          /\ Len(fqueue) \in Nat
      BY <2>1, AppendProperties, ElementOfSeq, LenProperties DEF FE!Connect
    <3>2. /\ \A j \in 1 .. Len(fqueue) : fqueue[j] # c
          /\ \A p \in Process : c_socket[p] # c
          /\ fcpc'[c] # "start"
      BY <2>1 DEF FE!Connect, WaitingInv
    <3>3. \A j \in 1 .. Len(fqueue') :
             \/ j \in 1 .. Len(fqueue) /\ fqueue'[j] = fqueue[j]
             \/ j = Len(fqueue) + 1 /\ fqueue'[j] = c
      BY <3>1
    <3>4. \A j, k \in 1 .. Len(fqueue') : fqueue'[j] = fqueue'[k] => j = k
      BY <3>2, <3>3 DEF WaitingInv
    <3>5. \A j \in 1 .. Len(fqueue') :
             fcpc'[fqueue'[j]] # "start" /\ \A p \in Process : c_socket'[p] # fqueue'[j]
      BY <1>1, <3>1, <3>2, <3>3 DEF WaitingInv
    <3>6. \A p \in Process : c_socket'[p] # NoClient => fcpc'[c_socket'[p]] # "start"
      BY <1>1 DEF WaitingInv
    <3> QED
      BY <3>4, <3>5, <3>6 DEF WaitingInv
  <2>2. CASE FE!Close(c)
    <3>1. fqueue' = fqueue /\ \A j \in 1 .. Len(fqueue) : fqueue[j] \in Client
      BY <2>2, ElementOfSeq DEF FE!Close
    <3> QED
      BY <1>1, <3>1 DEF WaitingInv
  <2> QED
    BY <2>1, <2>2
<1> QED
  BY <1>2, <1>3, <1>4 DEF ForkCore

\* The root takes a connection that is new to all.
LEMMA AcceptStep == ASSUME ForkInv, NEW p \in Process, FE!Accept(p) PROVE ForkCore'
<1> USE ServersFacts DEF ForkInv, FE!TypeOK
<1>1. p = Root
  BY DEF FE!Accept, OthersInv
<1>2. PICK c \in Client : c = Head(fqueue)
  BY HeadTailProperties DEF FE!Accept
<1>3. /\ pc' = [pc EXCEPT ![Root] = "fork"] /\ c_socket' = [c_socket EXCEPT ![Root] = c]
      /\ fds' = [fds EXCEPT ![Root] = fds[Root] \union {c}]
      /\ UNCHANGED <<listening, fcpc>> /\ pc[Root] = "accept"
  BY <1>1, <1>2 DEF FE!Accept, FE!GoTo
<1>4. /\ c = fqueue[1] /\ Len(fqueue) \in Nat /\ Len(fqueue) >= 1
      /\ Len(fqueue') = Len(fqueue) - 1
      /\ \A j \in 1 .. Len(fqueue) - 1 : fqueue'[j] = fqueue[j + 1]
  BY <1>2, HeadTailProperties, LenProperties, EmptySeq DEF FE!Accept
<1>5. fcpc[c] # "start" /\ \A q \in Process : c_socket[q] # c
  BY <1>4 DEF WaitingInv
<1>6. RootInv'
  BY <1>3, <1>5 DEF RootInv, Serving
<1>7. OthersInv'
  BY <1>3 DEF OthersInv
<1>8. OneServes'
  BY <1>3 DEF OneServes, Serving
<1>9. WaitingInv'
  <2>0. \A j \in 1 .. Len(fqueue') : /\ j + 1 \in 1 .. Len(fqueue) /\ j + 1 # 1
                                      /\ fqueue'[j] = fqueue[j + 1]
    BY <1>4
  <2>1. ASSUME NEW j \in 1 .. Len(fqueue'), NEW k \in 1 .. Len(fqueue'), fqueue'[j] = fqueue'[k]
        PROVE  j = k
    <3>1. j + 1 = k + 1
      BY <2>0, <2>1 DEF WaitingInv
    <3> QED
      BY <3>1
  <2>2. \A j \in 1 .. Len(fqueue') : fqueue'[j] # c
    BY <1>4, <2>0 DEF WaitingInv
  <2>3. \A j \in 1 .. Len(fqueue') :
           fcpc'[fqueue'[j]] # "start" /\ \A q \in Process : c_socket'[q] # fqueue'[j]
    BY <1>3, <2>0, <2>2 DEF WaitingInv
  <2>4. \A q \in Process : c_socket'[q] # NoClient => fcpc'[c_socket'[q]] # "start"
    BY <1>3, <1>5 DEF WaitingInv
  <2> QED
    BY <2>1, <2>3, <2>4 DEF WaitingInv
<1> QED
  BY <1>6, <1>7, <1>8, <1>9 DEF ForkCore

\* The child of the root gets the connection of the root; the child of another one
\* gets nothing to serve.
LEMMA ForkingStep == ASSUME ForkInv, NEW p \in Process, FE!Fork(p) PROVE ForkCore'
<1> USE ServersFacts DEF ForkInv, FE!TypeOK
<1>1. PICK q \in Process :
        /\ pc[p] = "fork" /\ pc[q] = "free"
        /\ pc' = [pc EXCEPT ![p] = "parent", ![q] = "child"]
        /\ c_socket' = [c_socket EXCEPT ![q] = c_socket[p]]
        /\ fds' = [fds EXCEPT ![q] = fds[p]]
        /\ listening' = IF p \in listening THEN listening \union {q} ELSE listening
        /\ UNCHANGED <<fqueue, fcpc>>
  BY DEF FE!Fork
<1>2. q # p /\ q # Root
  BY <1>1 DEF RootInv
<1>3. RootInv'
  <2>1. CASE p = Root
    BY <1>1, <1>2, <2>1 DEF RootInv
  <2>2. CASE p # Root
    <3>1. c_socket[p] = NoClient
      BY <1>1, <2>2 DEF OthersInv
    <3>2. /\ pc'[Root] = pc[Root] /\ fds'[Root] = fds[Root] /\ c_socket'[Root] = c_socket[Root]
          /\ Root \in listening => Root \in listening'
      BY <1>1, <1>2, <2>2
    <3> QED
      BY <1>1, <1>2, <2>2, <3>1, <3>2 DEF RootInv, Serving
  <2> QED
    BY <2>1, <2>2
<1>4. OthersInv'
  <2>1. \A c \in fds[p] : c = c_socket[p] \/ fcpc[c] = "closed"
    BY <1>1 DEF RootInv, OthersInv
  <2>2. pc'[q] = "child" /\ fds'[q] = fds[p] /\ c_socket'[q] = c_socket[p]
    BY <1>1, <1>2
  <2>3. p # Root => pc'[p] = "parent" /\ c_socket'[p] = NoClient /\ fds'[p] = fds[p]
                    /\ p \notin listening
    BY <1>1, <1>2 DEF OthersInv
  <2>4. \A r \in Process : r \notin {p, q} =>
           pc'[r] = pc[r] /\ c_socket'[r] = c_socket[r] /\ fds'[r] = fds[r]
    BY <1>1
  <2>5. \A r \in Process \ {q} : r \in listening' => r \in listening
    BY <1>1
  <2> QED
    BY <1>1, <2>1, <2>2, <2>3, <2>4, <2>5 DEF OthersInv
<1>5. OneServes'
  <2>1. CASE p = Root
    BY <1>1, <1>2, <2>1 DEF RootInv, OneServes, Serving
  <2>2. CASE p # Root
    <3>1. c_socket[p] = NoClient
      BY <1>1, <2>2 DEF OthersInv
    <3> QED
      BY <1>1, <1>2, <3>1 DEF OneServes, Serving
  <2> QED
    BY <2>1, <2>2
<1>6. WaitingInv'
  BY <1>1 DEF WaitingInv
<1> QED
  BY <1>3, <1>4, <1>5, <1>6 DEF ForkCore

\* A process leaves its place, keeps or drops what it has, and takes nothing new.
LEMMA ForkOtherSteps ==
  ASSUME ForkInv, NEW p \in Process,
         FE!AcceptFails(p) \/ FE!ForkFails(p) \/ FE!Parent(p) \/ FE!Child(p)
           \/ FE!Return(p) \/ FE!Sigpipe(p)
  PROVE  ForkCore'
<1> USE ServersFacts DEF ForkInv, FE!TypeOK
<1>1. /\ \A q \in Process \ {p} :
            pc'[q] = pc[q] /\ c_socket'[q] = c_socket[q] /\ fds'[q] = fds[q]
                           /\ (q \in listening' <=> q \in listening)
      /\ c_socket'[p] \in {c_socket[p], NoClient}
      /\ p \in listening' => p \in listening
      /\ fcpc' = fcpc /\ (fqueue' = fqueue \/ fqueue' = << >>)
  BY DEF FE!AcceptFails, FE!ForkFails, FE!Parent, FE!Child, FE!Return, FE!Sigpipe, FE!GoTo,
         FE!StopListening
<1>2. WaitingInv'
  <2>1. CASE fqueue' = fqueue
    BY <1>1, <2>1 DEF WaitingInv
  <2>2. CASE fqueue' = << >>
    <3>1. Len(fqueue') = 0
      BY <2>2
    <3> QED
      BY <1>1, <3>1 DEF WaitingInv
  <2> QED
    BY <1>1, <2>1, <2>2
<1>3. CASE p = Root
  <2>1. FE!ForkFails(p) \/ FE!Parent(p)
    BY <1>3 DEF FE!AcceptFails, FE!Child, FE!Return, FE!Sigpipe, RootInv
  <2>2. CASE FE!ForkFails(p)
    <3>1. pc'[Root] = "ended" /\ fds'[Root] = {}
      BY <1>3, <2>2 DEF FE!ForkFails, FE!GoTo
    <3> QED
      BY <1>1, <1>2, <1>3, <3>1 DEF ForkCore, RootInv, OthersInv, OneServes
  <2>3. CASE FE!Parent(p)
    <3>1. pc'[Root] = "accept" /\ fds'[Root] = {} /\ Root \in listening'
      BY <1>3, <2>3 DEF FE!Parent, FE!GoTo, RootInv
    <3> QED
      BY <1>1, <1>2, <1>3, <3>1 DEF ForkCore, RootInv, OthersInv, OneServes
  <2> QED
    BY <2>1, <2>2, <2>3
<1>4. CASE p # Root
  <2>1. pc'[p] \in Serving => pc[p] \in Serving /\ c_socket'[p] = c_socket[p]
    BY DEF FE!AcceptFails, FE!ForkFails, FE!Parent, FE!Child, FE!Return, FE!Sigpipe, FE!GoTo,
           Serving
  <2>2. RootInv'
    BY <1>1, <1>4, <2>1 DEF RootInv
  <2>3. OneServes'
    BY <1>1, <1>4, <2>1 DEF OneServes
  <2>4. /\ p \in listening' => pc'[p] = "child"
        /\ pc'[p] \in {"free", "ended"} => fds'[p] = {} /\ c_socket'[p] = NoClient
        /\ pc'[p] \in {"fork", "parent"} => c_socket'[p] = NoClient
        /\ pc'[p] = "accept" /\ c_socket'[p] # NoClient => fcpc'[c_socket'[p]] = "closed"
    BY <1>4 DEF FE!AcceptFails, FE!ForkFails, FE!Parent, FE!Child, FE!Return, FE!Sigpipe, FE!GoTo,
           FE!StopListening, OthersInv
  <2>5. \A c \in fds'[p] : c = c_socket'[p] \/ fcpc'[c] = "closed"
    <3>1. CASE FE!AcceptFails(p)
      BY <1>4, <3>1 DEF FE!AcceptFails, FE!GoTo, OthersInv
    <3>2. CASE ~FE!AcceptFails(p)
      BY <1>4, <3>2 DEF FE!ForkFails, FE!Parent, FE!Child, FE!Return, FE!Sigpipe, FE!GoTo,
           FE!StopListening, OthersInv
    <3> QED
      BY <3>1, <3>2
  <2> QED
    BY <1>1, <1>2, <1>4, <2>2, <2>3, <2>4, <2>5 DEF ForkCore, OthersInv
<1> QED
  BY <1>3, <1>4

LEMMA ForkStep == ForkInv /\ [FE!Next]_FE!vars => ForkInv'
<1> SUFFICES ASSUME ForkInv, [FE!Next]_FE!vars PROVE ForkCore'
  BY ForkTypeStep DEF ForkInv, ForkCore
<1>1. CASE UNCHANGED FE!vars
  BY <1>1 DEF FE!vars, ForkInv, ForkCore, RootInv, OthersInv, OneServes, WaitingInv
<1> QED
  BY <1>1, ForkClientStep, AcceptStep, ForkingStep, ForkOtherSteps DEF FE!Next, FE!ProcessStep

LEMMA ForkInit == FE!Init => ForkInv
<1> SUFFICES ASSUME FE!Init PROVE ForkInv
  OBVIOUS
<1>1. fqueue \in Seq(Client) /\ Len(fqueue) = 0
  BY DEF FE!Init
<1> QED
  BY <1>1, ServersFacts
  DEF FE!Init, ForkInv, FE!TypeOK, RootInv, OthersInv, OneServes, WaitingInv, Serving

\* The root never echoes, so that two that echo one connection are one.
LEMMA ForkMeans == ForkInv => FE!OneEchoer /\ FE!ChildOwnsConnection
<1> SUFFICES ASSUME ForkInv PROVE FE!OneEchoer /\ FE!ChildOwnsConnection
  OBVIOUS
<1> USE ServersFacts DEF ForkInv, FE!TypeOK
<1>1. pc[Root] # "do_echo"
  BY DEF RootInv
<1>2. FE!OneEchoer
  BY <1>1 DEF FE!OneEchoer, OneServes, Serving
<1>3. ASSUME NEW c \in Client, fcpc[c] = "connected", NEW p \in Process, NEW q \in Process,
             pc[p] = "do_echo", c_socket[p] = c, c \in fds[q]
      PROVE  q = p \/ pc[q] = "parent"
  <2>1. CASE q = Root
    BY <1>1, <1>3, <2>1 DEF RootInv, Serving
  <2>2. CASE q # Root
    <3>1. c_socket[q] = c /\ pc[q] \in Serving
      BY <1>3, <2>2 DEF OthersInv, Serving
    <3> QED
      BY <1>1, <1>3, <2>2, <3>1 DEF OneServes, Serving
  <2> QED
    BY <2>1, <2>2
<1> QED
  BY <1>2, <1>3 DEF FE!ChildOwnsConnection
-----------------------------------------------------------------------------
\* --- Proofs about the echo server.
\* The first k elements of a sequence and the ones after them make up the sequence.
LEMMA Split ==
  ASSUME NEW S, NEW q \in Seq(S), NEW k \in 0 .. Len(q)
  PROVE  /\ First(q, k) \in Seq(S) /\ Len(First(q, k)) = k
         /\ After(q, k) \in Seq(S) /\ Len(After(q, k)) = Len(q) - k
         /\ First(q, k) \o After(q, k) = q
<1>1. Len(q) \in Nat /\ k \in Nat /\ \A j \in 1 .. Len(q) : q[j] \in S
  BY ElementOfSeq, LenProperties
<1>2. First(q, k) \in Seq(S) /\ Len(First(q, k)) = k
  <2>1. \A j \in 1 .. k : q[j] \in S
    BY <1>1
  <2>2. /\ SubSeq(q, 1, k) \in Seq(S)
        /\ Len(SubSeq(q, 1, k)) = IF 1 <= k THEN k - 1 + 1 ELSE 0
    BY <1>1, <2>1, SubSeqProperties
  <2> QED
    BY <1>1, <2>2 DEF First
<1>3. After(q, k) \in Seq(S) /\ Len(After(q, k)) = Len(q) - k
  <2>1. /\ SubSeq(q, k + 1, Len(q)) \in Seq(S)
        /\ Len(SubSeq(q, k + 1, Len(q))) = IF k + 1 <= Len(q) THEN Len(q) - (k + 1) + 1 ELSE 0
    BY <1>1, SubSeqProperties
  <2> QED
    BY <1>1, <2>1 DEF After
<1>4. First(q, k) \o After(q, k) = q
  <2>1. 1 \in 1 .. Len(q) + 1 /\ k \in 1 - 1 .. Len(q) /\ Len(q) \in k .. Len(q)
    BY <1>1
  <2>2. SubSeq(q, 1, k) \o SubSeq(q, k + 1, Len(q)) = SubSeq(q, 1, Len(q))
    BY <2>1, ConcatAdjacentSubSeq
  <2>3. SubSeq(q, 1, Len(q)) = q
    BY SubSeqFull
  <2> QED
    BY <2>2, <2>3 DEF First, After
<1> QED
  BY <1>2, <1>3, <1>4

\* What moves from the front of q to the end of d leaves their concatenation alone.
LEMMA Joins ==
  ASSUME NEW S, NEW d \in Seq(S), NEW q \in Seq(S), NEW k \in 0 .. Len(q)
  PROVE  (d \o First(q, k)) \o After(q, k) = d \o q
<1>1. PICK f \in Seq(S), a \in Seq(S) : First(q, k) = f /\ After(q, k) = a /\ f \o a = q
  BY Split
<1>2. (d \o f) \o a = d \o (f \o a)
  BY ConcatAssociative
<1> QED
  BY <1>1, <1>2

\* It makes d longer by k.
LEMMA Lengthens ==
  ASSUME NEW S, NEW d \in Seq(S), NEW q \in Seq(S), NEW k \in 0 .. Len(q)
  PROVE  d \o First(q, k) \in Seq(S) /\ Len(d \o First(q, k)) = Len(d) + k
<1>1. PICK f \in Seq(S) : First(q, k) = f /\ Len(f) = k
  BY Split
<1> QED
  BY <1>1, ConcatProperties

LEMMA LowerBounds ==
  ASSUME NEW a \in Int, NEW b \in Int, NEW k \in 1 .. Lower(a, b)
  PROVE  k \in Nat /\ 1 <= k /\ k <= a /\ k <= b
  BY DEF Lower

LEMMA EchoFacts ==
  /\ NoClient \notin Client /\ {SndBuf, RcvBuf, SrvBuf} \subseteq Nat \ {0}
  /\ \A n \in LineLen : n \in Nat /\ n >= 1
<1>1. SndBuf + RcvBuf \in Nat
  BY EchoAssumption
<1> QED
  BY <1>1, EchoAssumption

\* What the types say of the sequences.
LEMMA Lengths ==
  ASSUME TypeOK, NEW c \in Client
  PROVE  /\ line[c] \in Seq(Byte) /\ rest[c] \in Seq(Byte) /\ got[c] \in Seq(Byte)
         /\ c2s[c] \in Seq(Byte) /\ s2c[c] \in Seq(Byte)
         /\ Len(line[c]) \in Nat /\ Len(rest[c]) \in Nat /\ Len(got[c]) \in Nat
         /\ Len(c2s[c]) \in Nat /\ Len(s2c[c]) \in Nat /\ Len(sbuf) \in Nat
         /\ Len(c2s[c]) <= SndBuf /\ Len(s2c[c]) <= RcvBuf
<1>1. /\ line[c] \in Seq(Byte) /\ rest[c] \in Seq(Byte) /\ got[c] \in Seq(Byte)
      /\ c2s[c] \in Seq(Byte) /\ s2c[c] \in Seq(Byte) /\ sbuf \in Seq(Byte)
      /\ Len(c2s[c]) <= SndBuf /\ Len(s2c[c]) <= RcvBuf
  BY DEF TypeOK
<1> QED
  BY <1>1, LenProperties

\* What each transfer moves.
LEMMA WriteMoves ==
  ASSUME TypeOK, NEW c \in Client, Write(c)
  PROVE  \E k \in 0 .. Len(rest[c]) :
           /\ 1 <= k /\ k <= SndBuf - Len(c2s[c])
           /\ c2s' = [c2s EXCEPT ![c] = c2s[c] \o First(rest[c], k)]
           /\ rest' = [rest EXCEPT ![c] = After(rest[c], k)]
           /\ cpc' = IF k = Len(rest[c]) THEN [cpc EXCEPT ![c] = "read"] ELSE cpc
<1>1. PICK k \in 1 .. Lower(Len(rest[c]), SndBuf - Len(c2s[c])) :
           /\ c2s' = [c2s EXCEPT ![c] = c2s[c] \o First(rest[c], k)]
           /\ rest' = [rest EXCEPT ![c] = After(rest[c], k)]
           /\ cpc' = IF k = Len(rest[c]) THEN [cpc EXCEPT ![c] = "read"] ELSE cpc
  BY DEF Write, GoTo, TypeOK
<1>2. Len(rest[c]) \in Int /\ SndBuf - Len(c2s[c]) \in Int
  BY Lengths, EchoFacts
<1>3. k \in Nat /\ 1 <= k /\ k <= Len(rest[c]) /\ k <= SndBuf - Len(c2s[c])
  BY <1>2, LowerBounds
<1>4. k \in 0 .. Len(rest[c])
  BY <1>2, <1>3
<1> QED
  BY <1>1, <1>3, <1>4

LEMMA ReadMoves ==
  ASSUME TypeOK, NEW c \in Client, Read(c)
  PROVE  \E k \in 0 .. Len(s2c[c]) :
           /\ 1 <= k /\ k <= Len(line[c]) - Len(got[c])
           /\ got' = [got EXCEPT ![c] = got[c] \o First(s2c[c], k)]
           /\ s2c' = [s2c EXCEPT ![c] = After(s2c[c], k)]
           /\ cpc' = IF k = Len(line[c]) - Len(got[c]) THEN [cpc EXCEPT ![c] = "prompt"] ELSE cpc
<1>1. PICK k \in 1 .. Lower(NLeft(c), Len(s2c[c])) :
           /\ got' = [got EXCEPT ![c] = got[c] \o First(s2c[c], k)]
           /\ s2c' = [s2c EXCEPT ![c] = After(s2c[c], k)]
           /\ cpc' = IF k = NLeft(c) THEN [cpc EXCEPT ![c] = "prompt"] ELSE cpc
  BY DEF Read, GoTo, TypeOK
<1>2. Len(s2c[c]) \in Int /\ NLeft(c) \in Int
  BY Lengths DEF NLeft
<1>3. k \in Nat /\ 1 <= k /\ k <= Len(s2c[c]) /\ k <= NLeft(c)
  BY <1>2, LowerBounds
<1>4. k \in 0 .. Len(s2c[c])
  BY <1>2, <1>3
<1> QED
  BY <1>1, <1>3, <1>4 DEF NLeft

LEMMA SReadMoves ==
  ASSUME TypeOK, SRead
  PROVE  /\ cur \in Client /\ sbuf = << >>
         /\ \E k \in 0 .. Len(c2s[cur]) :
              /\ 1 <= k
              /\ sbuf' = First(c2s[cur], k)
              /\ c2s' = [c2s EXCEPT ![cur] = After(c2s[cur], k)]
<1>1. PICK k \in 1 .. Lower(SrvBuf, Len(c2s[cur])) :
              /\ sbuf' = First(c2s[cur], k)
              /\ c2s' = [c2s EXCEPT ![cur] = After(c2s[cur], k)]
  BY DEF SRead, TypeOK
<1>2. cur \in Client /\ sbuf = << >>
  BY DEF SRead, TypeOK
<1>3. Len(c2s[cur]) \in Int /\ SrvBuf \in Int
  BY <1>2, Lengths, EchoFacts
<1>4. k \in Nat /\ 1 <= k /\ k <= Len(c2s[cur])
  BY <1>3, LowerBounds
<1>5. k \in 0 .. Len(c2s[cur])
  BY <1>3, <1>4
<1> QED
  BY <1>1, <1>2, <1>4, <1>5

LEMMA SWriteMoves ==
  ASSUME TypeOK, SWrite
  PROVE  /\ cur \in Client
         /\ \E k \in 0 .. Len(sbuf) :
              /\ 1 <= k /\ k <= RcvBuf - Len(s2c[cur])
              /\ s2c' = [s2c EXCEPT ![cur] = s2c[cur] \o First(sbuf, k)]
              /\ sbuf' = After(sbuf, k)
              /\ spc' = IF k = Len(sbuf) THEN "read" ELSE "write"
<1>1. PICK k \in 1 .. Lower(Len(sbuf), RcvBuf - Len(s2c[cur])) :
              /\ s2c' = [s2c EXCEPT ![cur] = s2c[cur] \o First(sbuf, k)]
              /\ sbuf' = After(sbuf, k)
              /\ spc' = IF k = Len(sbuf) THEN "read" ELSE "write"
  BY DEF SWrite, TypeOK
<1>2. cur \in Client
  BY DEF SWrite, TypeOK
<1>3. Len(sbuf) \in Int /\ RcvBuf - Len(s2c[cur]) \in Int
  BY <1>2, Lengths, EchoFacts
<1>4. k \in Nat /\ 1 <= k /\ k <= Len(sbuf) /\ k <= RcvBuf - Len(s2c[cur])
  BY <1>3, LowerBounds
<1>5. k \in 0 .. Len(sbuf)
  BY <1>3, <1>4
<1> QED
  BY <1>1, <1>2, <1>4, <1>5

\* No step takes a variable out of its type.
LEMMA EchoTypeStep == TypeOK /\ [Next]_vars => TypeOK'
<1> SUFFICES ASSUME TypeOK, [Next]_vars PROVE TypeOK'
  OBVIOUS
<1> USE DEF client, wire, server
<1>1. CASE UNCHANGED vars
  BY <1>1 DEF vars, TypeOK
<1>2. ASSUME NEW c \in Client, Connect(c) PROVE TypeOK'
  <2>1. queue' \in Seq(Client)
    <3>1. queue \in Seq(Client)
      BY DEF TypeOK
    <3>2. Append(queue, c) \in Seq(Client)
      BY <3>1, AppendProperties
    <3> QED
      BY <1>2, <3>1, <3>2 DEF Connect
  <2> QED
    BY <1>2, <2>1 DEF Connect, GoTo, TypeOK
<1>3. ASSUME NEW c \in Client, Type(c) PROVE TypeOK'
  <2>1. PICK n \in LineLen :
          /\ line' = [line EXCEPT ![c] = [k \in 1 .. n |-> <<c, lines[c] + 1, k>>]]
          /\ rest' = [rest EXCEPT ![c] = [k \in 1 .. n |-> <<c, lines[c] + 1, k>>]]
    BY <1>3 DEF Type
  <2>2. lines[c] + 1 \in Nat /\ n \in Nat
    BY EchoFacts DEF TypeOK
  <2>3. [k \in 1 .. n |-> <<c, lines[c] + 1, k>>] \in Seq(Byte)
    BY <2>2, IsASeq DEF Byte
  <2>4. << >> \in Seq(Byte)
    OBVIOUS
  <2> QED
    BY <1>3, <2>1, <2>2, <2>3, <2>4 DEF Type, GoTo, TypeOK
<1>4. ASSUME NEW c \in Client, Write(c) PROVE TypeOK'
  <2>1. PICK k \in 0 .. Len(rest[c]) :
           /\ 1 <= k /\ k <= SndBuf - Len(c2s[c])
           /\ c2s' = [c2s EXCEPT ![c] = c2s[c] \o First(rest[c], k)]
           /\ rest' = [rest EXCEPT ![c] = After(rest[c], k)]
           /\ cpc' = IF k = Len(rest[c]) THEN [cpc EXCEPT ![c] = "read"] ELSE cpc
    BY <1>4, WriteMoves
  <2>2. /\ c2s[c] \o First(rest[c], k) \in Seq(Byte)
        /\ Len(c2s[c] \o First(rest[c], k)) = Len(c2s[c]) + k
    BY Lengths, Lengthens
  <2>3. After(rest[c], k) \in Seq(Byte)
    BY Lengths, Split
  <2>4. Len(c2s[c]) + k <= SndBuf
    BY <2>1, Lengths, EchoFacts
  <2> QED
    BY <1>4, <2>1, <2>2, <2>3, <2>4 DEF Write, TypeOK
<1>5. ASSUME NEW c \in Client, Read(c) PROVE TypeOK'
  <2>1. PICK k \in 0 .. Len(s2c[c]) :
           /\ got' = [got EXCEPT ![c] = got[c] \o First(s2c[c], k)]
           /\ s2c' = [s2c EXCEPT ![c] = After(s2c[c], k)]
           /\ cpc' = IF k = Len(line[c]) - Len(got[c]) THEN [cpc EXCEPT ![c] = "prompt"] ELSE cpc
    BY <1>5, ReadMoves
  <2>2. got[c] \o First(s2c[c], k) \in Seq(Byte)
    BY Lengths, Lengthens
  <2>3. After(s2c[c], k) \in Seq(Byte) /\ Len(After(s2c[c], k)) = Len(s2c[c]) - k
    BY Lengths, Split
  <2>4. Len(s2c[c]) - k <= RcvBuf
    BY Lengths, EchoFacts
  <2> QED
    BY <1>5, <2>1, <2>2, <2>3, <2>4 DEF Read, TypeOK
<1>6. ASSUME NEW c \in Client, WriteEnd(c) PROVE TypeOK'
  <2>1. \/ UNCHANGED <<line, rest>>
        \/ \E n \in 1 .. Len(line[c]) : /\ line' = [line EXCEPT ![c] = First(line[c], n)]
                                        /\ rest' = [rest EXCEPT ![c] = << >>]
    BY <1>6 DEF WriteEnd, TypeOK
  <2>2. ASSUME NEW n \in 1 .. Len(line[c]) PROVE First(line[c], n) \in Seq(Byte)
    <3>1. line[c] \in Seq(Byte) /\ n \in 0 .. Len(line[c])
      BY Lengths
    <3> QED
      BY <3>1, Split
  <2>3. << >> \in Seq(Byte)
    OBVIOUS
  <2>4. line' \in [Client -> Seq(Byte)] /\ rest' \in [Client -> Seq(Byte)]
    <3>1. line \in [Client -> Seq(Byte)] /\ rest \in [Client -> Seq(Byte)]
      BY DEF TypeOK
    <3>2. CASE UNCHANGED <<line, rest>>
      BY <3>1, <3>2
    <3>3. ASSUME NEW n \in 1 .. Len(line[c]), line' = [line EXCEPT ![c] = First(line[c], n)],
                 rest' = [rest EXCEPT ![c] = << >>]
          PROVE  line' \in [Client -> Seq(Byte)] /\ rest' \in [Client -> Seq(Byte)]
      BY <2>2, <2>3, <3>1, <3>3
    <3> QED
      BY <2>1, <3>2, <3>3
  <2>5. cpc' = [cpc EXCEPT ![c] = "gone"] \/ cpc' = [cpc EXCEPT ![c] = "read"]
    BY <1>6 DEF WriteEnd, GoTo
  <2> QED
    BY <1>6, <2>4, <2>5 DEF WriteEnd, TypeOK
<1>7. ASSUME NEW c \in Client, ReadEnd(c) PROVE TypeOK'
  BY <1>7 DEF ReadEnd, GoTo, TypeOK
<1>8. ASSUME NEW c \in Client, Quit(c) \/ Kill(c) PROVE TypeOK'
  <2>1. Close(c)
    BY <1>8 DEF Quit, Kill
  <2>2. << >> \in Seq(Byte) /\ Len(<< >>) = 0 /\ 0 <= RcvBuf
    BY EchoFacts
  <2>3. s2c' \in [Client -> Seq(Byte)] /\ \A d \in Client : Len(s2c'[d]) <= RcvBuf
    BY <2>1, <2>2 DEF Close, TypeOK
  <2>4. c2s' \in [Client -> Seq(Byte)] /\ \A d \in Client : Len(c2s'[d]) <= SndBuf
    <3>1. CASE c2s' = c2s
      BY <3>1 DEF TypeOK
    <3>2. ASSUME NEW k \in 0 .. Len(c2s[c]), c2s' = [c2s EXCEPT ![c] = First(c2s[c], k)]
          PROVE  c2s' \in [Client -> Seq(Byte)] /\ \A d \in Client : Len(c2s'[d]) <= SndBuf
      <4>1. First(c2s[c], k) \in Seq(Byte) /\ Len(First(c2s[c], k)) = k
        BY Lengths, Split
      <4>2. k <= SndBuf
        BY Lengths, EchoFacts
      <4> QED
        BY <3>2, <4>1, <4>2 DEF TypeOK
    <3> QED
      BY <2>1, <3>1, <3>2 DEF Close
  <2>5. peer' = [peer EXCEPT ![c] = "fin"] \/ peer' = [peer EXCEPT ![c] = "rst"]
    BY <2>1 DEF Close
  <2> QED
    BY <2>1, <2>3, <2>4, <2>5 DEF Close, GoTo, TypeOK
<1>9. CASE Accept
  <2>1. Head(queue) \in Client /\ Tail(queue) \in Seq(Client)
    BY <1>9, HeadTailProperties DEF Accept, TypeOK
  <2> QED
    BY <1>9, <2>1, EchoFacts DEF Accept, TypeOK
<1>10. CASE SRead
  <2>1. PICK k \in 0 .. Len(c2s[cur]) : /\ 1 <= k
                                        /\ sbuf' = First(c2s[cur], k)
                                        /\ c2s' = [c2s EXCEPT ![cur] = After(c2s[cur], k)]
    BY <1>10, SReadMoves
  <2>2. cur \in Client
    BY <1>10, SReadMoves
  <2>3. /\ First(c2s[cur], k) \in Seq(Byte) /\ Len(First(c2s[cur], k)) = k
        /\ After(c2s[cur], k) \in Seq(Byte) /\ Len(After(c2s[cur], k)) = Len(c2s[cur]) - k
    BY <2>2, Lengths, Split
  <2>4. Len(c2s[cur]) - k <= SndBuf
    BY <2>2, Lengths, EchoFacts
  <2>5. First(c2s[cur], k) # << >>
    BY <2>1, <2>3
  <2> QED
    BY <1>10, <2>1, <2>2, <2>3, <2>4, <2>5 DEF SRead, TypeOK
<1>11. CASE SWrite
  <2>1. PICK k \in 0 .. Len(sbuf) :
              /\ 1 <= k /\ k <= RcvBuf - Len(s2c[cur])
              /\ s2c' = [s2c EXCEPT ![cur] = s2c[cur] \o First(sbuf, k)]
              /\ sbuf' = After(sbuf, k)
              /\ spc' = IF k = Len(sbuf) THEN "read" ELSE "write"
    BY <1>11, SWriteMoves
  <2>2. cur \in Client
    BY <1>11, SWriteMoves
  <2>3. sbuf \in Seq(Byte) /\ Len(sbuf) \in Nat
    BY <2>2, Lengths DEF TypeOK
  <2>4. /\ s2c[cur] \o First(sbuf, k) \in Seq(Byte)
        /\ Len(s2c[cur] \o First(sbuf, k)) = Len(s2c[cur]) + k
    BY <2>2, <2>3, Lengths, Lengthens
  <2>5. Len(s2c[cur]) + k <= RcvBuf
    BY <2>1, <2>2, <2>3, Lengths, EchoFacts
  <2>6. After(sbuf, k) \in Seq(Byte) /\ Len(After(sbuf, k)) = Len(sbuf) - k
    BY <2>3, Split
  <2>7. After(sbuf, k) = << >> <=> k = Len(sbuf)
    BY <2>3, <2>6, EmptySeq
  <2> QED
    BY <1>11, <2>1, <2>2, <2>4, <2>5, <2>6, <2>7 DEF SWrite, TypeOK
<1>12. CASE SWriteLost \/ SReadError \/ SEnd
  <2>1. cur \in Client
    BY <1>12 DEF SWriteLost, SReadError, SEnd, TypeOK
  <2>2. peer' = peer \/ \E e \in {"lost", "rst"} : peer' = [peer EXCEPT ![cur] = e]
    BY <1>12 DEF SWriteLost, SReadError, SEnd
  <2>3. << >> \in Seq(Byte)
    OBVIOUS
  <2>4. CASE SWriteLost
    BY <2>1, <2>2, <2>3, <2>4, EchoFacts DEF SWriteLost, TypeOK
  <2>5. CASE SReadError
    BY <2>1, <2>2, <2>5 DEF SReadError, TypeOK
  <2>6. CASE SEnd
    BY <2>1, <2>6 DEF SEnd, TypeOK
  <2> QED
    BY <1>12, <2>4, <2>5, <2>6
<1>13. CASE SDie
  <2>1. s2c' \in [Client -> Seq(Byte)] /\ \A c \in Client : Len(s2c'[c]) <= RcvBuf
    <3>1. CASE s2c' = s2c
      BY <3>1 DEF TypeOK
    <3>2. ASSUME cur \in Client, NEW k \in 0 .. Len(s2c[cur]),
                 s2c' = [s2c EXCEPT ![cur] = First(s2c[cur], k)]
          PROVE  s2c' \in [Client -> Seq(Byte)] /\ \A c \in Client : Len(s2c'[c]) <= RcvBuf
      <4>1. First(s2c[cur], k) \in Seq(Byte) /\ Len(First(s2c[cur], k)) = k
        BY <3>2, Lengths, Split
      <4>2. k <= RcvBuf
        BY <3>2, Lengths, EchoFacts
      <4> QED
        BY <3>2, <4>1, <4>2 DEF TypeOK
    <3> QED
      BY <1>13, <3>1, <3>2 DEF SDie, TypeOK
  <2>2. srv' \in [Client -> {"open", "fin", "rst"}]
    BY <1>13 DEF SDie, TypeOK
  <2>3. << >> \in Seq(Byte) /\ << >> \in Seq(Client)
    OBVIOUS
  <2> QED
    BY <1>13, <2>1, <2>2, <2>3 DEF SDie, TypeOK
<1> QED
  BY <1>1, <1>2, <1>3, <1>4, <1>5, <1>6, <1>7, <1>8, <1>9, <1>10, <1>11, <1>12, <1>13
  DEF Next, ClientStep, ServerStep, SPipe, SKill

\* --- One step, for one client.
\* A client that does nothing and is not served.
LEMMA Quiet ==
  ASSUME NEW c \in Client, ClientInv(c),
         UNCHANGED <<cpc[c], line[c], rest[c], got[c], c2s[c], s2c[c], peer[c]>>,
         srv'[c] = srv[c] \/ srv'[c] # "open",
         cur' = c <=> cur = c, cur = c => sbuf' = sbuf,
         Waits(c)' => Waits(c)
  PROVE  ClientInv(c)'
<1>1. NewClient(c)'
  BY DEF ClientInv, NewClient
<1>2. Progress(c)'
  BY DEF ClientInv, Progress
<1>3. Held(c)' = Held(c)
  BY DEF Held
<1>4. Intact(c)'
  BY <1>3 DEF ClientInv, Intact
<1> QED
  BY <1>1, <1>2, <1>4 DEF ClientInv

\* A client that has gone keeps nothing intact.
LEMMA Gone ==
  ASSUME NEW c \in Client, cpc'[c] \in {"gone", "spin"}, peer'[c] # "open" => cpc'[c] = "gone"
  PROVE  ClientInv(c)'
  BY DEF ClientInv, NewClient, Progress, Intact

\* Only a client that connects begins to wait.
LEMMA WaitStep ==
  ASSUME TypeOK, NEW c \in Client,
         \/ queue' = queue
         \/ queue' = << >>
         \/ queue # << >> /\ queue' = Tail(queue)
         \/ \E d \in Client \ {c} : queue' = Append(queue, d)
  PROVE  Waits(c)' => Waits(c)
<1>1. queue \in Seq(Client) /\ Len(queue) \in Nat
  BY LenProperties DEF TypeOK
<1>2. CASE queue' = queue
  BY <1>2 DEF Waits
<1>3. CASE queue' = << >>
  BY <1>3 DEF Waits
<1>4. CASE queue # << >> /\ queue' = Tail(queue)
  <2>1. /\ Len(queue') = Len(queue) - 1
        /\ \A j \in 1 .. Len(queue') : queue'[j] = queue[j + 1]
    BY <1>1, <1>4, HeadTailProperties
  <2>2. \A j \in 1 .. Len(queue') : j + 1 \in 1 .. Len(queue)
    BY <1>1, <2>1
  <2> QED
    BY <2>1, <2>2 DEF Waits
<1>5. ASSUME NEW d \in Client \ {c}, queue' = Append(queue, d) PROVE Waits(c)' => Waits(c)
  <2>1. /\ Len(queue') = Len(queue) + 1 /\ queue'[Len(queue) + 1] = d
        /\ \A j \in 1 .. Len(queue) : queue'[j] = queue[j]
    BY <1>1, <1>5, AppendProperties
  <2>2. \A j \in 1 .. Len(queue') : j = Len(queue) + 1 \/ j \in 1 .. Len(queue)
    BY <1>1, <2>1
  <2> QED
    BY <2>1, <2>2 DEF Waits
<1> QED
  BY <1>2, <1>3, <1>4, <1>5

\* The others do nothing when one client moves.
LEMMA OthersQuiet ==
  ASSUME EchoInv, NEW c \in Client,
         Connect(c) \/ Type(c) \/ ClientStep(c) \/ Quit(c) \/ Kill(c), ClientInv(c)'
  PROVE  EchoInv'
<1> USE DEF client, wire, server
<1>1. TypeOK'
  BY EchoTypeStep DEF EchoInv, Next
<1>2. /\ UNCHANGED <<cur, sbuf, srv>>
      /\ queue' = queue \/ queue' = Append(queue, c)
  BY DEF Connect, Type, ClientStep, Write, WriteEnd, Read, ReadEnd, Quit, Kill, Close
<1>3. ASSUME NEW d \in Client \ {c} PROVE ClientInv(d)'
  <2>1. UNCHANGED <<cpc[d], line[d], rest[d], got[d], c2s[d], s2c[d], peer[d]>>
    BY DEF EchoInv, TypeOK, Connect, Type, ClientStep, Write, WriteEnd, Read, ReadEnd, Quit, Kill,
           Close, GoTo
  <2>2. Waits(d)' => Waits(d)
    BY <1>2, WaitStep DEF EchoInv
  <2> QED
    BY <1>2, <2>1, <2>2, Quiet DEF EchoInv
<1> QED
  BY <1>1, <1>3 DEF EchoInv

LEMMA ConnectStep == ASSUME EchoInv, NEW c \in Client, Connect(c) PROVE ClientInv(c)'
<1> USE DEF wire
<1>1. /\ UNCHANGED <<lines, line, rest, got, c2s, s2c, peer, srv, cur, sbuf>>
      /\ cpc[c] = "start" /\ cpc'[c] \in {"prompt", "gone"}
  BY DEF Connect, GoTo, EchoInv, TypeOK
<1>2. /\ c # cur /\ line[c] = << >> /\ rest[c] = << >> /\ got[c] = << >>
      /\ c2s[c] = << >> /\ s2c[c] = << >> /\ peer[c] = "open"
  BY <1>1 DEF EchoInv, ClientInv, NewClient, Progress
<1>3. Held(c)' = << >>
  BY <1>1, <1>2 DEF Held
<1>4. << >> \o << >> \o << >> \o << >> \o << >> = << >>
  OBVIOUS
<1>5. NewClient(c)' /\ Progress(c)'
  BY <1>1, <1>2 DEF NewClient, Progress
<1>6. Intact(c)'
  BY <1>1, <1>2, <1>3, <1>4 DEF Intact
<1> QED
  BY <1>5, <1>6 DEF ClientInv

\* What makes a sequence no longer is empty.
LEMMA NothingAdded ==
  ASSUME NEW S, NEW g \in Seq(S), NEW s \in Seq(S), NEW h \in Seq(S), NEW b \in Seq(S),
         Len(g \o s \o h \o b) = Len(g)
  PROVE  s = << >> /\ h = << >> /\ b = << >>
<1>1. PICK x \in Seq(S) : x = g \o s /\ Len(x) = Len(g) + Len(s)
  BY ConcatProperties
<1>2. PICK y \in Seq(S) : y = x \o h /\ Len(y) = Len(x) + Len(h)
  BY ConcatProperties
<1>3. Len(y \o b) = Len(y) + Len(b)
  BY ConcatProperties
<1>4. Len(g) \in Nat /\ Len(s) \in Nat /\ Len(h) \in Nat /\ Len(b) \in Nat
  BY LenProperties
<1>5. Len(g) = Len(g) + Len(s) + Len(h) + Len(b)
  BY <1>1, <1>2, <1>3
<1>6. Len(s) = 0 /\ Len(h) = 0 /\ Len(b) = 0
  BY <1>4, <1>5
<1> QED
  BY <1>6, EmptySeq

\* At the prompt nothing is under way.
LEMMA PromptEmpty ==
  ASSUME EchoInv, NEW c \in Client, cpc[c] = "prompt", srv[c] = "open"
  PROVE  s2c[c] = << >> /\ Held(c) = << >> /\ c2s[c] = << >> /\ rest[c] = << >>
<1>1. /\ got[c] \in Seq(Byte) /\ s2c[c] \in Seq(Byte) /\ Held(c) \in Seq(Byte)
      /\ c2s[c] \in Seq(Byte)
  <2>1. << >> \in Seq(Byte) /\ sbuf \in Seq(Byte)
    BY DEF EchoInv, TypeOK
  <2> QED
    BY <2>1, Lengths DEF EchoInv, Held
<1>2. /\ rest[c] = << >> /\ Len(got[c]) = Len(line[c])
      /\ got[c] \o s2c[c] \o Held(c) \o c2s[c] \o rest[c] = line[c]
  BY DEF EchoInv, ClientInv, Progress, Intact
<1>3. PICK x : x = got[c] \o s2c[c] \o Held(c) \o c2s[c]
  OBVIOUS
<1>4. x \in Seq(Byte)
  BY <1>1, <1>3, ConcatProperties
<1>5. x = line[c]
  BY <1>2, <1>3, <1>4, ConcatEmptySeq
<1>6. Len(got[c] \o s2c[c] \o Held(c) \o c2s[c]) = Len(got[c])
  BY <1>2, <1>3, <1>5
<1>7. s2c[c] = << >> /\ Held(c) = << >> /\ c2s[c] = << >>
  <2>1. \A h \in Seq(Byte) :
            Len(got[c] \o s2c[c] \o h \o c2s[c]) = Len(got[c])
                => s2c[c] = << >> /\ h = << >> /\ c2s[c] = << >>
    BY <1>1, NothingAdded
  <2> QED
    BY <1>1, <1>6, <2>1
<1> QED
  BY <1>2, <1>7

LEMMA TypeStep == ASSUME EchoInv, NEW c \in Client, Type(c) PROVE ClientInv(c)'
<1> USE DEF wire, server
<1>1. PICK n \in LineLen :
        /\ line' = [line EXCEPT ![c] = [k \in 1 .. n |-> <<c, lines[c] + 1, k>>]]
        /\ rest' = [rest EXCEPT ![c] = [k \in 1 .. n |-> <<c, lines[c] + 1, k>>]]
  BY DEF Type
<1>2. /\ cpc[c] = "prompt" /\ cpc'[c] = "write" /\ got'[c] = << >> /\ rest'[c] = line'[c]
      /\ UNCHANGED <<c2s, s2c, peer, srv, cur, sbuf>>
  BY <1>1 DEF Type, GoTo, EchoInv, TypeOK
<1>3. NewClient(c)' /\ Progress(c)'
  BY <1>2 DEF EchoInv, ClientInv, NewClient, Progress
<1>4. ASSUME srv[c] = "open"
      PROVE  got'[c] \o s2c'[c] \o Held(c)' \o c2s'[c] \o rest'[c] = line'[c]
  <2>1. s2c'[c] = << >> /\ Held(c)' = << >> /\ c2s'[c] = << >>
    BY <1>2, <1>4, PromptEmpty DEF Held
  <2>2. << >> \o << >> \o << >> \o << >> = << >>
    OBVIOUS
  <2>3. line'[c] \in Seq(Byte)
    <3>1. TypeOK'
      BY EchoTypeStep DEF EchoInv, Next
    <3> QED
      BY <3>1 DEF TypeOK
  <2>4. << >> \o line'[c] = line'[c]
    BY <2>3, ConcatEmptySeq
  <2> QED
    BY <1>2, <2>1, <2>2, <2>4
<1>5. Intact(c)'
  BY <1>2, <1>4 DEF Intact
<1> QED
  BY <1>3, <1>5 DEF ClientInv

\* Part of the line moves from the client's buffer into the connection.
LEMMA WriteStep == ASSUME EchoInv, NEW c \in Client, Write(c) PROVE ClientInv(c)'
<1> USE DEF server
<1>1. PICK k \in 0 .. Len(rest[c]) :
        /\ c2s' = [c2s EXCEPT ![c] = c2s[c] \o First(rest[c], k)]
        /\ rest' = [rest EXCEPT ![c] = After(rest[c], k)]
        /\ cpc' = IF k = Len(rest[c]) THEN [cpc EXCEPT ![c] = "read"] ELSE cpc
  BY WriteMoves DEF EchoInv
<1>2. /\ c2s'[c] = c2s[c] \o First(rest[c], k) /\ rest'[c] = After(rest[c], k)
      /\ cpc[c] = "write" /\ cpc'[c] = IF k = Len(rest[c]) THEN "read" ELSE "write"
      /\ UNCHANGED <<line, got, s2c, peer, srv, cur, sbuf>>
  BY <1>1 DEF Write, EchoInv, TypeOK
<1>3. k = Len(rest[c]) => rest'[c] = << >>
  <2>1. After(rest[c], k) \in Seq(Byte) /\ Len(After(rest[c], k)) = Len(rest[c]) - k
    BY Lengths, Split DEF EchoInv
  <2> QED
    BY <1>2, <2>1, EmptySeq, Lengths DEF EchoInv
<1>4. NewClient(c)' /\ Progress(c)'
  BY <1>2, <1>3 DEF EchoInv, ClientInv, NewClient, Progress
<1>5. PICK x \in Seq(Byte) : x = got[c] \o s2c[c] \o Held(c)
  <2>1. got[c] \in Seq(Byte) /\ s2c[c] \in Seq(Byte) /\ Held(c) \in Seq(Byte)
    BY DEF EchoInv, TypeOK, Held
  <2> QED
    BY <2>1, ConcatProperties
<1>6. (x \o (c2s[c] \o First(rest[c], k))) \o After(rest[c], k) = (x \o c2s[c]) \o rest[c]
  <2>1. c2s[c] \in Seq(Byte) /\ rest[c] \in Seq(Byte) /\ k \in 0 .. Len(rest[c])
    BY Lengths DEF EchoInv
  <2>2. PICK y \in Seq(Byte) : y = x \o c2s[c]
    BY <2>1, ConcatProperties
  <2>3. (y \o First(rest[c], k)) \o After(rest[c], k) = y \o rest[c]
    BY <2>1, Joins
  <2>4. PICK d \in Seq(Byte), f \in Seq(Byte) : d = c2s[c] /\ f = First(rest[c], k)
    BY <2>1, Split
  <2>5. (x \o d) \o f = x \o (d \o f)
    BY ConcatAssociative
  <2> QED
    BY <2>2, <2>3, <2>4, <2>5
<1>7. Intact(c)'
  BY <1>2, <1>5, <1>6 DEF EchoInv, ClientInv, Intact, Held
<1> QED
  BY <1>4, <1>7 DEF ClientInv

\* Part of the echo moves from the connection into the client's buffer.
LEMMA ReadStep == ASSUME EchoInv, NEW c \in Client, Read(c) PROVE ClientInv(c)'
<1> USE DEF server
<1>1. PICK k \in 0 .. Len(s2c[c]) :
        /\ got' = [got EXCEPT ![c] = got[c] \o First(s2c[c], k)]
        /\ s2c' = [s2c EXCEPT ![c] = After(s2c[c], k)]
        /\ cpc' = IF k = Len(line[c]) - Len(got[c]) THEN [cpc EXCEPT ![c] = "prompt"] ELSE cpc
  BY ReadMoves DEF EchoInv
<1>2. /\ got'[c] = got[c] \o First(s2c[c], k) /\ s2c'[c] = After(s2c[c], k)
      /\ cpc[c] = "read"
      /\ cpc'[c] = IF k = Len(line[c]) - Len(got[c]) THEN "prompt" ELSE "read"
      /\ UNCHANGED <<line, rest, c2s, peer, srv, cur, sbuf>>
  BY <1>1 DEF Read, EchoInv, TypeOK
<1>0. /\ got[c] \in Seq(Byte) /\ s2c[c] \in Seq(Byte)
      /\ Len(got[c]) \in Nat /\ Len(line[c]) \in Nat /\ k \in Nat
  BY Lengths DEF EchoInv
<1>3. Len(got'[c]) = Len(got[c]) + k
  <2>1. got[c] \in Seq(Byte) /\ s2c[c] \in Seq(Byte) /\ k \in 0 .. Len(s2c[c])
    BY <1>0
  <2>2. Len(got[c] \o First(s2c[c], k)) = Len(got[c]) + k
    BY <2>1, Lengthens
  <2> QED
    BY <1>2, <2>2
<1>4. NewClient(c)' /\ Progress(c)'
  <2>1. k = Len(line[c]) - Len(got[c]) => Len(got'[c]) = Len(line[c])
    BY <1>0, <1>3
  <2> QED
    BY <1>2, <2>1 DEF EchoInv, ClientInv, NewClient, Progress
<1>5. got'[c] \o s2c'[c] = got[c] \o s2c[c]
  <2>1. (got[c] \o First(s2c[c], k)) \o After(s2c[c], k) = got[c] \o s2c[c]
    BY <1>0, Joins
  <2> QED
    BY <1>2, <2>1
<1>6. Intact(c)'
  BY <1>2, <1>5 DEF EchoInv, ClientInv, Intact, Held
<1> QED
  BY <1>4, <1>6 DEF ClientInv

LEMMA ClientMoves ==
  ASSUME EchoInv, NEW c \in Client,
         Connect(c) \/ Type(c) \/ ClientStep(c) \/ Quit(c) \/ Kill(c)
  PROVE  EchoInv'
<1> USE DEF wire, server
<1>1. CASE WriteEnd(c) \/ ReadEnd(c)
  <2>1. /\ srv'[c] # "open" /\ peer' = peer /\ cpc[c] # "gone"
        /\ cpc'[c] \in {"gone", "read", "spin"}
    BY <1>1 DEF WriteEnd, ReadEnd, GoTo, EchoInv, TypeOK
  <2>2. ClientInv(c)'
    BY <2>1 DEF EchoInv, ClientInv, NewClient, Progress, Intact
  <2> QED
    BY <1>1, <2>2, OthersQuiet DEF ClientStep
<1>2. CASE Quit(c) \/ Kill(c)
  <2>1. cpc'[c] = "gone"
    BY <1>2 DEF Quit, Kill, Close, GoTo, EchoInv, TypeOK
  <2> QED
    BY <1>2, <2>1, Gone, OthersQuiet
<1> QED
  BY <1>1, <1>2, ConnectStep, TypeStep, WriteStep, ReadStep, OthersQuiet DEF ClientStep

\* The server takes the first of what is under way into its buffer.
LEMMA SReadStep ==
  ASSUME EchoInv, NEW c \in Client, c = cur, SRead, ClientInv(c), cpc[c] # "start"
  PROVE  ClientInv(c)'
<1> USE DEF client
<1>1. PICK k \in 0 .. Len(c2s[c]) :
        /\ sbuf' = First(c2s[c], k)
        /\ c2s' = [c2s EXCEPT ![c] = After(c2s[c], k)]
  BY SReadMoves DEF EchoInv
<1>2. /\ c2s'[c] = After(c2s[c], k) /\ sbuf = << >> /\ cur' = c
      /\ UNCHANGED <<cpc, line, rest, got, s2c, peer, srv>>
  BY <1>1, SReadMoves DEF SRead, EchoInv, TypeOK
<1>3. NewClient(c)' /\ Progress(c)'
  BY <1>2 DEF ClientInv, NewClient, Progress
<1>4. /\ got[c] \in Seq(Byte) /\ s2c[c] \in Seq(Byte) /\ c2s[c] \in Seq(Byte)
  BY Lengths DEF EchoInv
<1>5. PICK x \in Seq(Byte) : x = got[c] \o s2c[c]
  BY <1>4, ConcatProperties
<1>6. (x \o First(c2s[c], k)) \o After(c2s[c], k) = x \o c2s[c]
  BY <1>4, Joins
<1>7. x \o << >> = x
  BY ConcatEmptySeq
<1>8. Held(c) = << >> /\ Held(c)' = First(c2s[c], k)
  BY <1>1, <1>2 DEF Held
<1>9. /\ x \o Held(c)' \o c2s'[c] = x \o c2s[c]
      /\ x \o Held(c) \o c2s[c] = x \o c2s[c]
  BY <1>2, <1>6, <1>7, <1>8
<1>10. got[c] \o s2c[c] \o Held(c)' \o c2s'[c] = got[c] \o s2c[c] \o Held(c) \o c2s[c]
  BY <1>5, <1>9
<1>11. Intact(c)'
  BY <1>2, <1>10 DEF ClientInv, Intact
<1> QED
  BY <1>3, <1>11 DEF ClientInv

\* The server writes the first of its buffer back.
LEMMA SWriteStep ==
  ASSUME EchoInv, NEW c \in Client, c = cur, SWrite, ClientInv(c), cpc[c] # "start"
  PROVE  ClientInv(c)'
<1> USE DEF client
<1>1. PICK k \in 0 .. Len(sbuf) :
        /\ s2c' = [s2c EXCEPT ![c] = s2c[c] \o First(sbuf, k)]
        /\ sbuf' = After(sbuf, k)
  BY SWriteMoves DEF EchoInv
<1>2. /\ s2c'[c] = s2c[c] \o First(sbuf, k) /\ cur' = c
      /\ UNCHANGED <<cpc, line, rest, got, c2s, peer, srv>>
  BY <1>1 DEF SWrite, EchoInv, TypeOK
<1>3. NewClient(c)' /\ Progress(c)'
  BY <1>2 DEF ClientInv, NewClient, Progress
<1>4. /\ got[c] \in Seq(Byte) /\ s2c[c] \in Seq(Byte) /\ sbuf \in Seq(Byte)
  BY Lengths DEF EchoInv, TypeOK
<1>5. (got[c] \o (s2c[c] \o First(sbuf, k))) \o After(sbuf, k) = (got[c] \o s2c[c]) \o sbuf
  <2>1. k \in 0 .. Len(sbuf)
    OBVIOUS
  <2>2. PICK g \in Seq(Byte), d \in Seq(Byte), f \in Seq(Byte) :
            g = got[c] /\ d = s2c[c] /\ f = First(sbuf, k)
    BY <1>4, <2>1, Split
  <2>3. (g \o d) \o f = g \o (d \o f)
    BY ConcatAssociative
  <2>4. PICK y \in Seq(Byte) : y = got[c] \o s2c[c]
    BY <1>4, ConcatProperties
  <2>5. (y \o First(sbuf, k)) \o After(sbuf, k) = y \o sbuf
    BY <1>4, <2>1, Joins
  <2> QED
    BY <2>2, <2>3, <2>4, <2>5
<1>6. Held(c) = sbuf /\ Held(c)' = After(sbuf, k)
  BY <1>1, <1>2 DEF Held
<1>7. got[c] \o s2c'[c] \o Held(c)' = got[c] \o s2c[c] \o Held(c)
  BY <1>2, <1>5, <1>6
<1>8. Intact(c)'
  BY <1>2, <1>7 DEF ClientInv, Intact
<1> QED
  BY <1>3, <1>8 DEF ClientInv

\* The server moves: the client that is served, and the others.
LEMMA ServerMoves ==
  ASSUME EchoInv, ServerStep \/ SKill
  PROVE  EchoInv'
<1> USE DEF client
<1>1. TypeOK'
  BY EchoTypeStep DEF EchoInv, Next
<1>2. ASSUME NEW c \in Client, c # cur, ~Accept PROVE ClientInv(c)'
  <2>1. UNCHANGED <<cpc[c], line[c], rest[c], got[c], c2s[c], s2c[c], peer[c]>>
    BY <1>2 DEF ServerStep, SRead, SWrite, SWriteLost, SReadError, SEnd, SPipe, SKill, SDie, server,
                EchoInv, TypeOK
  <2>2. srv'[c] = srv[c] \/ srv'[c] # "open"
    BY <1>2 DEF ServerStep, SRead, SWrite, SWriteLost, SReadError, SEnd, SPipe, SKill, SDie, server,
                EchoInv, TypeOK
  <2>3. (cur' = cur \/ cur' = NoClient) /\ (queue' = queue \/ queue' = << >>)
    BY <1>2 DEF ServerStep, SRead, SWrite, SWriteLost, SReadError, SEnd, SPipe, SKill, SDie, server
  <2>4. Waits(c)' => Waits(c)
    BY <2>3, WaitStep DEF EchoInv
  <2>5. cur' # c
    BY <1>2, <2>3, EchoFacts
  <2> QED
    BY <1>2, <2>1, <2>2, <2>4, <2>5, Quiet DEF EchoInv
<1>3. CASE Accept
  <2>1. /\ UNCHANGED <<cpc, line, rest, got, c2s, s2c, peer, srv, sbuf>>
        /\ cur = NoClient /\ sbuf = << >> /\ queue # << >>
        /\ cur' = Head(queue) /\ queue' = Tail(queue) /\ queue \in Seq(Client)
    BY <1>3 DEF Accept, wire, EchoInv, TypeOK
  <2>2. Waits(cur')
    BY <2>1, EmptySeq, LenProperties DEF Waits
  <2>3. ASSUME NEW c \in Client PROVE ClientInv(c)'
    <3>1. Waits(c)' => Waits(c)
      BY <2>1, WaitStep DEF EchoInv
    <3>2. Held(c) = << >> /\ Held(c)' = << >>
      BY <2>1 DEF Held
    <3>3. NewClient(c)'
      BY <2>1, <2>2, <3>1 DEF EchoInv, ClientInv, NewClient
    <3>4. Progress(c)' /\ Intact(c)'
      BY <2>1, <3>2 DEF EchoInv, ClientInv, Progress, Intact
    <3> QED
      BY <3>3, <3>4 DEF ClientInv
  <2> QED
    BY <1>1, <2>3 DEF EchoInv
<1>4. ASSUME NEW c \in Client, c = cur, ~Accept PROVE ClientInv(c)'
  <2>1. /\ cpc[c] # "start" /\ ClientInv(c) /\ UNCHANGED <<cpc, line, rest, got>>
        /\ c2s[c] \in Seq(Byte) /\ s2c[c] \in Seq(Byte) /\ got[c] \in Seq(Byte)
        /\ sbuf \in Seq(Byte)
    BY <1>4, Lengths DEF EchoInv, TypeOK, ClientInv, NewClient, ServerStep, SRead, SWrite,
       SWriteLost, SReadError, SEnd, SPipe, SKill, SDie
  <2>2. CASE SRead
    BY <1>4, <2>1, <2>2, SReadStep
  <2>3. CASE SWrite
    BY <1>4, <2>1, <2>3, SWriteStep
  <2>4. CASE SWriteLost \/ SReadError
    <3>1. peer[c] # "open" /\ srv' = srv
      BY <1>4, <2>4 DEF SWriteLost, SReadError
    <3>2. cpc'[c] = "gone"
      BY <2>1, <3>1 DEF ClientInv, Progress
    <3> QED
      BY <3>2, Gone
  <2>5. CASE SEnd \/ SPipe \/ SKill
    <3>1. srv'[c] # "open" /\ peer' = peer
      BY <1>4, <2>5, EchoFacts DEF SEnd, SPipe, SKill, SDie, EchoInv, TypeOK
    <3>2. NewClient(c)' /\ Progress(c)' /\ Intact(c)'
      BY <2>1, <3>1 DEF ClientInv, NewClient, Progress, Intact
    <3> QED
      BY <3>2 DEF ClientInv
  <2> QED
    BY <1>4, <2>2, <2>3, <2>4, <2>5 DEF ServerStep
<1> QED
  BY <1>1, <1>2, <1>3, <1>4 DEF EchoInv

LEMMA EchoStep == EchoInv /\ [Next]_vars => EchoInv'
<1> SUFFICES ASSUME EchoInv, [Next]_vars PROVE EchoInv'
  OBVIOUS
<1>1. CASE UNCHANGED vars
  BY <1>1 DEF vars, client, wire, server, EchoInv, TypeOK, ClientInv, NewClient, Progress, Intact,
              Held, Waits
<1> QED
  BY <1>1, ClientMoves, ServerMoves DEF Next

LEMMA EchoInit == Init => EchoInv
<1> SUFFICES ASSUME Init PROVE EchoInv
  OBVIOUS
<1>1. << >> \in Seq(Byte) /\ << >> \in Seq(Client) /\ Len(<< >>) = 0
  OBVIOUS
<1>2. TypeOK
  BY <1>1, EchoFacts DEF Init, Each, TypeOK
<1>3. ASSUME NEW c \in Client PROVE ClientInv(c)
  BY <1>3, EchoFacts DEF Init, Each, ClientInv, NewClient, Progress, Intact, Waits
<1> QED
  BY <1>2, <1>3 DEF EchoInv

LEMMA EchoMeans == EchoInv => TypeOK /\ PipelineIntact
  BY DEF EchoInv, ClientInv, Intact, Held, PipelineIntact

-----------------------------------------------------------------------------
\* --- Proofs about the hello world server.
LEMMA HelloFacts ==
  /\ NoClient \notin Client /\ BUFSIZ \in Nat /\ BUFSIZ >= 3
  /\ \A w \in Word : w \in Seq(HW!Letter) /\ Len(w) \in Nat /\ 1 <= Len(w)
<1>1. BUFSIZ \in Nat /\ BUFSIZ > Len(HW!Request) /\ Len(HW!Request) = 2
  BY ServersAssumption DEF HW!HelloAssumption, HW!Request
<1>2. \A w \in Word : w \in Seq(HW!Letter) /\ Len(w) >= 1
  BY ServersAssumption DEF HW!HelloAssumption
<1>3. \A w \in Word : Len(w) \in Nat
  BY <1>2, LenProperties
<1> QED
  BY <1>1, <1>2, <1>3, EchoFacts

\* What a request looks like on the wire.
LEMMA BytesOf ==
  ASSUME NEW s \in HW!Style, NEW w \in Seq(HW!Letter)
  PROVE  /\ HW!Bytes(s, w) \in Seq(HW!Byte)
         /\ s = "client" => Len(HW!Bytes(s, w)) = Len(w) + 1
         /\ s = "telnet" => Len(HW!Bytes(s, w)) = Len(w) + 2
         /\ s = "broken" => Len(HW!Bytes(s, w)) = Len(w)
         /\ \A j \in 1 .. Len(w) : HW!Bytes(s, w)[j] = w[j]
         /\ s = "client" => HW!Bytes(s, w)[Len(w) + 1] = "NUL"
         /\ s = "telnet" =>
                HW!Bytes(s, w)[Len(w) + 1] = "CR" /\ HW!Bytes(s, w)[Len(w) + 2] = "NL"
<1>1. w \in Seq(HW!Byte) /\ Len(w) \in Nat
  BY LenProperties DEF HW!Byte
<1>2. CASE s = "client"
  <2>0. "NUL" \in HW!Byte
    BY DEF HW!Byte
  <2> DEFINE end == <<"NUL">>
  <2>e. end \in Seq(HW!Byte) /\ Len(end) = 1 /\ end[1] = "NUL"
    BY <2>0
  <2>1. PICK e \in Seq(HW!Byte) : e = end /\ Len(e) = 1 /\ e[1] = "NUL"
    BY <2>e
  <2>2. HW!Bytes(s, w) = w \o e
    BY <1>2, <2>1 DEF HW!Bytes
  <2>3. /\ w \o e \in Seq(HW!Byte) /\ Len(w \o e) = Len(w) + 1
        /\ \A j \in 1 .. Len(w) : (w \o e)[j] = w[j]
        /\ (w \o e)[Len(w) + 1] = e[Len(w) + 1 - Len(w)]
    BY <1>1, <2>1, ConcatProperties
  <2>4. Len(w) + 1 - Len(w) = 1
    BY <1>1
  <2> QED
    BY <1>2, <2>1, <2>2, <2>3, <2>4
<1>3. CASE s = "telnet"
  <2>0. "CR" \in HW!Byte /\ "NL" \in HW!Byte
    BY DEF HW!Byte
  <2> DEFINE end == <<"CR", "NL">>
  <2>e. end \in Seq(HW!Byte) /\ Len(end) = 2 /\ end[1] = "CR" /\ end[2] = "NL"
    BY <2>0
  <2>1. PICK e \in Seq(HW!Byte) :
            e = end /\ Len(e) = 2 /\ e[1] = "CR" /\ e[2] = "NL"
    BY <2>e
  <2>2. HW!Bytes(s, w) = w \o e
    BY <1>3, <2>1 DEF HW!Bytes
  <2>3. /\ w \o e \in Seq(HW!Byte) /\ Len(w \o e) = Len(w) + 2
        /\ \A j \in 1 .. Len(w) : (w \o e)[j] = w[j]
        /\ (w \o e)[Len(w) + 1] = e[Len(w) + 1 - Len(w)]
        /\ (w \o e)[Len(w) + 2] = e[Len(w) + 2 - Len(w)]
    BY <1>1, <2>1, ConcatProperties
  <2>4. Len(w) + 1 - Len(w) = 1 /\ Len(w) + 2 - Len(w) = 2
    BY <1>1
  <2> QED
    BY <1>3, <2>1, <2>2, <2>3, <2>4
<1>4. CASE s = "broken"
  <2>1. HW!Bytes(s, w) = w \o << >>
    BY <1>4 DEF HW!Bytes
  <2>2. w \o << >> = w
    BY <1>1, ConcatEmptySeq
  <2> QED
    BY <1>1, <1>4, <2>1, <2>2
<1> QED
  BY <1>2, <1>3, <1>4 DEF HW!Style

\* What the types say of one client.
LEMMA HelloTypes ==
  ASSUME HW!TypeOK, NEW c \in Client
  PROVE  /\ style[c] \in HW!Style /\ word[c] \in Seq(HW!Letter)
         /\ Len(word[c]) \in Nat
         /\ Sent(c) \in Seq(HW!Byte) /\ Len(Sent(c)) \in Nat
         /\ sentBytes[c] \in Seq(HW!Byte) /\ Len(sentBytes[c]) \in Nat /\ Taken(c) \in Int
<1>1. style[c] \in HW!Style /\ (word[c] \in Word \/ word[c] = << >>) /\ sentBytes[c] \in Seq(HW!Byte)
  BY DEF HW!TypeOK
<1>2. << >> \in Seq(HW!Letter) /\ Len(<< >>) = 0
  OBVIOUS
<1>3. word[c] \in Seq(HW!Letter) /\ Len(word[c]) \in Nat
  <2>1. CASE word[c] \in Word
    BY <2>1, HelloFacts
  <2>2. CASE word[c] = << >>
    BY <1>2, <2>2, HelloFacts
  <2> QED
    BY <1>1, <2>1, <2>2
<1>4. Sent(c) \in Seq(HW!Byte)
  BY <1>1, <1>3, BytesOf DEF Sent
<1>5. Len(Sent(c)) \in Nat /\ Len(sentBytes[c]) \in Nat
  BY <1>1, <1>4, LenProperties
<1> QED
  BY <1>1, <1>3, <1>4, <1>5 DEF Taken

\* A client that does nothing, and that the server does nothing for.
LEMMA HelloQuiet ==
  ASSUME NEW c \in Client, HelloClient(c),
         UNCHANGED <<style[c], word[c], reply[c], sentBytes[c]>>,
         hcpc'[c] \in {"start", "prompt"} => hcpc[c] \in {"start", "prompt"},
         hcur' = c <=> hcur = c, c = hcur => UNCHANGED <<hspc, temp, rBuffer>>
  PROVE  HelloClient(c)'
<1>1. Sent(c)' = Sent(c) /\ Taken(c)' = Taken(c)
  BY DEF Sent, Taken, HW!Bytes
<1>2. WireOK(c)'
  BY <1>1 DEF HelloClient, WireOK
<1>3. Answered(c)'
  BY DEF HelloClient, Answered
<1>4. c = hcur /\ hspc = "read" => ReadOK(c)'
  BY <1>1 DEF HelloClient, ReadOK
<1>5. c = hcur /\ hspc = "answer" => AnswerOK(c)'
  BY DEF HelloClient, AnswerOK
<1> QED
  BY <1>1, <1>2, <1>3, <1>4, <1>5 DEF HelloClient

LEMMA HelloConnects == ASSUME HelloInv, NEW c \in Client, HW!Connect(c) PROVE HelloInv'
<1>1. /\ UNCHANGED <<style, word, sentBytes, reply, hspc, hcur, rBuffer, temp>>
      /\ hcpc[c] = "start" /\ hcpc' = [hcpc EXCEPT ![c] = "prompt"]
      /\ hqueue' = Append(hqueue, c) /\ hqueue \in Seq(Client) /\ Len(hqueue) \in Nat
  BY LenProperties DEF HW!Connect, HelloInv, HW!TypeOK
<1>2. /\ hqueue' \in Seq(Client) /\ Len(hqueue') = Len(hqueue) + 1
      /\ hqueue'[Len(hqueue) + 1] = c
      /\ \A j \in 1 .. Len(hqueue) : hqueue'[j] = hqueue[j]
  BY <1>1, AppendProperties
<1>3. HW!TypeOK'
  BY <1>1, <1>2 DEF HelloInv, HW!TypeOK
<1>4. HelloQueue'
  <2>1. \A j \in 1 .. Len(hqueue') : j = Len(hqueue) + 1 \/ j \in 1 .. Len(hqueue)
    BY <1>1, <1>2
  <2>2. c # hcur /\ reply[c] = "none"
    BY <1>1, EchoFacts DEF HelloInv, HelloQueue, HelloClient
  <2>3. \A j \in 1 .. Len(hqueue) : hqueue[j] # c /\ hqueue[j] \in Client
    BY <1>1 DEF HelloInv, HelloQueue
  <2>4. \A j \in 1 .. Len(hqueue') : /\ hqueue'[j] # hcur /\ reply[hqueue'[j]] = "none"
                                     /\ hcpc'[hqueue'[j]] # "start"
    BY <1>1, <1>2, <2>1, <2>2, <2>3 DEF HelloInv, HelloQueue, HW!TypeOK
  <2>5. \A j, k \in 1 .. Len(hqueue') : hqueue'[j] = hqueue'[k] => j = k
    BY <1>2, <2>1, <2>3 DEF HelloInv, HelloQueue
  <2>6. hcur # c => hcpc'[hcur] = hcpc[hcur]
    BY <1>1 DEF HelloInv, HW!TypeOK
  <2> QED
    BY <1>1, <2>2, <2>4, <2>5, <2>6 DEF HelloInv, HelloQueue
<1>5. ASSUME NEW d \in Client PROVE HelloClient(d)'
  <2>1. hcpc'[d] \in {"start", "prompt"} => hcpc[d] \in {"start", "prompt"}
    BY <1>1 DEF HelloInv, HW!TypeOK
  <2> QED
    BY <1>1, <2>1, HelloQuiet DEF HelloInv
<1> QED
  BY <1>3, <1>4, <1>5 DEF HelloInv

LEMMA HelloTypesIt == ASSUME HelloInv, NEW c \in Client, HW!Type(c) PROVE HelloInv'
<1>1. PICK w \in Word : /\ style[c] = "client" => Len(w) < BUFSIZ
                        /\ word' = [word EXCEPT ![c] = w]
                        /\ sentBytes' = [sentBytes EXCEPT ![c] = HW!Bytes(style[c], w)]
  BY DEF HW!Type
<1>2. /\ UNCHANGED <<style, reply, hqueue, hspc, hcur, rBuffer, temp>>
      /\ hcpc[c] = "prompt"
      /\ hcpc' = [hcpc EXCEPT ![c] = "gone"] \/ hcpc' = [hcpc EXCEPT ![c] = "read"]
  BY DEF HW!Type
<1>3. w \in Seq(HW!Letter) /\ Len(w) \in Nat /\ 1 <= Len(w) /\ w # << >> /\ style[c] \in HW!Style
  BY HelloFacts, EmptySeq DEF HelloInv, HW!TypeOK
<1>4. HW!Bytes(style[c], w) \in Seq(HW!Byte)
  BY <1>3, BytesOf
<1>5. HW!TypeOK'
  BY <1>1, <1>2, <1>4 DEF HelloInv, HW!TypeOK
<1>6. HelloQueue'
  BY <1>2 DEF HelloInv, HW!TypeOK, HelloQueue
<1>7. HelloClient(c)'
  <2>1. /\ word[c] = << >> /\ reply[c] = "none" /\ word'[c] = w
        /\ sentBytes'[c] = HW!Bytes(style[c], w) /\ Sent(c)' = HW!Bytes(style[c], w)
        /\ hcpc'[c] \in {"gone", "read"}
    BY <1>1, <1>2 DEF HelloInv, HW!TypeOK, HelloClient, Sent, HW!Bytes
  <2>2. Taken(c)' = 0
    BY <1>4, <2>1, LenProperties DEF Taken
  <2>3. WireOK(c)'
    <3>1. Len(sentBytes'[c]) \in Nat
      BY <1>4, <2>1, LenProperties
    <3> QED
      BY <1>3, <2>1, <2>2, <3>1 DEF WireOK
  <2>4. c = hcur /\ hspc = "read" => ReadOK(c)'
    <3>1. c = hcur /\ hspc = "read" => temp = 1
      BY <2>1 DEF HelloInv, HelloClient, ReadOK
    <3> QED
      BY <1>2, <1>3, <2>1, <2>2, <3>1 DEF ReadOK
  <2>5. ~(c = hcur /\ hspc = "answer")
    BY <1>2 DEF HelloInv, HelloQueue
  <2> QED
    BY <1>1, <1>2, <1>3, <2>1, <2>2, <2>3, <2>4, <2>5 DEF HelloClient, Answered
<1>8. ASSUME NEW d \in Client \ {c} PROVE HelloClient(d)'
  <2>1. UNCHANGED <<style[d], word[d], reply[d], sentBytes[d], hcpc[d]>>
    BY <1>1, <1>2 DEF HelloInv, HW!TypeOK
  <2> QED
    BY <1>2, <2>1, HelloQuiet DEF HelloInv
<1> QED
  BY <1>5, <1>6, <1>7, <1>8 DEF HelloInv

LEMMA HelloLeaves == ASSUME HelloInv, NEW c \in Client, HW!Read(c) \/ HW!Kill(c) PROVE HelloInv'
<1>1. /\ UNCHANGED <<style, word, sentBytes, reply, hqueue, hspc, hcur, rBuffer, temp>>
      /\ hcpc' = [hcpc EXCEPT ![c] = "gone"]
  BY DEF HW!Read, HW!Kill
<1>2. HW!TypeOK' /\ HelloQueue'
  BY <1>1 DEF HelloInv, HW!TypeOK, HelloQueue
<1>3. ASSUME NEW d \in Client PROVE HelloClient(d)'
  <2>1. hcpc'[d] \in {"start", "prompt"} => hcpc[d] \in {"start", "prompt"}
    BY <1>1 DEF HelloInv, HW!TypeOK
  <2> QED
    BY <1>1, <2>1, HelloQuiet DEF HelloInv
<1> QED
  BY <1>2, <1>3 DEF HelloInv

\* --- The hello world server moves.
LEMMA HelloAccepts == ASSUME HelloInv, HW!Accept PROVE HelloInv'
<1>1. /\ UNCHANGED <<hcpc, style, word, sentBytes, reply, rBuffer>>
      /\ hcur = NoClient /\ hqueue # << >> /\ hqueue \in Seq(Client)
      /\ hcur' = Head(hqueue) /\ hqueue' = Tail(hqueue)
      /\ temp' = 1 /\ hspc' = "read"
  BY DEF HW!Accept, HW!FirstPlace, HelloInv, HW!TypeOK
<1>2. /\ Len(hqueue) \in Nat /\ Len(hqueue) >= 1
      /\ hcur' = hqueue[1] /\ hcur' \in Client /\ hqueue' \in Seq(Client)
      /\ Len(hqueue') = Len(hqueue) - 1
      /\ \A j \in 1 .. Len(hqueue') : hqueue'[j] = hqueue[j + 1]
  BY <1>1, HeadTailProperties, EmptySeq, LenProperties
<1>3. 1 \in 1 .. Len(hqueue) /\ \A j \in 1 .. Len(hqueue') : j + 1 \in 1 .. Len(hqueue) /\ j + 1 # 1
  BY <1>2
<1>4. HW!TypeOK'
  <2>1. 1 \in HW!Place
    BY HelloFacts DEF HW!Place
  <2> QED
    BY <1>1, <1>2, <2>1, EchoFacts DEF HelloInv, HW!TypeOK
<1>5. HelloQueue'
  <2>1. \A j, k \in 1 .. Len(hqueue') : hqueue'[j] = hqueue'[k] => j = k
    <3>1. ASSUME NEW j \in 1 .. Len(hqueue'), NEW k \in 1 .. Len(hqueue'), hqueue'[j] = hqueue'[k]
          PROVE  j = k
      <4>1. hqueue[j + 1] = hqueue[k + 1]
        BY <1>2, <3>1
      <4>2. j + 1 = k + 1
        BY <1>3, <4>1 DEF HelloInv, HelloQueue
      <4>3. j \in Int /\ k \in Int
        OBVIOUS
      <4> QED
        BY <4>2, <4>3
    <3> QED
      BY <3>1
  <2>2. \A j \in 1 .. Len(hqueue') : /\ hqueue'[j] # hcur' /\ reply[hqueue'[j]] = "none"
                                     /\ hcpc[hqueue'[j]] # "start"
    BY <1>2, <1>3 DEF HelloInv, HelloQueue
  <2>3. reply[hcur'] = "none" /\ hcpc[hcur'] # "start"
    BY <1>2, <1>3 DEF HelloInv, HelloQueue
  <2> QED
    BY <1>1, <2>1, <2>2, <2>3 DEF HelloQueue
<1>6. ASSUME NEW c \in Client, c # hcur' PROVE HelloClient(c)'
  BY <1>1, <1>6, HelloQuiet, EchoFacts DEF HelloInv
<1>7. ASSUME NEW c \in Client, c = hcur' PROVE HelloClient(c)'
  <2>1. c # hcur /\ reply[c] = "none" /\ HelloClient(c)
    BY <1>1, <1>2, <1>3, <1>7, EchoFacts DEF HelloInv, HelloQueue
  <2>2. Sent(c)' = Sent(c) /\ Taken(c)' = Taken(c)
    BY <1>1 DEF Sent, Taken, HW!Bytes
  <2>3. WireOK(c)' /\ Answered(c)'
    BY <1>1, <2>1, <2>2 DEF HelloClient, WireOK, Answered
  <2>4. ReadOK(c)'
    <3>1. word[c] # << >> => Taken(c)' = 0
      BY <2>1, <2>2 DEF HelloClient
    <3>2. Len(word[c]) \in Nat
      BY HelloTypes DEF HelloInv
    <3> QED
      BY <1>1, <3>1, <3>2 DEF ReadOK
  <2> QED
    BY <1>1, <1>7, <2>1, <2>3, <2>4 DEF HelloClient
<1> QED
  BY <1>4, <1>5, <1>6, <1>7 DEF HelloInv

\* The byte that is read next, by its place in the request.
LEMMA NextByte ==
  ASSUME HelloInv, NEW c \in Client, c = hcur, hspc = "read", sentBytes[c] # << >>
  PROVE  /\ word[c] # << >> /\ Len(sentBytes[c]) >= 1
         /\ Taken(c) \in Nat /\ Taken(c) + 1 <= Len(Sent(c))
         /\ Head(sentBytes[c]) = Sent(c)[Taken(c) + 1]
<1>1. HelloClient(c) /\ HW!TypeOK
  BY DEF HelloInv
<1>2. word[c] # << >> /\ Taken(c) >= 0
  BY <1>1 DEF HelloClient, WireOK
<1>3. /\ sentBytes[c] \in Seq(HW!Byte) /\ Len(sentBytes[c]) \in Nat
      /\ Len(Sent(c)) \in Nat /\ Taken(c) \in Int
  BY <1>1, HelloTypes
<1>4. Len(sentBytes[c]) # 0
  BY <1>3, EmptySeq
<1>5. Head(sentBytes[c]) = sentBytes[c][1]
  BY <1>3
<1>6. 1 \in 1 .. Len(sentBytes[c])
  BY <1>3, <1>4
<1>7. sentBytes[c][1] = Sent(c)[Taken(c) + 1]
  BY <1>1, <1>2, <1>6 DEF HelloClient, WireOK
<1>8. Taken(c) + 1 <= Len(Sent(c))
  BY <1>3, <1>4 DEF Taken
<1> QED
  BY <1>2, <1>3, <1>4, <1>5, <1>7, <1>8

\* A letter of a client's word goes to its place; then comes the end of the request.
LEMMA ByteKinds ==
  ASSUME HelloInv, NEW c \in Client, c = hcur, hspc = "read", sentBytes[c] # << >>,
         style[c] = "client",
         NEW b, b = Head(sentBytes[c]), NEW n, n = Len(word[c]), NEW k, k = Taken(c)
  PROVE  /\ n \in Nat /\ k \in Nat /\ k <= n /\ n < BUFSIZ /\ temp = k + 1
         /\ k < n => b = word[c][k + 1] /\ b \in HW!Letter
         /\ k = n => b = "NUL"
<1>1. /\ word[c] # << >> /\ k \in Nat /\ b = Sent(c)[k + 1]
  BY NextByte
<1>2. word[c] \in Seq(HW!Letter) /\ n \in Nat
  BY HelloTypes DEF HelloInv
<1>3. temp = k + 1 /\ k <= n /\ n < BUFSIZ
  BY <1>1 DEF HelloInv, HelloClient, ReadOK
<1>4. /\ \A j \in 1 .. n : Sent(c)[j] = word[c][j]
      /\ Sent(c)[n + 1] = "NUL"
  <2>1. style[c] \in HW!Style
    BY DEF HW!Style
  <2> QED
    BY <1>2, <2>1, BytesOf DEF Sent
<1>5. ASSUME k < n PROVE b = word[c][k + 1] /\ b \in HW!Letter
  <2>1. k + 1 \in 1 .. n
    BY <1>1, <1>2, <1>5
  <2>2. word[c][k + 1] \in HW!Letter
    BY <1>2, <2>1, ElementOfSeq
  <2> QED
    BY <1>1, <1>4, <2>1, <2>2
<1> QED
  BY <1>1, <1>2, <1>3, <1>4, <1>5

LEMMA HelloReads == ASSUME HelloInv, HW!SRead PROVE HelloInv'
<1>1. PICK c \in Client : c = hcur
  BY DEF HW!SRead, HelloInv, HW!TypeOK
<1>2. /\ hspc = "read" /\ sentBytes[c] # << >> /\ hcur' = c
      /\ UNCHANGED <<hcpc, style, word, reply, hqueue, hcur>>
      /\ HW!TypeOK /\ HelloClient(c)
  BY <1>1 DEF HW!SRead, HelloInv
<1>p. PICK b, n, k : b = Head(sentBytes[c]) /\ n = Len(word[c]) /\ k = Taken(c)
  OBVIOUS
<1>3. /\ rBuffer' = [rBuffer EXCEPT ![temp] = b]
      /\ temp' = IF b = "CR" \/ HW!Stops(b) THEN temp ELSE temp + 1
      /\ hspc' = IF HW!Stops(b) THEN "answer" ELSE "read"
      /\ sentBytes' = [sentBytes EXCEPT ![c] = Tail(sentBytes[c])]
  BY <1>1, <1>p DEF HW!SRead
<1>4. style[c] = "client" =>
        /\ k <= n /\ n < BUFSIZ /\ temp = k + 1
        /\ k < n => b = word[c][k + 1] /\ b \in HW!Letter
        /\ k = n => b = "NUL"
  BY <1>1, <1>2, <1>p, ByteKinds
<1>5. /\ k \in Nat /\ word[c] # << >> /\ k + 1 <= Len(Sent(c)) /\ Len(sentBytes[c]) >= 1
  BY <1>1, <1>2, <1>p, NextByte
<1>6. /\ sentBytes[c] \in Seq(HW!Byte) /\ Len(sentBytes[c]) \in Nat
      /\ n \in Nat /\ Len(Sent(c)) \in Nat
  BY <1>2, <1>p, HelloTypes
<1>7. /\ b \in HW!Byte /\ Tail(sentBytes[c]) \in Seq(HW!Byte)
      /\ Len(Tail(sentBytes[c])) = Len(sentBytes[c]) - 1
      /\ \A j \in 1 .. Len(Tail(sentBytes[c])) : Tail(sentBytes[c])[j] = sentBytes[c][j + 1]
  BY <1>2, <1>6, <1>p, HeadTailProperties
<1>8. sentBytes'[c] = Tail(sentBytes[c])
  BY <1>2, <1>3 DEF HW!TypeOK
<1>9. Sent(c)' = Sent(c) /\ Taken(c)' = k + 1
  <2>1. Sent(c)' = Sent(c)
    BY <1>2 DEF Sent, HW!Bytes
  <2>2. Taken(c)' = Len(Sent(c)) - Len(Tail(sentBytes[c]))
    BY <1>8, <2>1 DEF Taken
  <2>3. k = Len(Sent(c)) - Len(sentBytes[c])
    BY <1>p DEF Taken
  <2>4. Len(Sent(c)) - (Len(sentBytes[c]) - 1) = Len(Sent(c)) - Len(sentBytes[c]) + 1
    BY <1>6
  <2> QED
    BY <1>7, <2>1, <2>2, <2>3, <2>4
\* The loop gives up as soon as temp is behind the buffer.
<1>11. temp \in HW!Place /\ temp' \in HW!Place
  <2>1. temp \in Nat /\ 1 <= temp /\ temp <= BUFSIZ + 1
    BY <1>2, HelloFacts DEF HW!TypeOK, HW!Place
  <2>2. temp' # temp => temp' = temp + 1 /\ temp # BUFSIZ + 1
    BY <1>3 DEF HW!Stops, HW!Full
  <2>3. temp' = temp \/ (temp' = temp + 1 /\ temp + 1 <= BUFSIZ + 1)
    BY <2>1, <2>2, HelloFacts
  <2> QED
    BY <2>1, <2>3, HelloFacts DEF HW!Place
\* It does so for no client.
<1>10. style[c] = "client" =>
         /\ k < n => ~HW!Stops(b) /\ b # "CR"
         /\ k = n => HW!Stops(b)
  <2>1. b \in HW!Letter => b # "CR" /\ ~HW!Ends(b)
    BY DEF HW!Letter, HW!Ends
  <2>2. style[c] = "client" /\ k < n => ~HW!Full
    BY <1>4, <1>5, <1>6, HelloFacts DEF HW!Full
  <2>3. b = "NUL" => HW!Ends(b)
    BY DEF HW!Ends
  <2> QED
    BY <1>4, <2>1, <2>2, <2>3 DEF HW!Stops
<1>12. HW!TypeOK'
  BY <1>2, <1>3, <1>7, <1>11, HelloFacts DEF HW!TypeOK
<1>13. HelloQueue'
  BY <1>1, <1>2, <1>3, <1>5 DEF HelloInv, HelloQueue, HelloClient
<1>14. ASSUME NEW d \in Client \ {c} PROVE HelloClient(d)'
  <2>1. sentBytes'[d] = sentBytes[d]
    BY <1>2, <1>3 DEF HW!TypeOK
  <2> QED
    BY <1>1, <1>2, <2>1, HelloQuiet DEF HelloInv
<1>15. WireOK(c)'
  <2>1. Len(sentBytes'[c]) = Len(sentBytes[c]) - 1 /\ Taken(c)' >= 0
    BY <1>5, <1>7, <1>8, <1>9
  <2>2. ASSUME NEW j \in 1 .. Len(sentBytes'[c])
        PROVE  sentBytes'[c][j] = Sent(c)[k + 1 + j]
    <3>1. j + 1 \in 1 .. Len(sentBytes[c]) /\ k + (j + 1) = k + 1 + j
      BY <1>5, <1>6, <2>1
    <3>2. sentBytes'[c][j] = sentBytes[c][j + 1]
      BY <1>7, <1>8
    <3>3. sentBytes[c][j + 1] = Sent(c)[k + (j + 1)]
      BY <1>2, <1>5, <1>p, <3>1 DEF HelloClient, WireOK
    <3> QED
      BY <3>1, <3>2, <3>3
  <2> QED
    BY <1>2, <1>5, <1>9, <2>1, <2>2 DEF WireOK
\* The word goes to the front of the buffer.
<1>16. style[c] = "client" => \A j \in 1 .. temp - 1 : rBuffer'[j] = word[c][j]
  <2>1. style[c] = "client" => \A j \in 1 .. temp - 1 : rBuffer[j] = word[c][j]
    BY <1>1, <1>2, <1>5 DEF HelloClient, ReadOK
  <2>2. \A j \in 1 .. temp - 1 : j # temp /\ j \in HW!Place
    BY <1>11, HelloFacts DEF HW!Place
  <2>3. \A j \in HW!Place : j # temp => rBuffer'[j] = rBuffer[j]
    BY <1>2, <1>3 DEF HW!TypeOK
  <2> QED
    BY <2>1, <2>2, <2>3
<1>17. rBuffer'[temp] = b
  BY <1>2, <1>3, <1>11 DEF HW!TypeOK
<1>18. ~HW!Stops(b) => ReadOK(c)'
  <2> SUFFICES ASSUME ~HW!Stops(b), style[c] = "client" PROVE ReadOK(c)'
    BY <1>2, <1>5 DEF ReadOK
  <2>1. k < n /\ temp = k + 1 /\ b = word[c][temp]
    BY <1>4, <1>5, <1>6, <1>10
  <2>2. temp' = temp + 1 /\ temp' = k + 1 + 1 /\ k + 1 <= n
    BY <1>3, <1>5, <1>6, <1>10, <2>1
  <2>3. \A j \in 1 .. temp' - 1 : rBuffer'[j] = word[c][j]
    <3>1. \A j \in 1 .. temp' - 1 : j = temp \/ j \in 1 .. temp - 1
      BY <1>5, <2>1, <2>2
    <3> QED
      BY <1>16, <1>17, <2>1, <3>1
  <2> QED
    BY <1>2, <1>5, <1>9, <1>p, <2>2, <2>3 DEF ReadOK
<1>19. HW!Stops(b) => AnswerOK(c)'
  <2> SUFFICES ASSUME HW!Stops(b), style[c] = "client" PROVE AnswerOK(c)'
    BY <1>2 DEF AnswerOK
  <2>1. k = n /\ temp = n + 1 /\ b = "NUL"
    BY <1>4, <1>5, <1>6, <1>10
  <2>2. \A j \in 1 .. n : rBuffer'[j] = word[c][j]
    BY <1>6, <1>16, <2>1
  <2> QED
    BY <1>2, <1>17, <1>p, <2>1, <2>2 DEF AnswerOK
<1>20. HelloClient(c)'
  <2>1. Answered(c)'
    BY <1>2 DEF HelloClient, Answered
  <2> QED
    BY <1>1, <1>2, <1>3, <1>15, <1>18, <1>19, <2>1 DEF HelloClient
<1> QED
  BY <1>12, <1>13, <1>14, <1>20 DEF HelloInv

LEMMA HelloEnds == ASSUME HelloInv, HW!SEnd PROVE HelloInv'
<1>1. PICK c \in Client : c = hcur
  BY DEF HW!SEnd, HelloInv, HW!TypeOK
<1>2. /\ hspc = "read" /\ sentBytes[c] = << >> /\ hspc' = "answer" /\ hcpc[c] = "gone"
      /\ UNCHANGED <<hcpc, style, word, sentBytes, reply, hqueue, hcur, rBuffer, temp>>
      /\ HW!TypeOK /\ HelloClient(c)
  BY <1>1 DEF HW!SEnd, HelloInv
<1>3. HW!TypeOK' /\ HelloQueue'
  BY <1>1, <1>2, EchoFacts DEF HelloInv, HW!TypeOK, HelloQueue
<1>4. ASSUME NEW d \in Client \ {c} PROVE HelloClient(d)'
  BY <1>1, <1>2, HelloQuiet DEF HelloInv
<1>5. Sent(c)' = Sent(c) /\ Taken(c)' = Taken(c)
  BY <1>2 DEF Sent, Taken, HW!Bytes
\* A request of the program's own client ends in NUL.
<1>6. AnswerOK(c)'
  <2> SUFFICES ASSUME style[c] = "client", word[c] # << >> PROVE FALSE
    BY <1>2 DEF AnswerOK
  <2>1. Taken(c) <= Len(word[c])
    BY <1>1, <1>2 DEF HelloClient, ReadOK
  <2>2. Taken(c) = Len(Sent(c)) /\ Len(Sent(c)) \in Nat /\ Len(word[c]) \in Nat
    <3>1. Len(sentBytes[c]) = 0 /\ Len(Sent(c)) \in Nat /\ Len(word[c]) \in Nat
      BY <1>2, HelloTypes
    <3> QED
      BY <3>1 DEF Taken
  <2>3. Len(Sent(c)) = Len(word[c]) + 1
    <3>1. word[c] \in Seq(HW!Letter) /\ style[c] \in HW!Style
      BY <1>2, HelloTypes
    <3> QED
      BY <3>1, BytesOf DEF Sent
  <2> QED
    BY <2>1, <2>2, <2>3
<1>7. WireOK(c)' /\ Answered(c)'
  BY <1>2, <1>5 DEF HelloClient, WireOK, Answered
<1>8. HelloClient(c)'
  BY <1>1, <1>2, <1>5, <1>6, <1>7 DEF HelloClient
<1> QED
  BY <1>3, <1>4, <1>8 DEF HelloInv

\* strcmp finds "print" just when it was asked.
LEMMA PrintIsAsked ==
  ASSUME HW!TypeOK, NEW c \in Client, AnswerOK(c), style[c] = "client", word[c] # << >>
  PROVE  HW!IsPrint <=> word[c] = HW!Request
<1>1. /\ word[c] \in Seq(HW!Letter) /\ Len(word[c]) \in Nat
      /\ \A j \in 1 .. Len(word[c]) : word[c][j] \in HW!Letter
  BY HelloTypes, ElementOfSeq
<1>2. /\ \A j \in 1 .. Len(word[c]) : rBuffer[j] = word[c][j]
      /\ rBuffer[Len(word[c]) + 1] = "NUL"
  BY DEF AnswerOK
<1>3. /\ HW!Request = <<"p", "t">> /\ Len(HW!Request) = 2
      /\ HW!Request[1] = "p" /\ HW!Request[2] = "t"
  BY DEF HW!Request
<1>4. HW!IsPrint <=> rBuffer[1] = "p" /\ rBuffer[2] = "t" /\ rBuffer[3] = "NUL"
  <2>1. \A i : i \in 1 .. 2 <=> i = 1 \/ i = 2
    OBVIOUS
  <2>2. 2 + 1 = 3
    OBVIOUS
  <2> QED
    BY <1>3, <2>1, <2>2 DEF HW!IsPrint
<1>5. ASSUME word[c] = HW!Request PROVE HW!IsPrint
  <2>1. 1 \in 1 .. Len(word[c]) /\ 2 \in 1 .. Len(word[c]) /\ Len(word[c]) + 1 = 3
    BY <1>3, <1>5
  <2> QED
    BY <1>2, <1>3, <1>4, <1>5, <2>1
<1>6. ASSUME HW!IsPrint PROVE word[c] = HW!Request
  <2>1. Len(word[c]) # 0
    BY <1>1, EmptySeq
  <2>2. Len(word[c]) # 1
    BY <1>2, <1>4, <1>6
  <2>3. ~(Len(word[c]) >= 3)
    <3>1. Len(word[c]) >= 3 => 3 \in 1 .. Len(word[c])
      BY <1>1
    <3>2. "NUL" \notin HW!Letter
      BY DEF HW!Letter
    <3> QED
      BY <1>1, <1>2, <1>4, <1>6, <3>1, <3>2
  <2>4. Len(word[c]) = 2
    <3>1. \A m \in Nat : m # 0 /\ m # 1 /\ ~(m >= 3) => m = 2
      OBVIOUS
    <3> QED
      BY <1>1, <2>1, <2>2, <2>3, <3>1
  <2>5. word[c][1] = "p" /\ word[c][2] = "t"
    BY <1>2, <1>4, <1>6, <2>4
  <2>6. HW!Request \in Seq(HW!Letter)
    BY DEF HW!Request, HW!Letter
  <2>7. \A j \in 1 .. Len(word[c]) : word[c][j] = HW!Request[j]
    <3>1. \A j \in 1 .. Len(word[c]) : j = 1 \/ j = 2
      BY <2>4
    <3> QED
      BY <1>3, <2>5, <3>1
  <2> QED
    BY <1>1, <1>3, <2>4, <2>6, <2>7, SeqEqual
<1> QED
  BY <1>5, <1>6

LEMMA HelloAnswers == ASSUME HelloInv, HW!SAnswer PROVE HelloInv'
<1>1. PICK c \in Client : c = hcur
  BY DEF HW!SAnswer, HelloInv, HW!TypeOK
<1>2. /\ hspc = "answer" /\ hspc' = "accept" /\ hcur' = NoClient
      /\ reply' = [reply EXCEPT ![c] = IF HW!IsPrint THEN "hello" ELSE "end"]
      /\ UNCHANGED <<hcpc, style, word, sentBytes, hqueue, rBuffer, temp>>
      /\ HW!TypeOK /\ HelloClient(c)
  BY <1>1 DEF HW!SAnswer, HelloInv
<1>3. HW!TypeOK'
  BY <1>1, <1>2 DEF HW!TypeOK
<1>4. HelloQueue'
  <2>1. \A j \in 1 .. Len(hqueue) : hqueue[j] \in Client /\ hqueue[j] # c
    BY <1>1, ElementOfSeq DEF HelloInv, HelloQueue, HW!TypeOK
  <2>2. \A d \in Client : d # c => reply'[d] = reply[d]
    BY <1>2 DEF HW!TypeOK
  <2> QED
    BY <1>2, <2>1, <2>2, EchoFacts DEF HelloInv, HelloQueue
<1>5. ASSUME NEW d \in Client \ {c} PROVE HelloClient(d)'
  <2>1. reply'[d] = reply[d]
    BY <1>2 DEF HW!TypeOK
  <2> QED
    BY <1>1, <1>2, <2>1, HelloQuiet, EchoFacts DEF HelloInv
<1>6. HelloClient(c)'
  <2>1. reply'[c] = IF HW!IsPrint THEN "hello" ELSE "end"
    BY <1>2 DEF HW!TypeOK
  <2>2. Sent(c)' = Sent(c) /\ Taken(c)' = Taken(c)
    BY <1>2 DEF Sent, Taken, HW!Bytes
  <2>3. WireOK(c)'
    BY <1>2, <2>2 DEF HelloClient, WireOK
  <2>4. hcpc[c] \notin {"start", "prompt"}
    BY <1>1, <1>2, EchoFacts DEF HelloInv, HelloQueue
  <2>5. Answered(c)'
    BY <1>1, <1>2, <2>1, PrintIsAsked DEF HelloClient, Answered
  <2> QED
    BY <1>1, <1>2, <2>1, <2>3, <2>4, <2>5, EchoFacts DEF HelloClient
<1> QED
  BY <1>3, <1>4, <1>5, <1>6 DEF HelloInv

LEMMA HelloStep == HelloInv /\ [HW!Next]_HW!vars => HelloInv'
<1> SUFFICES ASSUME HelloInv, [HW!Next]_HW!vars PROVE HelloInv'
  OBVIOUS
<1>1. CASE UNCHANGED HW!vars
  <2>1. UNCHANGED <<hcpc, style, word, sentBytes, reply, hqueue, hspc, hcur, rBuffer, temp>>
    BY <1>1 DEF HW!vars
  <2>2. HW!TypeOK' /\ HelloQueue'
    BY <2>1 DEF HelloInv, HW!TypeOK, HelloQueue
  <2>3. ASSUME NEW c \in Client PROVE HelloClient(c)'
    BY <2>1, HelloQuiet DEF HelloInv
  <2> QED
    BY <2>2, <2>3 DEF HelloInv
<1> QED
  BY <1>1, HelloConnects, HelloTypesIt, HelloLeaves, HelloAccepts, HelloReads, HelloEnds,
     HelloAnswers DEF HW!Next, HW!ServerStep

LEMMA HelloInit == HW!Init => HelloInv
<1> SUFFICES ASSUME HW!Init PROVE HelloInv
  OBVIOUS
<1>1. << >> \in Seq(HW!Byte) /\ << >> \in Seq(Client) /\ Len(<< >>) = 0
  OBVIOUS
<1>2. 1 \in HW!Place /\ "NUL" \in HW!Byte
  BY HelloFacts DEF HW!Place, HW!Byte
<1>3. HW!TypeOK
  BY <1>1, <1>2, EchoFacts DEF HW!Init, HW!Each, HW!TypeOK
<1>4. HelloQueue
  BY <1>1 DEF HW!Init, HelloQueue
<1>5. ASSUME NEW c \in Client PROVE HelloClient(c)
  <2>1. word[c] = << >> /\ sentBytes[c] = << >> /\ reply[c] = "none" /\ hspc = "accept"
    BY <1>1 DEF HW!Init, HW!Each
  <2>2. Len(word[c]) = 0 /\ Len(word[c]) < BUFSIZ
    BY <1>1, <2>1, HelloFacts
  <2> QED
    BY <2>1, <2>2 DEF HelloClient, WireOK, Answered
<1> QED
  BY <1>3, <1>4, <1>5 DEF HelloInv

LEMMA HelloMeans == HelloInv => HW!TypeOK /\ HW!AskedIsAnswered
  BY DEF HelloInv, HelloClient, Answered, HW!AskedIsAnswered

-----------------------------------------------------------------------------
\* --- The composition.
\* The program that is used moves; the state of the others stays as it is.
LEMMA OneProgram ==
  /\ AllInit => Init /\ HW!Init /\ FE!Init
  /\ [AllNext]_allVars => [Next]_vars /\ [HW!Next]_HW!vars /\ [FE!Next]_FE!vars
  BY DEF AllInit, AllNext, allVars, vars, hwVars, HW!vars, feVars, FE!vars

AllInv == EchoInv /\ HelloInv /\ ForkInv

LEMMA AllInvariant == AllSpec => []AllInv
<1>1. AllInit => AllInv
  BY OneProgram, EchoInit, HelloInit, ForkInit DEF AllInv
<1>2. AllInv /\ [AllNext]_allVars => AllInv'
  BY OneProgram, EchoStep, HelloStep, ForkStep DEF AllInv
<1> QED
  BY <1>1, <1>2, PTL DEF AllSpec

\* Every variable of the three programs stays in its type: in particular, no
\* connection holds more than its buffer, and a line of any length stores one byte
\* behind rBuffer at most (just_study/2.hello_world/server.c:56-61).
THEOREM TypesCorrect == AllSpec => []TypesOK
<1>1. AllInv => TypesOK
  BY EchoMeans, HelloMeans DEF AllInv, ForkInv, TypesOK
<1> QED
  BY <1>1, AllInvariant, PTL

\* 8.echo_service_tcp: what a client has got, what is under way and what it has yet
\* to write make up its line, byte by byte, whatever parts reads and writes move.
THEOREM PipelineHolds == AllSpec => []PipelineIntact
<1>1. AllInv => PipelineIntact
  BY EchoMeans DEF AllInv
<1> QED
  BY <1>1, AllInvariant, PTL

\* 2.hello_world/server.c: the answer depends on the client's request alone, not on
\* what earlier requests have left in rBuffer.
THEOREM AnswersHold == AllSpec => []AskedIsAnswered
<1>1. AllInv => AskedIsAnswered
  BY HelloMeans DEF AllInv, AskedIsAnswered
<1> QED
  BY <1>1, AllInvariant, PTL

\* The forking echo server: no two processes echo the same connection.
THEOREM OneEchoerHolds == AllSpec => []OneEchoer
<1>1. AllInv => OneEchoer
  BY ForkMeans DEF AllInv, OneEchoer
<1> QED
  BY <1>1, AllInvariant, PTL

\* The forking echo server: nobody but the process that echoes a connection, and the
\* parent that is about to close it, has a descriptor of it.
THEOREM OwnershipHolds == AllSpec => []ChildOwnsConnection
<1>1. AllInv => ChildOwnsConnection
  BY ForkMeans DEF AllInv, ChildOwnsConnection
<1> QED
  BY <1>1, AllInvariant, PTL
=============================================================================
