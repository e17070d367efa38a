----------------------------- MODULE HelloWorld -----------------------------
(***************************************************************************)
(* just_study/2.hello_world: the server reads a request byte by byte, and  *)
(* answers "hello world" if it is "print".  rBuffer is global and is not   *)
(* cleared from one client to the next.  Its client ends a request with    *)
(* NUL; other users come by telnet, whose lines end in CR NL, or break off *)
(* without an end, and are as long as they like: the loop gives up on a    *)
(* line once it has stored a byte behind rBuffer, where nothing of the     *)
(* program lies (buffer is initialised, hence in another section).         *)
(* "print" has two letters here.                                           *)
(***************************************************************************)
EXTENDS Integers, Sequences

CONSTANTS
    Client,
    Nobody,     \* c_socket of a server that serves nobody
    Word,       \* what users type
    BUFSIZ      \* the size of rBuffer

Letter == {"p", "t", "x"}
Request == <<"p", "t">>
Style == {"client", "telnet", "broken"}

\* A word is what scanf's "%s" takes, so it has a letter; it may be longer than
\* the server's buffer.
HelloAssumption ==
    /\ Nobody \notin Client
    /\ BUFSIZ \in Nat /\ BUFSIZ > Len(Request)
    /\ \A w \in Word : w \in Seq(Letter) /\ Len(w) >= 1

VARIABLES
    cpc,        \* where each client is
    style,      \* which program it is
    word,       \* what its user has typed
    wire,       \* the bytes on their way to the server
    reply,      \* what it has got back: "none", "hello", or "end" for nothing
    queue,      \* connections waiting for accept
    spc,        \* where the server is
    cur,        \* the client being served
    rBuffer,    \* the bytes of its buffer, and the one behind it
    temp        \* the place of the next byte

vars == <<cpc, style, word, wire, reply, queue, spc, cur, rBuffer, temp>>

Place == 1 .. BUFSIZ + 1
Byte == Letter \union {"NUL", "CR", "NL"}

Each(v) == [c \in Client |-> v]

Init ==
    /\ cpc = Each("start") /\ style \in [Client -> Style]
    /\ word = Each(<< >>) /\ wire = Each(<< >>) /\ reply = Each("none")
    /\ queue = << >> /\ spc = "accept" /\ cur = Nobody
    /\ rBuffer = [i \in Place |-> "NUL"] /\ temp = 1
-----------------------------------------------------------------------------
Connect(c) ==
    /\ cpc[c] = "start"
    /\ cpc' = [cpc EXCEPT ![c] = "prompt"]
    /\ queue' = Append(queue, c)
    /\ UNCHANGED <<style, word, wire, reply, spc, cur, rBuffer, temp>>

\* write(c_socket, buffer, strlen(buffer) + 1), or what telnet sends.
Bytes(s, w) ==
    w \o (CASE s = "client" -> <<"NUL">> [] s = "telnet" -> <<"CR", "NL">> [] OTHER -> << >>)

\* The client's own buffer has BUFSIZ bytes too, and its users mind it.
Type(c) ==
    /\ cpc[c] = "prompt"
    /\ \E w \in Word :
        /\ style[c] = "client" => Len(w) < BUFSIZ
        /\ word' = [word EXCEPT ![c] = w]
        /\ wire' = [wire EXCEPT ![c] = Bytes(style[c], w)]
    /\ cpc' = [cpc EXCEPT ![c] = IF style[c] = "broken" THEN "gone" ELSE "read"]
    /\ UNCHANGED <<style, reply, queue, spc, cur, rBuffer, temp>>

\* read returns the answer or 0.
Read(c) ==
    /\ cpc[c] = "read" /\ reply[c] # "none"
    /\ cpc' = [cpc EXCEPT ![c] = "gone"]
    /\ UNCHANGED <<style, word, wire, reply, queue, spc, cur, rBuffer, temp>>

\* The user interrupts the client.
Kill(c) ==
    /\ cpc[c] \in {"prompt", "read"}
    /\ cpc' = [cpc EXCEPT ![c] = "gone"]
    /\ UNCHANGED <<style, word, wire, reply, queue, spc, cur, rBuffer, temp>>
-----------------------------------------------------------------------------
BugTemp == temp      \* wrong on purpose: temp is not set back
FirstPlace == 1

Accept ==
    /\ spc = "accept" /\ queue # << >>
    /\ cur' = Head(queue) /\ queue' = Tail(queue)
    /\ temp' = FirstPlace
    /\ spc' = "read"
    /\ UNCHANGED <<cpc, style, word, wire, reply, rBuffer>>

\* Wrong on purpose: NUL ends nothing.
BugEnds(b) == b = "NL"

\* Which bytes end a request.  They are in the buffer by then, as is CR, which
\* the next byte overwrites.
Ends(b) == b \in {"NL", "NUL"}

\* length == BUFSIZ, which is asked after the byte has been stored.
BugFull == FALSE     \* wrong on purpose: nobody asks
Full == temp = BUFSIZ + 1

Stops(b) == Ends(b) \/ (b # "CR" /\ Full)

\* One turn of the loop.  What is left of a line that is too long is never read.
SRead ==
    /\ spc = "read" /\ wire[cur] # << >>
    /\ LET b == Head(wire[cur]) IN
        /\ rBuffer' = [rBuffer EXCEPT ![temp] = b]
        /\ temp' = IF b = "CR" \/ Stops(b) THEN temp ELSE temp + 1
        /\ spc' = IF Stops(b) THEN "answer" ELSE "read"
    /\ wire' = [wire EXCEPT ![cur] = Tail(@)]
    /\ UNCHANGED <<cpc, style, word, reply, queue, cur>>

SEnd ==
    /\ spc = "read" /\ wire[cur] = << >> /\ cpc[cur] = "gone"
    /\ spc' = "answer"
    /\ UNCHANGED <<cpc, style, word, wire, reply, queue, cur, rBuffer, temp>>

\* strcmp(rBuffer, "print") == 0
IsPrint ==
    /\ \A i \in 1 .. Len(Request) : rBuffer[i] = Request[i]
    /\ rBuffer[Len(Request) + 1] = "NUL"

SAnswer ==
    /\ spc = "answer"
    /\ reply' = [reply EXCEPT ![cur] = IF IsPrint THEN "hello" ELSE "end"]
    /\ cur' = Nobody /\ spc' = "accept"
    /\ UNCHANGED <<cpc, style, word, wire, queue, rBuffer, temp>>

ServerStep == Accept \/ SRead \/ SEnd \/ SAnswer

Next ==
    \/ \E c \in Client : Connect(c) \/ Type(c) \/ Read(c) \/ Kill(c)
    \/ ServerStep

Spec == Init /\ [][Next]_vars

\* The server and a client that can read go on; users type when they like.
FairSpec == Spec /\ WF_vars(ServerStep) /\ \A c \in Client : WF_vars(Read(c))
-----------------------------------------------------------------------------
TypeOK ==
    /\ cpc \in [Client -> {"start", "prompt", "read", "gone"}]
    /\ style \in [Client -> Style] /\ word \in [Client -> Word \union {<< >>}]
    /\ wire \in [Client -> Seq(Byte)]
    /\ reply \in [Client -> {"none", "hello", "end"}]
    /\ queue \in Seq(Client) /\ cur \in Client \union {Nobody}
    /\ spc \in {"accept", "read", "answer"}
    /\ (cur = Nobody) <=> (spc = "accept")
    /\ rBuffer \in [Place -> Byte] /\ temp \in Place

\* The request of the program's own client decides its answer alone, whatever
\* earlier ones have left in the buffer: longer words, unfinished words, "print".
AskedIsAnswered ==
    \A c \in Client :
        style[c] = "client" /\ word[c] # << >> /\ reply[c] # "none" =>
            (reply[c] = "hello") <=> (word[c] = Request)

\* The server serves one after the other and has no timeout: whoever has sent a
\* request gets an answer or an end, unless somebody served before stays at the
\* prompt for ever.
Dawdles == cur # Nobody /\ cpc[cur] = "prompt"
RequestServed == \A c \in Client : cpc[c] = "read" ~> (cpc[c] = "gone" \/ []Dawdles)
=============================================================================
