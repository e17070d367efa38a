------------------------------ MODULE Servers -------------------------------
(***************************************************************************)
(* The three servers on stream sockets: the echo server, the hello world   *)
(* server, which like it serves one connection after the other, and the    *)
(* echo server that forks for each connection.  `program` says which one   *)
(* runs; the others do not move.                                           *)
(***************************************************************************)
EXTENDS EchoTcp

CONSTANTS
    Word, BUFSIZ,      \* of HelloWorld
    Process, Root      \* of ForkEcho

VARIABLES
    program,
    hcpc, style, word, sentBytes, reply, hqueue, hspc, hcur, rBuffer, temp,    \* HelloWorld
    pc, c_socket, listening, fds, fqueue, fcpc                                 \* ForkEcho

HW == INSTANCE HelloWorld WITH
        Nobody <- NoClient, cpc <- hcpc, wire <- sentBytes, queue <- hqueue,
        spc <- hspc, cur <- hcur
FE == INSTANCE ForkEcho WITH NoConn <- NoClient, queue <- fqueue, cpc <- fcpc

ASSUME ServersAssumption == HW!HelloAssumption /\ FE!ForkAssumption

hwVars == <<hcpc, style, word, sentBytes, reply, hqueue, hspc, hcur, rBuffer, temp>>
feVars == <<pc, c_socket, listening, fds, fqueue, fcpc>>
allVars == <<program, vars, hwVars, feVars>>

Echo == program = "echo"
Hello == program = "hello world"
ForkEcho == program = "fork echo"

\* The choices of the programs that are not used are fixed.
AllInit ==
    /\ program \in {"echo", "hello world", "fork echo"}
    /\ Init
    /\ HW!Init /\ (Hello \/ \A c \in Client : style[c] = "client")
    /\ FE!Init

AllNext ==
    \/ Echo /\ Next /\ UNCHANGED <<program, hwVars, feVars>>
    \/ Hello /\ HW!Next /\ UNCHANGED <<program, vars, feVars>>
    \/ ForkEcho /\ FE!Next /\ UNCHANGED <<program, vars, hwVars>>

AllSpec == AllInit /\ [][AllNext]_allVars

\* Fairness as in the programs' own FairSpec.
AllServer ==
    \/ Echo /\ ServerStep /\ UNCHANGED <<program, hwVars, feVars>>
    \/ Hello /\ HW!ServerStep /\ UNCHANGED <<program, vars, feVars>>
AllClient(c) ==
    \/ Echo /\ ClientStep(c) /\ UNCHANGED <<program, hwVars, feVars>>
    \/ Hello /\ HW!Read(c) /\ UNCHANGED <<program, vars, feVars>>
AllProcess(p) == ForkEcho /\ FE!ProcessStep(p) /\ UNCHANGED <<program, vars, hwVars>>

AllFairSpec ==
    /\ AllSpec /\ WF_allVars(AllServer)
    /\ \A c \in Client : WF_allVars(AllClient(c))
    /\ \A p \in Process : WF_allVars(AllProcess(p))
-----------------------------------------------------------------------------
TypesOK == TypeOK /\ HW!TypeOK /\ FE!TypeOK
AskedIsAnswered == HW!AskedIsAnswered
OneEchoer == FE!OneEchoer
ChildOwnsConnection == FE!ChildOwnsConnection
EchoersHaveClients == FE!EchoersHaveClients

RequestServed == HW!RequestServed
QueueMoves == FE!QueueMoves
=============================================================================
