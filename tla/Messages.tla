------------------------------ MODULE Messages ------------------------------
(***************************************************************************)
(* The programs that carry messages from senders to receivers, side by     *)
(* side, because they promise the same: what Delivery specifies.           *)
(* `program` says which of them is used; the others do not move.           *)
(***************************************************************************)
EXTENDS MessageQueue

CONSTANTS
    Client,         \* the senders that use the named pipe or the socket
    SIZE, QUEUE,    \* of UnixSocket
    Plain           \* bound: the senders that ask for type 1 only

VARIABLES
    program,
    careful, path, data, ppc, at, written, pgot,                     \* NamedPipe
    type, bound, upc, dest, sent, wire, waiting, peer, buf, first    \* UnixSocket

NP == INSTANCE NamedPipe WITH
        Sender <- Client, Reader <- Receiver, None <- Nothing, pc <- ppc, got <- pgot
US == INSTANCE UnixSocket WITH
        Server <- Receiver, Nobody <- Nothing, queue <- waiting

ASSUME MessagesAssumption ==
    /\ Client \subseteq Sender
    /\ NP!PipeAssumption /\ US!UnixAssumption

mqVars == <<kind, exists, queue, pc, mtype, log, got>>
npVars == <<careful, path, data, ppc, at, written, pgot>>
usVars == <<type, bound, upc, dest, sent, wire, waiting, peer, buf, first>>
allVars == <<program, mqVars, npVars, usVars>>

Pipe == program = "named pipe"
Queue == program = "message queue"
Socket == program = "unix socket"

\* The choices of the programs that are not used are fixed.
AllInit ==
    /\ program \in {"named pipe", "message queue", "unix socket"}
    /\ Init /\ (Queue \/ kind = "sysv")
    /\ NP!Init /\ (Pipe \/ careful)
    /\ US!Init /\ (Socket \/ \A p \in US!Process : type[p] = "stream")

AllNext ==
    \/ Queue /\ Next /\ (\A s \in Plain : mtype'[s] = 1) /\ UNCHANGED <<program, npVars, usVars>>
    \/ Pipe /\ NP!Next /\ UNCHANGED <<program, mqVars, usVars>>
    \/ Socket /\ US!Next /\ UNCHANGED <<program, mqVars, npVars>>

AllSpec == AllInit /\ [][AllNext]_allVars

\* Fairness as in the programs' own FairSpec.
AllRun(p) ==
    \/ Queue /\ Run(p) /\ UNCHANGED <<program, npVars, usVars>>
    \/ Pipe /\ p \in NP!Process /\ NP!Run(p) /\ UNCHANGED <<program, mqVars, usVars>>
    \/ Socket /\ p \in US!Process /\ US!Run(p) /\ UNCHANGED <<program, mqVars, npVars>>

AllFairSpec == AllSpec /\ \A p \in Process : WF_allVars(AllRun(p))
-----------------------------------------------------------------------------
TypesOK == TypeOK /\ NP!TypeOK /\ US!TypeOK
SendersComeThrough == NP!SendersComeThrough
Delivered == NP!Delivered
FirstIsHeard == US!FirstIsHeard

\* No receiver waits beside the message it asks for, and no socket server is left
\* in a receive loop by clients that have ended.
NobodyStarves == ReceiverServed /\ US!ServerEnds

\* What was sent, and what each receiver has, by the program that is used.
Sent == Logged \union NP!Wrote \union US!Ended
Got == [r \in Receiver |-> IF Queue THEN got[r]
                          ELSE IF Pipe THEN NP!Printed[r] ELSE US!Printed[r]]

\* A message reaches one receiver at most, and nobody gets what was not sent.
D == INSTANCE Delivery WITH sent <- Sent, got <- Got
DeliverySpec == D!Spec
=============================================================================
