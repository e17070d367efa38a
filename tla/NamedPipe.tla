----------------------------- MODULE NamedPipe ------------------------------
(***************************************************************************)
(* namePipe_example/main.c: `main s` replaces the fifo at PATH_NAME by a   *)
(* new one and writes one message into it, `main r` reads one message.     *)
(* A file is named after the sender that made it and its type: a fifo of   *)
(* mkfifo, or the regular file that open(O_CREAT) makes when another       *)
(* sender has unlinked the fifo in between.  A process that is attached to *)
(* a file keeps it alive after its name is gone.                           *)
(***************************************************************************)
EXTENDS Integers, Sequences, FiniteSets

CONSTANTS
    Sender, Reader,   \* the processes, each runs once
    None              \* no file, and no message

PipeAssumption ==
    /\ Sender \intersect Reader = {}
    /\ None \notin Sender /\ None \notin Sender \X {"fifo", "regular"}

VARIABLES
    careful,   \* whether the users keep to Proper; never changes
    path,      \* the file at PATH_NAME
    data,      \* the messages in each file
    pc,        \* where each process is
    at,        \* the file it has open, or waits to have open
    written,   \* history: the senders whose write has succeeded
    got        \* history: what each reader has printed

vars == <<careful, path, data, pc, at, written, got>>

Process == Sender \union Reader
File == Sender \X {"fifo", "regular"}
IsFifo(f) == f[2] = "fifo"

Init ==
    /\ careful \in BOOLEAN
    /\ path = None
    /\ data = [f \in File |-> << >>]
    /\ pc = [p \in Process |-> "start"]
    /\ at = [p \in Process |-> None]
    /\ written = {}
    /\ got = [r \in Reader |-> None]

GoTo(p, l) == pc' = [pc EXCEPT ![p] = l]

\* The processes that have f open or are in open(f).
Attached(f, P) == {p \in P : at[p] = f}

\* open of the file at PATH_NAME.  A fifo lets a process in when there is one
\* at its other end, and then lets in all who wait there.
Meet(p, partners) ==
    LET there == Attached(path, partners)
        waits == IsFifo(path) /\ there = {}
    IN  /\ at' = [at EXCEPT ![p] = path]
        /\ pc' = [q \in Process |->
                    IF q = p THEN IF waits THEN "opening" ELSE "opened"
                    ELSE IF q \in there /\ pc[q] = "opening" THEN "opened" ELSE pc[q]]

\* p closes its file; the messages in a fifo go when nobody has it open.
Leave(p, l) ==
    LET f == at[p] IN
    /\ at' = [at EXCEPT ![p] = None]
    /\ data' = IF f # None /\ IsFifo(f) /\ Attached(f, Process) = {p}
                 THEN [data EXCEPT ![f] = << >>] ELSE data
    /\ GoTo(p, l)
-----------------------------------------------------------------------------
\* Careful users run one sender at a time and interrupt nobody (an assumption
\* on them).
Proper == \A s \in Sender : pc[s] \in {"start", "sent", "failed"}

\* unlink, whether there is something to unlink or not.
SUnlink(s) ==
    /\ pc[s] = "start"
    /\ careful => Proper
    /\ path' = None
    /\ GoTo(s, "mkfifo")
    /\ UNCHANGED <<careful, data, at, written, got>>

\* mkfifo; it fails (EEXIST) when another sender was faster.
SMkfifo(s) ==
    /\ pc[s] = "mkfifo"
    /\ IF path = None THEN path' = <<s, "fifo">> /\ GoTo(s, "open")
                      ELSE GoTo(s, "failed") /\ UNCHANGED path
    /\ UNCHANGED <<careful, data, at, written, got>>

\* open(O_CREAT | O_WRONLY) of what is at PATH_NAME by now.
SOpen(s) ==
    /\ pc[s] = "open"
    /\ IF path = None
         THEN /\ path' = <<s, "regular">>
              /\ at' = [at EXCEPT ![s] = path']
              /\ GoTo(s, "opened")
         ELSE Meet(s, Reader) /\ UNCHANGED path
    /\ UNCHANGED <<careful, data, written, got>>

\* write: a regular file is overwritten, a fifo takes one message more, and a
\* fifo without readers raises SIGPIPE.
SWrite(s) ==
    LET f == at[s] IN
    /\ pc[s] = "opened"
    /\ \/ ~IsFifo(f) /\ data' = [data EXCEPT ![f] = <<s>>]
       \/ /\ IsFifo(f) /\ Attached(f, Reader) # {}
          /\ data' = [data EXCEPT ![f] = Append(@, s)]
    /\ written' = written \union {s}
    /\ GoTo(s, "wrote")
    /\ UNCHANGED <<careful, path, at, got>>

SPipe(s) ==
    /\ pc[s] = "opened"
    /\ IsFifo(at[s]) /\ Attached(at[s], Reader) = {}
    /\ Leave(s, "failed")
    /\ UNCHANGED <<careful, path, written, got>>

SClose(s) ==
    /\ pc[s] = "wrote"
    /\ Leave(s, "sent")
    /\ UNCHANGED <<careful, path, written, got>>
-----------------------------------------------------------------------------
\* open(O_RDONLY); its result is not looked at, so read(-1) fails.
ROpen(r) ==
    /\ pc[r] = "start"
    /\ IF path = None THEN GoTo(r, "failed") /\ UNCHANGED at
                      ELSE Meet(r, Sender)
    /\ UNCHANGED <<careful, path, data, written, got>>

\* Wrong on purpose: read does not wait for a writer, or leaves the message.
BugAtEnd(f) == data[f] = << >>
BugTaken(f) == data[f]

\* read returns 0: no message, and nobody who could write one.
AtEnd(f) == data[f] = << >> /\ (~IsFifo(f) \/ Attached(f, Sender) = {})

\* What a read leaves: a fifo gives its first message away.
Taken(f) == IF IsFifo(f) THEN Tail(data[f]) ELSE data[f]

RRead(r) ==
    LET f == at[r] IN
    /\ pc[r] = "opened"
    /\ \/ AtEnd(f) /\ UNCHANGED <<data, got>>
       \/ /\ data[f] # << >>
          /\ got' = [got EXCEPT ![r] = Head(data[f])]
          /\ data' = [data EXCEPT ![f] = Taken(f)]
    /\ GoTo(r, "read")
    /\ UNCHANGED <<careful, path, at, written>>

\* Wrong on purpose: the reader takes the name away.
BugRClose(r) ==
    /\ pc[r] = "read"
    /\ Leave(r, "done") /\ path' = None
    /\ UNCHANGED <<careful, written, got>>

RClose(r) ==
    /\ pc[r] = "read"
    /\ Leave(r, "done")
    /\ UNCHANGED <<careful, path, written, got>>

\* The user interrupts a process.
Kill(p) ==
    /\ ~careful
    /\ pc[p] \notin {"start", "sent", "done", "failed"}
    /\ Leave(p, "failed")
    /\ UNCHANGED <<careful, path, written, got>>

Send(s) == SMkfifo(s) \/ SOpen(s) \/ SWrite(s) \/ SPipe(s) \/ SClose(s)
Receive(r) == RRead(r) \/ RClose(r)

Next ==
    \/ \E s \in Sender : SUnlink(s) \/ Send(s)
    \/ \E r \in Reader : ROpen(r) \/ Receive(r)
    \/ \E p \in Process : Kill(p)

Spec == Init /\ [][Next]_vars

\* Running processes go on; nobody has to start one.  Run(p) is a step of p.
Run(p) == IF p \in Sender THEN Send(p) ELSE Receive(p)
FairSpec == Spec /\ \A p \in Process : WF_vars(Run(p))
-----------------------------------------------------------------------------
TypeOK ==
    /\ careful \in BOOLEAN
    /\ path \in File \union {None}
    /\ data \in [File -> Seq(Sender)]
    /\ pc \in [Process -> {"start", "mkfifo", "open", "opening", "opened", "wrote", "read",
                           "sent", "done", "failed"}]
    /\ at \in [Process -> File \union {None}]
    /\ \A p \in Process :
          at[p] # None <=> pc[p] \in {"opening", "opened", "wrote", "read"}
    /\ written \subseteq Sender
    /\ got \in [Reader -> Sender \union {None}]

\* Senders who take turns come through: no call of theirs fails, and what they open
\* is the fifo that has the name, not a regular file and not another sender's, so
\* that the next reader finds them.  Readers may come too late and sleep at a fifo
\* whose name a later sender takes away (for ever, then), or share one.
SendersComeThrough ==
    careful => \A s \in Sender :
        pc[s] # "failed" /\ (at[s] # None => at[s] = path /\ path = <<s, "fifo">>)

\* What the readers have of senders who do not overlap, as Delivery sees it.  (Of
\* other users nothing is claimed: to the queue they do nothing.)
Wrote == IF careful THEN written ELSE {}
Printed == IF careful THEN got ELSE [r \in Reader |-> None]

\* The messages of senders who do not overlap are not lost: what a sender has
\* written a reader gets, although the next sender takes the name away.
Delivered ==
    careful => \A s \in Sender : (s \in written) ~> (\E r \in Reader : got[r] = s)
=============================================================================
