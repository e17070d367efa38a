---------------------------- MODULE MessageQueue ----------------------------
(***************************************************************************)
(* One-shot senders and receivers of a kernel message queue, of one kind:  *)
(*   "sysv"   sysv_example/main.c       s mtype | r mtype                  *)
(*   "posix"  posix_mq_example/main.c   s | r                              *)
(* Each sender's text is the same; here a message carries its sender.  The *)
(* System V queue is created with mode 0, so its users are privileged.     *)
(***************************************************************************)
EXTENDS Integers, SequencesExt

CONSTANTS
    Sender, Receiver,   \* the processes, each runs once
    Nothing,            \* no message
    Mtype,              \* the values strtol may give to mtype ("posix": only 1)
    Capacity            \* messages the queue holds

ASSUME QueueAssumption ==
    /\ Sender \intersect Receiver = {} /\ Nothing \notin Sender
    /\ Mtype \subseteq Int /\ 1 \in Mtype
    /\ Capacity \in Nat \ {0}

VARIABLES
    kind,      \* "sysv" or "posix"; never changes
    exists,    \* the queue has been created
    queue,     \* its messages, in the order they came
    pc,        \* where each process is
    mtype,     \* its second argument
    log,       \* history: the senders in the order their messages came
    got        \* history: what each receiver has printed

vars == <<kind, exists, queue, pc, mtype, log, got>>

Process == Sender \union Receiver

Init ==
    /\ kind \in {"sysv", "posix"}
    /\ exists = FALSE
    /\ queue = << >>
    /\ pc = [p \in Process |-> "start"]
    /\ mtype = [p \in Process |-> 1]
    /\ log = << >>
    /\ got = [r \in Receiver |-> Nothing]

GoTo(p, l) == pc' = [pc EXCEPT ![p] = l]
-----------------------------------------------------------------------------
\* main up to msgsnd, msgrcv, mq_send or mq_receive.  msgget creates the queue
\* for both sides, mq_open only for the receiver.  Any call of it may fail.
Creates(p) == kind = "sysv" \/ p \in Receiver

Open(p, t) ==
    /\ pc[p] = "start"
    /\ exists \/ Creates(p)
    /\ kind = "posix" => t = 1
    /\ exists' = TRUE
    /\ mtype' = [mtype EXCEPT ![p] = t]
    /\ GoTo(p, "call")
    /\ UNCHANGED <<kind, queue, log, got>>

OpenFails(p) ==
    /\ pc[p] = "start"
    /\ GoTo(p, "failed")
    /\ UNCHANGED <<kind, exists, queue, mtype, log, got>>

BugRoom == Len(queue) <= Capacity    \* wrong on purpose: one message too many
Room == Len(queue) < Capacity

\* msgsnd or mq_send, at once or when there is room.
Put(s) ==
    /\ pc[s] = "call" /\ mtype[s] > 0
    /\ Room
    /\ queue' = Append(queue, s)
    /\ log' = Append(log, s)
    /\ GoTo(s, "done")
    /\ UNCHANGED <<kind, exists, mtype, got>>

\* msgsnd refuses a type that is not positive.
PutFails(s) ==
    /\ pc[s] = "call" /\ mtype[s] <= 0
    /\ GoTo(s, "failed")
    /\ UNCHANGED <<kind, exists, queue, mtype, log, got>>

\* msgrcv: 0 asks for any type, t > 0 for type t, t < 0 for types up to -t.
Asked(t, type) ==
    \/ kind = "posix" \/ t = 0
    \/ t > 0 /\ type = t
    \/ t < 0 /\ type <= -t

Matching(t) == {k \in 1 .. Len(queue) : Asked(t, mtype[queue[k]])}

\* Wrong on purpose: the receiver takes the newest.
BugTakesLast(t, k) == k \in Matching(t) /\ \A j \in Matching(t) : j <= k

\* ... of which it takes the oldest, for t < 0 the oldest of the lowest type.
Takes(t, k) ==
    /\ k \in Matching(t)
    /\ \A j \in Matching(t) :
          IF kind = "sysv" /\ t < 0
            THEN \/ mtype[queue[k]] < mtype[queue[j]]
                 \/ mtype[queue[k]] = mtype[queue[j]] /\ k <= j
            ELSE k <= j

Without(k) == RemoveAt(queue, k)

Take(r) ==
    /\ pc[r] = "call"
    /\ \E k \in 1 .. Len(queue) :
        /\ Takes(mtype[r], k)
        /\ got' = [got EXCEPT ![r] = queue[k]]
        /\ queue' = Without(k)
    /\ GoTo(r, "done")
    /\ UNCHANGED <<kind, exists, mtype, log>>

\* The user interrupts a process.
Kill(p) ==
    /\ pc[p] = "call"
    /\ GoTo(p, "failed")
    /\ UNCHANGED <<kind, exists, queue, mtype, log, got>>

Next ==
    \/ \E s \in Sender : Put(s) \/ PutFails(s)
    \/ \E r \in Receiver : Take(r)
    \/ \E p \in Process : (\E t \in Mtype : Open(p, t)) \/ OpenFails(p) \/ Kill(p)

Spec == Init /\ [][Next]_vars

\* The kernel lets a waiting process in when it can go on.
Run(p) == IF p \in Sender THEN Put(p) \/ PutFails(p) ELSE Take(p)
FairSpec == Spec /\ \A p \in Process : WF_vars(Run(p))
-----------------------------------------------------------------------------
Received == {got[r] : r \in Receiver} \ {Nothing}
Logged == ToSet(log)

TypeOK ==
    /\ kind \in {"sysv", "posix"}
    /\ exists \in BOOLEAN
    /\ queue \in Seq(Sender) /\ Len(queue) <= Capacity
    /\ pc \in [Process -> {"start", "call", "done", "failed"}]
    /\ mtype \in [Process -> Mtype]
    /\ log \in Seq(Sender)
    /\ got \in [Receiver -> Sender \union {Nothing}]

\* Nothing is lost: what was sent is in the queue or has been received,
\* whoever is interrupted or refused meanwhile, and not both.
NothingLost ==
    /\ Logged = ToSet(queue) \union Received
    /\ ToSet(queue) \intersect Received = {}

\* Messages of one type are received in the order they were sent, whatever
\* mixture of types the receivers ask for.
TypesInOrder ==
    \A j, k \in 1 .. Len(log) :
        j < k /\ (kind = "posix" \/ mtype[log[j]] = mtype[log[k]]) /\ log[k] \in Received
            => log[j] \in Received

\* A receiver is not left waiting beside a message it asks for, wherever in the
\* queue it is: it is served, or others have taken all such messages.
ReceiverServed ==
    \A r \in Receiver :
        (pc[r] = "call" /\ Matching(mtype[r]) # {})
            ~> (pc[r] # "call" \/ Matching(mtype[r]) = {})
=============================================================================
