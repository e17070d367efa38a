---------------------------- MODULE MutexThreads ----------------------------
(***************************************************************************)
(* multi_thread_example/main.c: main creates two threads that add to       *)
(* share_memory under one mutex, joins them and tears down.  The increment *)
(* is a load and a store.  The sleeps are the time between two steps.      *)
(***************************************************************************)
EXTENDS Integers, Sequences

CONSTANTS
    MAX_NUM,    \* turns of count_share_memory, each adds 1
    ROUNDS,     \* turns of plus_share_memory (the literal 10), each adds PLUS_NUM
    PLUS_NUM

ASSUME ThreadsAssumption ==
    {MAX_NUM, ROUNDS, PLUS_NUM} \subseteq Nat \ {0}

Thread == {"count", "plus"}
None == "nobody"

VARIABLES
    mutex,         \* the owner of share_memory_control, or None
    share_memory,
    pc,            \* where each thread is
    i,             \* its loop variable
    loaded,        \* what its increment has read
    log,           \* the values written to FILE_PATH
    mpc,           \* where main is
    status         \* the exit status of the process, or "running"

vars == <<mutex, share_memory, pc, i, loaded, log, mpc, status>>
threads == <<mutex, share_memory, pc, i, loaded, log>>

Turns(t) == IF t = "count" THEN MAX_NUM ELSE ROUNDS
Step(t) == IF t = "count" THEN 1 ELSE PLUS_NUM

Init ==
    /\ mutex = None
    /\ share_memory = 0
    /\ pc = [t \in Thread |-> "uncreated"]
    /\ i = [t \in Thread |-> 0]
    /\ loaded = [t \in Thread |-> 0]
    /\ log = << >>
    /\ mpc = "create_count"
    /\ status = "running"

Running == status = "running"
-----------------------------------------------------------------------------
GoTo(t, l) == pc' = [pc EXCEPT ![t] = l]

\* Wrong on purpose: the lock does not wait for the other thread.
BugLock(t) ==
    /\ Running /\ pc[t] = "lock"
    /\ mutex' = t
    /\ GoTo(t, "open")
    /\ UNCHANGED <<share_memory, i, loaded, log, mpc, status>>

Lock(t) ==
    /\ Running /\ pc[t] = "lock"
    /\ mutex = None
    /\ mutex' = t
    /\ GoTo(t, "open")
    /\ UNCHANGED <<share_memory, i, loaded, log, mpc, status>>

\* open, and dprintf of the value before the increment.
OpenLog(t) ==
    /\ Running /\ pc[t] = "open"
    /\ log' = Append(log, share_memory)
    /\ GoTo(t, "load")
    /\ UNCHANGED <<mutex, share_memory, i, loaded, mpc, status>>

\* open fails: exit(0) ends the whole process, with status 0.
OpenFails(t) ==
    /\ Running /\ pc[t] = "open"
    /\ status' = "exit_0"
    /\ UNCHANGED <<threads, mpc>>

Load(t) ==
    /\ Running /\ pc[t] = "load"
    /\ loaded' = [loaded EXCEPT ![t] = share_memory]
    /\ GoTo(t, "store")
    /\ UNCHANGED <<mutex, share_memory, i, log, mpc, status>>

Store(t) ==
    /\ Running /\ pc[t] = "store"
    /\ share_memory' = loaded[t] + Step(t)
    /\ GoTo(t, "unlock")
    /\ UNCHANGED <<mutex, i, loaded, log, mpc, status>>

\* Wrong on purpose: the unlock is forgotten.
BugUnlock(t) ==
    /\ Running /\ pc[t] = "unlock"
    /\ i' = [i EXCEPT ![t] = @ + 1]
    /\ GoTo(t, IF i[t] + 1 < Turns(t) THEN "lock" ELSE "ended")
    /\ UNCHANGED <<mutex, share_memory, loaded, log, mpc, status>>

\* Unlock and i++; the thread function ends after its last turn.
Unlock(t) ==
    /\ Running /\ pc[t] = "unlock"
    /\ mutex' = None
    /\ i' = [i EXCEPT ![t] = @ + 1]
    /\ GoTo(t, IF i[t] + 1 < Turns(t) THEN "lock" ELSE "ended")
    /\ UNCHANGED <<share_memory, loaded, log, mpc, status>>

ThreadStep(t) == Lock(t) \/ OpenLog(t) \/ OpenFails(t) \/ Load(t) \/ Store(t) \/ Unlock(t)
-----------------------------------------------------------------------------
\* pthread_create; when it fails main returns -1 ("exit_1"), which ends the process and
\* a thread that already runs.
Create(t, here, next) ==
    /\ Running /\ mpc = here
    /\ \/ GoTo(t, "lock") /\ mpc' = next /\ UNCHANGED status
       \/ status' = "exit_1" /\ UNCHANGED <<pc, mpc>>
    /\ UNCHANGED <<mutex, share_memory, i, loaded, log>>

\* Wrong on purpose: both joins wait for the first thread of the list.
BugJoin(t, here, next) ==
    /\ Running /\ mpc = here
    /\ pc["count"] = "ended"
    /\ mpc' = next
    /\ UNCHANGED <<threads, status>>

Join(t, here, next) ==
    /\ Running /\ mpc = here
    /\ pc[t] = "ended"
    /\ mpc' = next
    /\ UNCHANGED <<threads, status>>

\* pthread_detach of a thread that has been joined is undefined: it may answer
\* an error, for which main returns -1, or 0.
Detach(here, next) ==
    /\ Running /\ mpc = here
    /\ \/ mpc' = next /\ UNCHANGED status
       \/ status' = "exit_1" /\ UNCHANGED mpc
    /\ UNCHANGED threads

\* pthread_mutex_destroy fails (EBUSY) on a locked mutex.
Destroy ==
    /\ Running /\ mpc = "destroy"
    /\ mpc' = "returned"
    /\ status' = IF mutex = None THEN "exit_0" ELSE "exit_1"
    /\ UNCHANGED threads

Main ==
    \/ Create("count", "create_count", "create_plus")
    \/ Create("plus", "create_plus", "join_count")
    \/ Join("count", "join_count", "join_plus")
    \/ Join("plus", "join_plus", "detach_count")
    \/ Detach("detach_count", "detach_plus")
    \/ Detach("detach_plus", "destroy")
    \/ Destroy

Next == Main \/ \E t \in Thread : ThreadStep(t)

Spec == Init /\ [][Next]_vars

\* The scheduler runs every thread that can run, and joins every thread that
\* has ended.  Nothing says that the mutex is handed over fairly, and
\* count_share_memory asks for it again at once.
FairSpec == Spec /\ WF_vars(Main) /\ \A t \in Thread : WF_vars(ThreadStep(t))
-----------------------------------------------------------------------------
Inside(t) == pc[t] \in {"open", "load", "store", "unlock"}

TypeOK ==
    /\ mutex \in Thread \union {None}
    /\ share_memory \in Nat
    /\ pc \in [Thread -> {"uncreated", "lock", "open", "load", "store", "unlock", "ended"}]
    /\ i \in [Thread -> Nat]
    /\ loaded \in [Thread -> Nat]
    /\ log \in Seq(Nat)
    /\ mpc \in {"create_count", "create_plus", "join_count", "join_plus",
                "detach_count", "detach_plus", "destroy", "returned"}
    /\ status \in {"running", "exit_0", "exit_1"}

\* The mutex does its work: the thread inside owns it.
MutualExclusion == \A t \in Thread : Inside(t) <=> mutex = t

\* The additions a thread has made.
Done(t) == i[t] + (IF pc[t] = "unlock" THEN 1 ELSE 0)

\* No addition is lost or made twice, at any moment.
SumOK == share_memory = Done("count") + PLUS_NUM * Done("plus")

\* No turn logs what an earlier one has logged: the values in the file rise.
LogRises == \A j \in 1 .. Len(log) - 1 : log[j] < log[j + 1]

\* When main has joined both threads the result is complete, whichever order
\* they took turns in, and the mutex is free to be destroyed.
JoinedResult ==
    mpc \in {"detach_count", "detach_plus", "destroy", "returned"} =>
        /\ share_memory = MAX_NUM + ROUNDS * PLUS_NUM
        /\ Len(log) = MAX_NUM + ROUNDS
        /\ mutex = None

\* The program ends by itself, although the plus thread may be kept waiting
\* for as long as the count thread has turns left.
Terminates == <>(status # "running")
=============================================================================
