---------------------------- MODULE AnonMonitor -----------------------------
(***************************************************************************)
(* mmap_example_2/main.c -a: a parent forks FORK_NUM children that each    *)
(* leave a pid and a message in anonymous shared memory, reports FORK_NUM  *)
(* changes of it, and waits for the children.  Nothing is locked.          *)
(***************************************************************************)
EXTENDS Integers, FiniteSets

CONSTANT FORK_NUM

AnonAssumption == FORK_NUM \in Nat \ {0}

Child == 0 .. FORK_NUM - 1
None == -1        \* the pid and the message of zeroed memory

VARIABLES
    spaced,    \* whether the sleeps keep the children apart; never changes
    mem,       \* pid, and Message: whose it is and whether snprintf is through
    cpc,       \* where each child is
    mpc,       \* where the parent is
    i,         \* its loop variable, in both loops
    local, n,  \* anon_monitor's copy and count
    status,    \* how the parent ended, or "running"
    writes     \* history: the changes of mem

vars == <<spaced, mem, cpc, mpc, i, local, n, status, writes>>

Zero == [pid |-> None, Message |-> None, whole |-> TRUE]

Init ==
    /\ spaced \in BOOLEAN
    /\ mem = Zero
    /\ cpc = [c \in Child |-> "unborn"]
    /\ mpc = "fork" /\ i = 0
    /\ local = Zero /\ n = 0
    /\ status = "running"
    /\ writes = 0

GoTo(c, l) == cpc' = [cpc EXCEPT ![c] = l]

Writing == {"message", "finish"}
-----------------------------------------------------------------------------
\* One turn of the fork loop of do_anon.
Fork ==
    /\ mpc = "fork" /\ status = "running"
    /\ GoTo(i, "sleep")
    /\ IF i + 1 < FORK_NUM THEN i' = i + 1 /\ UNCHANGED mpc
                           ELSE i' = 0 /\ mpc' = "watch"
    /\ UNCHANGED <<spaced, mem, local, n, status, writes>>

\* fork fails: the parent leaves, the children it has go on.
ForkFails ==
    /\ mpc = "fork" /\ status = "running"
    /\ mpc' = "gone" /\ status' = "fork_failed"
    /\ UNCHANGED <<spaced, mem, cpc, i, local, n, writes>>

BugDiffers == local.pid # mem.pid       \* wrong on purpose: compares the pid alone

Differs == local # mem

\* anon_monitor: memcmp, the printf of the shared memory, ...
Notice ==
    /\ mpc = "watch" /\ Differs
    /\ mpc' = "copy"
    /\ UNCHANGED <<spaced, mem, cpc, i, local, n, status, writes>>

BugLast == n = FORK_NUM                 \* wrong on purpose: one report too many

Last == n + 1 = FORK_NUM

\* ... memcpy, n++ and the end of the loop.
Copy ==
    /\ mpc = "copy"
    /\ local' = mem /\ n' = n + 1
    /\ mpc' = IF Last THEN "wait" ELSE "watch"
    /\ UNCHANGED <<spaced, mem, cpc, i, status, writes>>

BugWaits == i <= FORK_NUM               \* wrong on purpose: i <= FORK_NUM
WaitsLeft == i < FORK_NUM

\* wait(NULL) reaps a child that has ended, any one, or sleeps; when no child
\* is left to wait for it answers ECHILD and the parent leaves.
Wait ==
    /\ mpc = "wait" /\ WaitsLeft
    /\ IF \A c \in Child : cpc[c] \in {"unborn", "reaped"}
         THEN /\ mpc' = "gone" /\ status' = "wait_failed"
              /\ UNCHANGED <<cpc, i>>
         ELSE /\ \E c \in Child : cpc[c] = "ended" /\ GoTo(c, "reaped")
              /\ i' = i + 1
              /\ UNCHANGED <<mpc, status>>
    /\ UNCHANGED <<spaced, mem, local, n, writes>>

End ==
    /\ mpc = "wait" /\ ~WaitsLeft
    /\ mpc' = "gone" /\ status' = "ok"
    /\ UNCHANGED <<spaced, mem, cpc, i, local, n, writes>>
-----------------------------------------------------------------------------
\* What the different sleeps of the children are for, when spaced: the parent
\* has reported all that the others wrote.
MonitorRested ==
    /\ \A x \in Child : cpc[x] \notin Writing
    /\ mpc \in {"wait", "gone"} \/ (mpc = "watch" /\ local = mem)

\* anon_send_data: the sleep is over, the pid is written, ...
SendPid(c) ==
    /\ cpc[c] = "sleep"
    /\ spaced => MonitorRested
    /\ mem' = [mem EXCEPT !.pid = c] /\ writes' = writes + 1
    /\ GoTo(c, "message")
    /\ UNCHANGED <<spaced, mpc, i, local, n, status>>

\* ... snprintf begins to write the text ...
SendMessage(c) ==
    /\ cpc[c] = "message"
    /\ mem' = [mem EXCEPT !.Message = c, !.whole = FALSE] /\ writes' = writes + 1
    /\ GoTo(c, "finish")
    /\ UNCHANGED <<spaced, mpc, i, local, n, status>>

\* ... and ends it; the child unmaps the memory and returns.
SendFinish(c) ==
    /\ cpc[c] = "finish"
    /\ mem' = [mem EXCEPT !.Message = c, !.whole = TRUE] /\ writes' = writes + 1
    /\ GoTo(c, "ended")
    /\ UNCHANGED <<spaced, mpc, i, local, n, status>>

Parent == Fork \/ ForkFails \/ Notice \/ Copy \/ Wait \/ End
Send(c) == SendPid(c) \/ SendMessage(c) \/ SendFinish(c)

Next == Parent \/ \E c \in Child : Send(c)

Spec == Init /\ [][Next]_vars
FairSpec == Spec /\ WF_vars(Parent) /\ \A c \in Child : WF_vars(Send(c))
-----------------------------------------------------------------------------
Contents == [pid : Child \union {None}, Message : Child \union {None}, whole : BOOLEAN]

TypeOK ==
    /\ spaced \in BOOLEAN
    /\ mem \in Contents /\ local \in Contents
    /\ cpc \in [Child -> Writing \union {"unborn", "sleep", "ended", "reaped"}]
    /\ mpc \in {"fork", "watch", "copy", "wait", "gone"}
    /\ i \in 0 .. FORK_NUM /\ n \in 0 .. FORK_NUM
    /\ status \in {"running", "fork_failed", "wait_failed", "ok"}
    /\ writes \in Nat

\* The parent waits as often as it has forked, although it starts to wait
\* whenever FORK_NUM changes were seen, which may be the changes of one child
\* or two: no wait answers ECHILD, and when it ends well it has reaped them all.
\* When a fork fails it leaves: behind it stay just the children it has forked, and
\* it has waited for none.
NoZombies ==
    /\ status # "wait_failed"
    /\ status = "ok" => \A c \in Child : cpc[c] = "reaped"
    /\ status = "fork_failed" =>
          \A c \in Child : cpc[c] # "reaped" /\ (cpc[c] = "unborn" <=> i <= c)

\* Every report is owed to a write of its own.
ReportsAreEarned == n <= writes

\* The parent ends, or rests on a copy that equals the memory, every child a
\* zombie: then the writes of several children went into one report and it
\* polls for ever.  The sleeps prevent that: if no child writes before the
\* parent has seen what the child before it wrote, FORK_NUM reports are reached.
EndsOrStarves ==
    <>[](\/ status # "running"
         \/ /\ ~spaced
            /\ mpc = "watch" /\ local = mem
            /\ \A c \in Child : cpc[c] = "ended")
=============================================================================
