-------------------------- MODULE UnnamedSemaphore --------------------------
(***************************************************************************)
(* `main unnamed_posix monitor|get|put` of semaphore_example/main.c: a     *)
(* semaphore and two integers in shared memory.  The monitor creates and   *)
(* initialises them and reports what it sees change; get waits on the      *)
(* semaphore and writes; put posts.  Every access to the shared memory is  *)
(* a step of its own; memcmp, the arguments of printf and memcpy each read *)
(* the structure at one instant.                                           *)
(*                                                                         *)
(* sem and waiters are what glibc keeps in the sem_t (the monitor compares *)
(* its bytes): the value, and the number of sleepers, which sem_post looks *)
(* at to decide whether to wake one and which sem_init resets.             *)
(***************************************************************************)
EXTENDS Integers, FiniteSets

CONSTANTS
    Getter, Putter,  \* the `get` and the `put` processes, each runs once
    NoPid,           \* the pid of zeroed memory
    SEM_NUM,         \* the value of sem_init (5)
    REPORTS,         \* the monitor stops after this many reports (5)
    MaxRuns          \* bound: how often the monitor is started

ASSUME UnnamedAssumption ==
    /\ SEM_NUM \in Nat \ {0} /\ REPORTS \in Nat \ {0} /\ MaxRuns \in Nat
    /\ NoPid \notin Getter
    /\ IsFiniteSet(Getter) /\ IsFiniteSet(Putter)

VARIABLES
    shm,      \* the shared memory object: "none", "empty" (created, size 0), "sized"
    mem,      \* its content
    mpc,      \* where the monitor is
    local,    \* the monitor's copy of the structure
    n,        \* the monitor's count of reports
    runs,     \* bound: the starts of the monitor so far
    gpc,      \* where each get is
    loaded,   \* what `info->count += 1` of each get has read
    ppc,      \* where each put is
    printed,  \* history: the pid and counter of the last report
    stored,   \* history: the gets that have stored their count
    crowded,  \* history: two gets were past sem_wait and not done at the same time
    changes   \* history: the writes to mem since the monitor's sem_init

monitor == <<mpc, local, n, runs, printed>>
gets == <<gpc, loaded, stored, crowded>>
vars == <<shm, mem, monitor, gets, ppc, changes>>

Zero == [sem |-> 0, waiters |-> 0, pid |-> NoPid, count |-> 0]

Init ==
    /\ shm = "none" /\ mem = Zero
    /\ mpc = "off" /\ local = Zero /\ n = 0 /\ runs = 0
    /\ printed = [pid |-> NoPid, count |-> 0]
    /\ gpc = [g \in Getter |-> "start"] /\ loaded = [g \in Getter |-> 0]
    /\ ppc = [p \in Putter |-> "start"]
    /\ stored = {} /\ crowded = FALSE /\ changes = 0

Write(new) == mem' = new /\ changes' = changes + 1
-----------------------------------------------------------------------------
\* posix_unnamed_monitor: shm_open(O_CREAT) finds an old object as it was left.
MOpen ==
    /\ mpc = "off" /\ runs < MaxRuns
    /\ mpc' = "opened" /\ runs' = runs + 1
    /\ shm' = IF shm = "none" THEN "empty" ELSE shm
    /\ UNCHANGED <<mem, local, n, printed, gets, ppc, changes>>

\* ftruncate, mmap and the memset of the local copy.
MSize ==
    /\ mpc = "opened"
    /\ mpc' = "mapped" /\ shm' = "sized"
    /\ local' = Zero /\ n' = 0
    /\ UNCHANGED <<mem, runs, printed, gets, ppc, changes>>

\* Wrong on purpose: clears the structure before sem_init, as it does its copy.
BugMInit ==
    /\ mpc = "mapped"
    /\ mpc' = "watch"
    /\ mem' = [Zero EXCEPT !.sem = SEM_NUM]
    /\ changes' = 1
    /\ UNCHANGED <<shm, local, n, runs, printed, gets, ppc>>

\* sem_init, whatever state the semaphore is in and whoever sleeps on it.
MInit ==
    /\ mpc = "mapped"
    /\ mpc' = "watch"
    /\ mem' = [mem EXCEPT !.sem = SEM_NUM, !.waiters = 0]
    /\ changes' = 1
    /\ UNCHANGED <<shm, local, n, runs, printed, gets, ppc>>

BugDiffers == local.pid # mem.pid        \* wrong on purpose: compares the pid alone

\* After the usleep, memcmp finds a difference somewhere in the structure.
Differs == local # mem

MNotice ==
    /\ mpc = "watch" /\ Differs
    /\ mpc' = "print"
    /\ UNCHANGED <<shm, mem, local, n, runs, printed, gets, ppc, changes>>

\* printf reads pid and count in the shared memory, not in a copy.
MPrint ==
    /\ mpc = "print"
    /\ mpc' = "copy"
    /\ printed' = [pid |-> mem.pid, count |-> mem.count]
    /\ UNCHANGED <<shm, mem, local, n, runs, gets, ppc, changes>>

LastReport == n + 1 = REPORTS

\* sem_getvalue, memcpy, n++ and, after the last report, sem_destroy (which
\* changes no byte) and munmap; the object is not unlinked.
MCopy ==
    /\ mpc = "copy"
    /\ local' = mem
    /\ n' = n + 1
    /\ mpc' = IF LastReport THEN "off" ELSE "watch"
    /\ UNCHANGED <<shm, mem, runs, printed, gets, ppc, changes>>

MKill ==
    /\ mpc # "off"
    /\ mpc' = "off"
    /\ UNCHANGED <<shm, mem, local, n, runs, printed, gets, ppc, changes>>
-----------------------------------------------------------------------------
Waiting == {"wait", "asleep", "woken"}   \* in sem_wait
Inside == {"pid", "load", "store"}       \* past it

GoTo(g, l) == gpc' = [gpc EXCEPT ![g] = l]

\* posix_unnamed_get: shm_open without O_CREAT fails when there is no object;
\* the first access to an object of size 0 raises SIGBUS.
GOpen(g) ==
    /\ gpc[g] = "start"
    /\ GoTo(g, IF shm = "sized" THEN "wait" ELSE "failed")
    /\ UNCHANGED <<shm, mem, monitor, loaded, stored, crowded, ppc, changes>>

\* A get goes past sem_wait.
Enter(g) ==
    /\ GoTo(g, "pid")
    /\ crowded' = (crowded \/ \E h \in Getter : gpc[h] \in Inside)
    /\ UNCHANGED <<loaded, stored>>

\* sem_wait takes a permit at once.
GTake(g) ==
    /\ gpc[g] = "wait" /\ mem.sem > 0
    /\ Write([mem EXCEPT !.sem = @ - 1])
    /\ Enter(g)
    /\ UNCHANGED <<shm, monitor, ppc>>

\* Wrong on purpose: a get that finds no permit writes all the same.
BugGSleep(g) ==
    /\ mem.sem = 0 /\ gpc[g] = "wait"
    /\ Enter(g)
    /\ UNCHANGED <<shm, mem, monitor, ppc, changes>>

\* sem_wait registers as a sleeper, or goes back to sleep.
GSleep(g) ==
    /\ mem.sem = 0
    /\ \/ gpc[g] = "wait" /\ Write([mem EXCEPT !.waiters = @ + 1])
       \/ gpc[g] = "woken" /\ UNCHANGED <<mem, changes>>
    /\ GoTo(g, "asleep")
    /\ UNCHANGED <<shm, monitor, loaded, stored, crowded, ppc>>

\* sem_wait was woken and finds a permit.
GWakeTake(g) ==
    /\ gpc[g] = "woken" /\ mem.sem > 0
    /\ Write([mem EXCEPT !.sem = @ - 1, !.waiters = @ - 1])
    /\ Enter(g)
    /\ UNCHANGED <<shm, monitor, ppc>>

\* info->pid = getpid()
GPid(g) ==
    /\ gpc[g] = "pid"
    /\ Write([mem EXCEPT !.pid = g])
    /\ GoTo(g, "load")
    /\ UNCHANGED <<shm, monitor, loaded, stored, crowded, ppc>>

\* info->count += 1 is a read ...
GLoad(g) ==
    /\ gpc[g] = "load"
    /\ loaded' = [loaded EXCEPT ![g] = mem.count]
    /\ GoTo(g, "store")
    /\ UNCHANGED <<shm, mem, monitor, stored, crowded, ppc, changes>>

Increment(g) == loaded[g] + 1

\* ... and a write; then the process ends and keeps its permit.
GStore(g) ==
    /\ gpc[g] = "store"
    /\ Write([mem EXCEPT !.count = Increment(g)])
    /\ stored' = stored \union {g}
    /\ loaded' = [loaded EXCEPT ![g] = 0]
    /\ GoTo(g, "done")
    /\ UNCHANGED <<shm, monitor, crowded, ppc>>

\* An interrupted get gives nothing back.
GKill(g) ==
    /\ gpc[g] \in Waiting \union Inside
    /\ GoTo(g, "failed")
    /\ loaded' = [loaded EXCEPT ![g] = 0]
    /\ UNCHANGED <<shm, mem, monitor, stored, crowded, ppc, changes>>
-----------------------------------------------------------------------------
PFail(p) ==
    /\ ppc[p] = "start" /\ shm # "sized"
    /\ ppc' = [ppc EXCEPT ![p] = "failed"]
    /\ UNCHANGED <<shm, mem, monitor, gets, changes>>

\* posix_unnamed_put: sem_post adds a permit and, when the sem_t says that
\* somebody sleeps on it, wakes a sleeper.
PPost(p) ==
    /\ ppc[p] = "start" /\ shm = "sized"
    /\ Write([mem EXCEPT !.sem = @ + 1])
    /\ ppc' = [ppc EXCEPT ![p] = "done"]
    /\ IF mem.waiters # 0 /\ \E g \in Getter : gpc[g] = "asleep"
         THEN \E g \in Getter : gpc[g] = "asleep" /\ GoTo(g, "woken")
         ELSE UNCHANGED gpc
    /\ UNCHANGED <<shm, monitor, loaded, stored, crowded>>
-----------------------------------------------------------------------------
Watch == MSize \/ MInit \/ MNotice \/ MPrint \/ MCopy
Get(g) == GOpen(g) \/ GTake(g) \/ GSleep(g) \/ GWakeTake(g) \/ GPid(g) \/ GLoad(g) \/ GStore(g)
Put(p) == PFail(p) \/ PPost(p)

Next ==
    \/ MOpen \/ Watch \/ MKill
    \/ \E g \in Getter : Get(g) \/ GKill(g)
    \/ \E p \in Putter : Put(p)

Spec == Init /\ [][Next]_vars

\* Running processes go on.  Nobody has to start the monitor or a put.
FairSpec == Spec /\ WF_vars(Watch) /\ \A g \in Getter : WF_vars(Get(g))
-----------------------------------------------------------------------------
TypeOK ==
    /\ shm \in {"none", "empty", "sized"}
    /\ mem \in [sem : Nat, waiters : Int, pid : Getter \union {NoPid}, count : Nat]
    /\ local \in [sem : Nat, waiters : Int, pid : Getter \union {NoPid}, count : Nat]
    /\ mpc \in {"off", "opened", "mapped", "watch", "print", "copy"}
    /\ n \in 0 .. REPORTS /\ runs \in 0 .. MaxRuns
    /\ gpc \in [Getter -> Waiting \union Inside \union {"start", "done", "failed"}]
    /\ loaded \in [Getter -> Nat]
    /\ ppc \in [Putter -> {"start", "done", "failed"}]
    /\ printed \in [pid : Getter \union {NoPid}, count : Nat]
    /\ stored \subseteq Getter /\ crowded \in BOOLEAN /\ changes \in Nat

Entered == {g \in Getter : gpc[g] \in Inside}
Posted == {p \in Putter : ppc[p] = "done"}

\* Nobody writes without a permit: the permits that are left and the gets past
\* sem_wait, those done included, are never more than SEM_NUM for each start of
\* the monitor and one for each put.  This although get and put may find an
\* object that is not initialised, and sem_init may come in the middle of
\* waits, wakings and posts.
EntriesAreGranted ==
    mem.sem + Cardinality(Entered) + Cardinality(stored)
        <= SEM_NUM * runs + Cardinality(Posted)

\* The program starts with SEM_NUM = 5 permits, so that increments are lost.
\* They are never invented, and none is lost but to company: as long as no two
\* gets were inside at a time the count is the number of those done, whatever
\* is interrupted or started again.
IncrementsAreKept ==
    /\ mem.count <= Cardinality(stored)
    /\ ~crowded => mem.count = Cardinality(stored)

\* A report needs a write: the monitor never stops on fewer writes than
\* reports, its own sem_init being the first one it sees.  (The converse does
\* not hold: several writes may go into one report.)
ReportsAreEarned == mpc \in {"watch", "print", "copy"} => n <= changes

\* Once the users are done the monitor has either stopped or holds a faithful
\* copy of the memory: no difference stays unnoticed.
MonitorSettles == <>[](mpc # "off" => mpc = "watch" /\ local = mem)

\* What the sleep of main.c:177 is there for ("... memcmp does not work
\* properly, so a sleep is added"): the monitor at rest with a copy equal to
\* the memory has reported the pid and the counter that are in it.
NothingMissed ==
    mpc = "watch" /\ n > 0 /\ local = mem
        => printed = [pid |-> mem.pid, count |-> mem.count]
=============================================================================
