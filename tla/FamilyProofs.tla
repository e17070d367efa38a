---------------------------- MODULE FamilyProofs ----------------------------
(***************************************************************************)
(* Proofs about Family: MutexThreads, AnonMonitor and ChildProcess, for    *)
(* any numbers of turns and of children and any increment.                 *)
(***************************************************************************)
EXTENDS Family, FiniteSetTheorems, TLAPS

\* --- The threads.
\* Between its load and its store a thread has the current value: the mutex
\* keeps the other thread from changing it.
LoadedOK == \A t \in Thread : pc[t] = "store" => loaded[t] = share_memory

\* The loop variable and the place in the thread function go together.
TurnsOK ==
    \A t \in Thread :
        /\ pc[t] = "uncreated" => i[t] = 0
        /\ pc[t] \in {"lock", "open", "load", "store", "unlock"} => i[t] < Turns(t)
        /\ pc[t] = "ended" => i[t] = Turns(t)

\* A value in the log is below share_memory, or equal to it while the thread
\* that wrote it has yet to add.
Adding == \E t \in Thread : pc[t] \in {"load", "store"}
Logged(t) == i[t] + (IF pc[t] \in {"load", "store", "unlock"} THEN 1 ELSE 0)

LogOK ==
    /\ LogRises
    /\ \A j \in 1 .. Len(log) : log[j] <= share_memory
    /\ ~Adding => \A j \in 1 .. Len(log) : log[j] < share_memory
    /\ Len(log) = Logged("count") + Logged("plus")

\* What main's place says of the threads.
MainOK ==
    /\ mpc = "create_count" => pc["count"] = "uncreated"
    /\ mpc \in {"create_count", "create_plus"} => pc["plus"] = "uncreated"
    /\ mpc \in {"join_plus", "detach_count", "detach_plus", "destroy", "returned"}
           => pc["count"] = "ended"
    /\ mpc \in {"detach_count", "detach_plus", "destroy", "returned"}
           => pc["plus"] = "ended"

Core == MutualExclusion /\ SumOK /\ LoadedOK /\ TurnsOK /\ LogOK /\ MainOK
IInv == TypeOK /\ Core
-----------------------------------------------------------------------------
\* Both threads make at least one turn and add at least one.
LEMMA ConstantsType ==
  /\ MAX_NUM \in Nat \ {0} /\ ROUNDS \in Nat \ {0} /\ PLUS_NUM \in Nat \ {0}
  /\ \A t \in Thread : Turns(t) \in Nat \ {0} /\ Step(t) \in Nat \ {0}
  BY ThreadsAssumption DEF Turns, Step

\* No step of main or of a thread takes a variable out of its type.
LEMMA TypeStep == TypeOK /\ [Next]_vars => TypeOK'
<1> SUFFICES ASSUME TypeOK, [Next]_vars PROVE TypeOK'
  OBVIOUS
<1> USE DEF TypeOK, GoTo
<1>1. CASE UNCHANGED vars
  BY <1>1 DEF vars
<1>2. CASE Main
  BY <1>2 DEF Main, Create, Join, Detach, Destroy, threads, Thread
<1>3. ASSUME NEW t \in Thread, ThreadStep(t) PROVE TypeOK'
  <2>1. CASE Lock(t)
    BY <2>1 DEF Lock
  <2>2. CASE OpenLog(t)
    <3>1. Append(log, share_memory) \in Seq(Nat)
      OBVIOUS
    <3> QED
      BY <2>2, <3>1 DEF OpenLog
  <2>3. CASE OpenFails(t)
    BY <2>3 DEF OpenFails, threads
  <2>4. CASE Load(t)
    BY <2>4 DEF Load
  <2>5. CASE Store(t)
    <3>1. loaded[t] + Step(t) \in Nat
      BY ConstantsType
    <3> QED
      BY <2>5, <3>1 DEF Store
  <2>6. CASE Unlock(t)
    <3>1. i[t] + 1 \in Nat
      OBVIOUS
    <3> QED
      BY <2>6, <3>1 DEF Unlock
  <2> QED
    BY <1>3, <2>1, <2>2, <2>3, <2>4, <2>5, <2>6 DEF ThreadStep
<1> QED
  BY <1>1, <1>2, <1>3 DEF Next

\* The program starts with nothing done and nobody inside.
LEMMA InvInit == Init => IInv
<1> SUFFICES ASSUME Init PROVE IInv
  OBVIOUS
<1> USE DEF Init
<1>1. TypeOK
  <2>1. 0 \in Nat /\ << >> \in Seq(Nat)
    OBVIOUS
  <2> QED
    BY <2>1, Zenon DEF TypeOK, None
<1>2. MutualExclusion
  BY DEF MutualExclusion, Inside, Thread, None
<1>3. SumOK
  <2>1. Done("count") = 0 /\ Done("plus") = 0
    BY DEF Done, Thread
  <2> QED
    BY <2>1, ConstantsType DEF SumOK
<1>4. LoadedOK /\ TurnsOK /\ MainOK
  BY DEF LoadedOK, TurnsOK, MainOK, Thread
<1>5. LogOK
  <2>1. Logged("count") = 0 /\ Logged("plus") = 0
    BY DEF Logged, Thread
  <2>2. Len(log) = 0
    OBVIOUS
  <2> QED
    BY <2>1, <2>2 DEF LogOK, LogRises
<1> QED
  BY <1>1, <1>2, <1>3, <1>4, <1>5 DEF IInv, Core
-----------------------------------------------------------------------------
\* What main's steps leave alone.
LEMMA FrameStep ==
  ASSUME IInv, MainOK', UNCHANGED threads
  PROVE  Core'
<1>1. MutualExclusion' /\ LoadedOK' /\ TurnsOK'
  BY DEF IInv, Core, threads, MutualExclusion, Inside, LoadedOK, TurnsOK
<1>2. SumOK'
  BY DEF IInv, Core, threads, SumOK, Done
<1>3. LogOK'
  BY DEF IInv, Core, threads, LogOK, LogRises, Adding, Logged
<1> QED
  BY <1>1, <1>2, <1>3 DEF Core

\* A thread that is created starts with its first turn.
LEMMA CreateStep ==
  ASSUME IInv, NEW t \in Thread, pc[t] = "uncreated", GoTo(t, "lock"), MainOK',
         UNCHANGED <<mutex, share_memory, i, loaded, log>>
  PROVE  Core'
<1> USE DEF IInv, Core, GoTo
<1>1. pc' = [pc EXCEPT ![t] = "lock"]
  OBVIOUS
<1>2. MutualExclusion' /\ LoadedOK'
  BY <1>1 DEF MutualExclusion, Inside, LoadedOK, TypeOK
<1>3. TurnsOK'
  BY <1>1, ConstantsType DEF TurnsOK, TypeOK
<1>4. \A u \in Thread : Done(u)' = Done(u) /\ Logged(u)' = Logged(u)
  BY <1>1 DEF Done, Logged, TypeOK
<1>5. SumOK'
  BY <1>4 DEF SumOK, Thread
<1>6. Adding' <=> Adding
  BY <1>1 DEF Adding, TypeOK
<1>7. LogOK'
  BY <1>4, <1>6 DEF LogOK, LogRises, Thread
<1> QED
  BY <1>2, <1>3, <1>5, <1>7

LEMMA MainStep == ASSUME IInv, Main PROVE Core'
<1>1. CASE Create("count", "create_count", "create_plus")
  <2>1. MainOK' /\ pc["count"] = "uncreated"
    BY <1>1 DEF Create, IInv, Core, MainOK, GoTo, TypeOK, Thread
  <2> QED
    BY <1>1, <2>1, CreateStep, FrameStep DEF Create, threads, Thread
<1>2. CASE Create("plus", "create_plus", "join_count")
  <2>1. MainOK' /\ pc["plus"] = "uncreated"
    BY <1>2 DEF Create, IInv, Core, MainOK, GoTo, TypeOK, Thread
  <2> QED
    BY <1>2, <2>1, CreateStep, FrameStep DEF Create, threads, Thread
<1>3. CASE Join("count", "join_count", "join_plus")
  <2>1. MainOK'
    BY <1>3 DEF Join, threads, IInv, Core, MainOK
  <2> QED
    BY <1>3, <2>1, FrameStep DEF Join
<1>4. CASE Join("plus", "join_plus", "detach_count")
  <2>1. MainOK'
    BY <1>4 DEF Join, threads, IInv, Core, MainOK
  <2> QED
    BY <1>4, <2>1, FrameStep DEF Join
<1>5. CASE Detach("detach_count", "detach_plus") \/ Detach("detach_plus", "destroy")
  <2>1. MainOK'
    BY <1>5 DEF Detach, threads, IInv, Core, MainOK
  <2> QED
    BY <1>5, <2>1, FrameStep DEF Detach
<1>6. CASE Destroy
  <2>1. MainOK'
    BY <1>6 DEF Destroy, threads, IInv, Core, MainOK
  <2> QED
    BY <1>6, <2>1, FrameStep DEF Destroy
<1> QED
  BY <1>1, <1>2, <1>3, <1>4, <1>5, <1>6 DEF Main
-----------------------------------------------------------------------------
\* While one thread is inside, the other is not.
LEMMA Alone ==
  ASSUME IInv, NEW t \in Thread, Inside(t), NEW u \in Thread, u # t
  PROVE  mutex = t /\ ~Inside(u)
  BY DEF IInv, Core, MutualExclusion

\* A running thread function belongs to a thread main has created.
LEMMA ThreadKeepsMain ==
  ASSUME IInv, NEW t \in Thread, pc[t] \notin {"uncreated", "ended"},
         NEW l \in {"lock", "open", "load", "store", "unlock", "ended"},
         GoTo(t, l), UNCHANGED mpc
  PROVE  MainOK'
  BY DEF IInv, Core, MainOK, GoTo, TypeOK, Thread

LEMMA LockStep == ASSUME IInv, NEW t \in Thread, Lock(t) PROVE Core'
<1> USE DEF IInv, Core
<1>1. /\ pc[t] = "lock" /\ mutex = None /\ mutex' = t
      /\ pc' = [pc EXCEPT ![t] = "open"]
      /\ UNCHANGED <<share_memory, i, loaded, log, mpc>>
  BY DEF Lock, GoTo
<1>2. MutualExclusion'
  BY <1>1 DEF MutualExclusion, Inside, Thread, None, TypeOK
<1>3. LoadedOK' /\ TurnsOK'
  BY <1>1 DEF LoadedOK, TurnsOK, TypeOK
<1>4. \A u \in Thread : Done(u)' = Done(u) /\ Logged(u)' = Logged(u)
  BY <1>1 DEF Done, Logged, TypeOK
<1>5. SumOK'
  BY <1>1, <1>4 DEF SumOK, Thread
<1>6. Adding' <=> Adding
  BY <1>1 DEF Adding, TypeOK
<1>7. LogOK'
  BY <1>1, <1>4, <1>6 DEF LogOK, LogRises, Thread
<1>8. MainOK'
  BY <1>1, ThreadKeepsMain DEF GoTo
<1> QED
  BY <1>2, <1>3, <1>5, <1>7, <1>8

\* The value a thread logs is new: no addition is under way, so every earlier
\* entry is below share_memory.
LEMMA OpenLogStep == ASSUME IInv, NEW t \in Thread, OpenLog(t) PROVE Core'
<1> USE DEF IInv, Core
<1>1. /\ pc[t] = "open" /\ Inside(t)
      /\ pc' = [pc EXCEPT ![t] = "load"]
      /\ log' = Append(log, share_memory)
      /\ UNCHANGED <<mutex, share_memory, i, loaded, mpc>>
  BY DEF OpenLog, GoTo, Inside
<1>2. MutualExclusion' /\ LoadedOK' /\ TurnsOK'
  BY <1>1 DEF MutualExclusion, Inside, LoadedOK, TurnsOK, TypeOK
<1>3. \A u \in Thread : Done(u)' = Done(u)
  BY <1>1 DEF Done, TypeOK
<1>4. SumOK'
  BY <1>1, <1>3 DEF SumOK, Thread
<1>5. MainOK'
  BY <1>1, ThreadKeepsMain DEF GoTo
<1>6. LogOK'
  <2>1. ~Adding
    BY <1>1, Alone DEF Adding, Inside
  <2>2. Adding'
    BY <1>1 DEF Adding, TypeOK
  <2>3. /\ Len(log') = Len(log) + 1 /\ Len(log) \in Nat
        /\ log'[Len(log) + 1] = share_memory
        /\ \A j \in 1 .. Len(log) : log'[j] = log[j]
    BY <1>1 DEF TypeOK
  <2>4. \A j \in 1 .. Len(log) : log[j] < share_memory /\ log[j] \in Nat
    BY <2>1 DEF LogOK, TypeOK
  <2>5. share_memory \in Nat
    BY DEF TypeOK
  <2>6. LogRises'
    BY <2>3, <2>4, <2>5 DEF LogOK, LogRises
  <2>7. \A j \in 1 .. Len(log') : log'[j] <= share_memory'
    BY <1>1, <2>3, <2>4, <2>5
  <2>8. Len(log') = Logged("count")' + Logged("plus")'
    <3>1. \A u \in Thread : Logged(u)' = IF u = t THEN Logged(u) + 1 ELSE Logged(u)
      BY <1>1 DEF Logged, TypeOK
    <3>2. \A u \in Thread : Logged(u) \in Nat
      BY DEF Logged, TypeOK
    <3>3. Len(log) = Logged("count") + Logged("plus")
      BY DEF LogOK
    <3> QED
      BY <2>3, <3>1, <3>2, <3>3 DEF Thread
  <2> QED
    BY <2>2, <2>6, <2>7, <2>8 DEF LogOK
<1> QED
  BY <1>2, <1>4, <1>5, <1>6

LEMMA LoadStep == ASSUME IInv, NEW t \in Thread, Load(t) PROVE Core'
<1> USE DEF IInv, Core
<1>1. /\ pc[t] = "load" /\ Inside(t)
      /\ pc' = [pc EXCEPT ![t] = "store"]
      /\ loaded' = [loaded EXCEPT ![t] = share_memory]
      /\ UNCHANGED <<mutex, share_memory, i, log, mpc>>
  BY DEF Load, GoTo, Inside
<1>2. MutualExclusion' /\ LoadedOK' /\ TurnsOK'
  BY <1>1 DEF MutualExclusion, Inside, LoadedOK, TurnsOK, TypeOK
<1>3. \A u \in Thread : Done(u)' = Done(u) /\ Logged(u)' = Logged(u)
  BY <1>1 DEF Done, Logged, TypeOK
<1>4. SumOK'
  BY <1>1, <1>3 DEF SumOK, Thread
<1>5. MainOK'
  BY <1>1, ThreadKeepsMain DEF GoTo
<1>6. Adding /\ Adding'
  BY <1>1 DEF Adding, TypeOK
<1>7. LogOK'
  BY <1>1, <1>3, <1>6 DEF LogOK, LogRises, Thread
<1> QED
  BY <1>2, <1>4, <1>5, <1>7

\* The store adds to the current value, because what was loaded is current.
LEMMA StoreStep == ASSUME IInv, NEW t \in Thread, Store(t) PROVE Core'
<1> USE DEF IInv, Core
<1>1. /\ pc[t] = "store" /\ Inside(t)
      /\ pc' = [pc EXCEPT ![t] = "unlock"]
      /\ share_memory' = share_memory + Step(t)
      /\ UNCHANGED <<mutex, i, loaded, log, mpc>>
  BY DEF Store, GoTo, Inside, LoadedOK
<1>2. MutualExclusion' /\ TurnsOK'
  BY <1>1 DEF MutualExclusion, Inside, TurnsOK, TypeOK
<1>3. \A u \in Thread : u # t => pc[u] \notin {"load", "store"}
  BY <1>1, Alone DEF Inside
<1>4. LoadedOK'
  BY <1>1, <1>3 DEF LoadedOK, TypeOK
<1>5. SumOK'
  <2>1. \A u \in Thread : Done(u)' = IF u = t THEN Done(u) + 1 ELSE Done(u)
    BY <1>1 DEF Done, TypeOK
  <2>2. \A u \in Thread : Done(u) \in Nat
    BY DEF Done, TypeOK
  <2>3. PLUS_NUM * (Done("plus") + 1) = PLUS_NUM * Done("plus") + PLUS_NUM
    BY <2>2, ConstantsType DEF Thread
  <2>4. share_memory = Done("count") + PLUS_NUM * Done("plus")
    BY DEF SumOK
  <2>5. PLUS_NUM * Done("plus") \in Nat
    BY <2>2, ConstantsType DEF Thread
  <2>6. CASE t = "count"
    BY <1>1, <2>1, <2>2, <2>4, <2>5, <2>6 DEF SumOK, Step, Thread
  <2>7. CASE t = "plus"
    BY <1>1, <2>1, <2>2, <2>3, <2>4, <2>5, <2>7, ConstantsType DEF SumOK, Step, Thread
  <2> QED
    BY <2>6, <2>7 DEF Thread
<1>6. LogOK'
  <2>1. \A j \in 1 .. Len(log) : log[j] <= share_memory /\ log[j] \in Nat
    BY DEF LogOK, TypeOK
  <2>2. share_memory \in Nat /\ Step(t) \in Nat \ {0}
    BY ConstantsType DEF TypeOK
  <2>3. \A j \in 1 .. Len(log') : log'[j] < share_memory' /\ log'[j] <= share_memory'
    BY <1>1, <2>1, <2>2
  <2>4. \A u \in Thread : Logged(u)' = Logged(u)
    BY <1>1 DEF Logged, TypeOK
  <2> QED
    BY <1>1, <2>3, <2>4 DEF LogOK, LogRises, Thread
<1>7. MainOK'
  BY <1>1, ThreadKeepsMain DEF GoTo
<1> QED
  BY <1>2, <1>4, <1>5, <1>6, <1>7

LEMMA UnlockStep == ASSUME IInv, NEW t \in Thread, Unlock(t) PROVE Core'
<1> USE DEF IInv, Core
<1>1. PICK l \in {"lock", "ended"} :
      /\ l = IF i[t] + 1 < Turns(t) THEN "lock" ELSE "ended"
      /\ pc[t] = "unlock" /\ Inside(t)
      /\ pc' = [pc EXCEPT ![t] = l]
      /\ i' = [i EXCEPT ![t] = @ + 1] /\ i[t] \in Nat
      /\ mutex' = None
      /\ UNCHANGED <<share_memory, loaded, log, mpc>>
  BY DEF Unlock, GoTo, Inside, TypeOK
<1>2. MutualExclusion'
  BY <1>1, Alone DEF MutualExclusion, Inside, Thread, None, TypeOK
<1>3. LoadedOK'
  BY <1>1 DEF LoadedOK, TypeOK
<1>4. TurnsOK'
  <2>1. Turns(t) \in Nat /\ i[t] < Turns(t)
    BY <1>1, ConstantsType DEF TurnsOK
  <2> QED
    BY <1>1, <2>1 DEF TurnsOK, TypeOK
<1>5. \A u \in Thread : Done(u)' = Done(u) /\ Logged(u)' = Logged(u)
  BY <1>1 DEF Done, Logged, TypeOK
<1>6. SumOK'
  BY <1>1, <1>5 DEF SumOK, Thread
<1>7. Adding' <=> Adding
  BY <1>1 DEF Adding, TypeOK
<1>8. LogOK'
  BY <1>1, <1>5, <1>7 DEF LogOK, LogRises, Thread
<1>9. MainOK'
  BY <1>1, ThreadKeepsMain DEF GoTo
<1> QED
  BY <1>2, <1>3, <1>4, <1>6, <1>8, <1>9
-----------------------------------------------------------------------------
LEMMA InvStep == IInv /\ [Next]_vars => IInv'
<1> SUFFICES ASSUME IInv, [Next]_vars PROVE IInv'
  OBVIOUS
<1>1. TypeOK'
  BY TypeStep DEF IInv
<1>2. CASE UNCHANGED vars
  <2>1. MainOK'
    BY <1>2 DEF vars, IInv, Core, MainOK
  <2> QED
    BY <1>1, <1>2, <2>1, FrameStep DEF vars, threads, IInv
<1>3. CASE Main
  BY <1>1, <1>3, MainStep DEF IInv
<1>4. ASSUME NEW t \in Thread, ThreadStep(t) PROVE Core'
  <2>1. CASE OpenFails(t)
    <3>1. MainOK'
      BY <2>1 DEF OpenFails, threads, IInv, Core, MainOK
    <3> QED
      BY <2>1, <3>1, FrameStep DEF OpenFails
  <2> QED
    BY <1>4, <2>1, LockStep, OpenLogStep, LoadStep, StoreStep, UnlockStep
    DEF ThreadStep
<1> QED
  BY <1>1, <1>2, <1>3, <1>4 DEF Next, IInv

\* After both joins the sum and the log are complete and the mutex is free.
LEMMA Joined ==
  ASSUME IInv, mpc \in {"detach_count", "detach_plus", "destroy", "returned"}
  PROVE  /\ share_memory = MAX_NUM + ROUNDS * PLUS_NUM
         /\ Len(log) = MAX_NUM + ROUNDS
         /\ mutex = None
<1> USE DEF IInv, Core
<1>1. pc["count"] = "ended" /\ pc["plus"] = "ended"
  BY DEF MainOK
<1>2. i["count"] = MAX_NUM /\ i["plus"] = ROUNDS
  BY <1>1 DEF TurnsOK, Turns, Thread
<1>3. Done("count") = MAX_NUM /\ Done("plus") = ROUNDS
  BY <1>1, <1>2, ConstantsType DEF Done
<1>4. Logged("count") = MAX_NUM /\ Logged("plus") = ROUNDS
  BY <1>1, <1>2, ConstantsType DEF Logged
<1>5. PLUS_NUM * ROUNDS = ROUNDS * PLUS_NUM
  BY ConstantsType
<1>6. mutex = None
  BY <1>1 DEF MutualExclusion, Inside, Thread, TypeOK
<1> QED
  BY <1>3, <1>4, <1>5, <1>6 DEF SumOK, LogOK
-----------------------------------------------------------------------------
\* --- The shared mapping.
LEMMA AnonFacts == AM!AnonAssumption
  BY FamilyAssumption

Reaped == {c \in AM!Child : cpc[c] = "reaped"}

\* While it watches, the parent has reports left to make.
ReportsLeft == ppc \in {"fork", "watch", "copy"} => n < FORK_NUM

AMTypeInv == AM!TypeOK /\ ReportsLeft

\* What the copy and the memory differ by, and what was noticed, is a write that
\* has not been reported.
WriteInv ==
    /\ n <= writes
    /\ local # mem => n < writes
    /\ ppc = "copy" => n < writes

\* How far the two loops of the parent have come: the children before i are born
\* in the first, as many as i says have been reaped in the second.
FamilyInv ==
    /\ ppc = "fork" => /\ turn < FORK_NUM
                       /\ \A c \in AM!Child : cpc[c] = "unborn" <=> turn <= c
    /\ ppc \in {"watch", "copy", "wait"} => \A c \in AM!Child : cpc[c] # "unborn"
    /\ ppc \in {"fork", "watch", "copy"} => Reaped = {}
    /\ ppc \in {"watch", "copy"} => turn = 0
    /\ ppc = "wait" => Cardinality(Reaped) = turn
    /\ ppc # "gone" <=> result = "running"
    /\ AM!NoZombies
-----------------------------------------------------------------------------
LEMMA ChildrenFinite == IsFiniteSet(AM!Child) /\ Cardinality(AM!Child) = FORK_NUM
<1>1. /\ IsFiniteSet(0 .. FORK_NUM - 1)
      /\ Cardinality(0 .. FORK_NUM - 1) = (FORK_NUM - 1) - 0 + 1
  BY AnonFacts, FS_Interval DEF AM!AnonAssumption
<1> QED
  BY <1>1, AnonFacts DEF AM!AnonAssumption, AM!Child

\* No step takes a variable out of its type.
LEMMA AMTypeStep == AMTypeInv /\ [AM!Next]_AM!vars => AMTypeInv'
<1> SUFFICES ASSUME AMTypeInv, [AM!Next]_AM!vars PROVE AMTypeInv'
  OBVIOUS
<1> USE AnonFacts DEF AM!AnonAssumption, AMTypeInv, AM!TypeOK, ReportsLeft, AM!Writing, AM!Contents
<1>1. CASE UNCHANGED AM!vars
  BY <1>1 DEF AM!vars
<1>2. CASE AM!Fork
  <2>1. turn \in AM!Child => turn + 1 \in 0 .. FORK_NUM
    BY DEF AM!Child
  <2>2. cpc' \in [AM!Child -> AM!Writing \union {"unborn", "sleep", "ended", "reaped"}]
    BY <1>2 DEF AM!Fork, AM!GoTo
  <2> QED
    BY <1>2, <2>2 DEF AM!Fork
<1>3. CASE AM!ForkFails \/ AM!Notice
  BY <1>3 DEF AM!ForkFails, AM!Notice
<1>4. CASE AM!Copy
  BY <1>4 DEF AM!Copy, AM!Last
<1>5. CASE AM!Wait
  <2>1. cpc' \in [AM!Child -> AM!Writing \union {"unborn", "sleep", "ended", "reaped"}]
    BY <1>5 DEF AM!Wait, AM!GoTo
  <2> QED
    BY <1>5, <2>1 DEF AM!Wait, AM!WaitsLeft
<1>6. CASE AM!End
  BY <1>6 DEF AM!End
<1>7. ASSUME NEW c \in AM!Child, AM!Send(c) PROVE AMTypeInv'
  <2>1. writes' \in Nat /\ cpc' \in [AM!Child -> AM!Writing \union {"unborn", "sleep", "ended", "reaped"}]
    BY <1>7 DEF AM!Send, AM!SendPid, AM!SendMessage, AM!SendFinish, AM!GoTo
  <2>2. mem' \in AM!Contents
    BY <1>7 DEF AM!Send, AM!SendPid, AM!SendMessage, AM!SendFinish
  <2> QED
    BY <1>7, <2>1, <2>2 DEF AM!Send, AM!SendPid, AM!SendMessage, AM!SendFinish
<1> QED
  BY <1>1, <1>2, <1>3, <1>4, <1>5, <1>6, <1>7 DEF AM!Next, AM!Parent

\* The zeroed memory and the unborn children are well typed.
LEMMA AMTypeInit == AM!Init => AMTypeInv
  BY AnonFacts DEF AM!AnonAssumption, AM!Init, AMTypeInv, AM!TypeOK, ReportsLeft,
         AM!Zero, AM!Contents

-----------------------------------------------------------------------------
\* Each report is owed to a write of its own.
LEMMA AMWriteStep == AMTypeInv /\ WriteInv /\ [AM!Next]_AM!vars => WriteInv'
<1> SUFFICES ASSUME AMTypeInv, WriteInv, [AM!Next]_AM!vars PROVE WriteInv'
  OBVIOUS
<1> USE DEF WriteInv
<1>0. n \in Nat /\ writes \in Nat
  BY AnonFacts DEF AM!AnonAssumption, AMTypeInv, AM!TypeOK
<1>1. CASE UNCHANGED AM!vars
  BY <1>1 DEF AM!vars
<1>2. CASE AM!Fork \/ AM!ForkFails \/ AM!Notice \/ AM!Wait \/ AM!End
  BY <1>2 DEF AM!Fork, AM!ForkFails, AM!Notice, AM!Differs, AM!Wait, AM!End
<1>3. CASE AM!Copy
  BY <1>0, <1>3 DEF AM!Copy
<1>4. ASSUME NEW c \in AM!Child, AM!Send(c) PROVE WriteInv'
  <2>1. writes' = writes + 1 /\ n' = n
    BY <1>4 DEF AM!Send, AM!SendPid, AM!SendMessage, AM!SendFinish
  <2> QED
    BY <1>0, <2>1
<1> QED
  BY <1>1, <1>2, <1>3, <1>4 DEF AM!Next, AM!Parent

-----------------------------------------------------------------------------
\* A child's own steps neither bear nor reap one.
LEMMA SendStep ==
  ASSUME AMTypeInv, FamilyInv, NEW c \in AM!Child, AM!Send(c)
  PROVE  FamilyInv'
<1>1. /\ cpc[c] \in {"sleep", "message", "finish"}
      /\ \E l \in {"message", "finish", "ended"} : cpc' = [cpc EXCEPT ![c] = l]
      /\ UNCHANGED <<ppc, turn, result>>
  BY DEF AM!Send, AM!SendPid, AM!SendMessage, AM!SendFinish, AM!GoTo
<1>2. \A x \in AM!Child : /\ cpc'[x] = "unborn" <=> cpc[x] = "unborn"
                          /\ cpc'[x] = "reaped" <=> cpc[x] = "reaped"
  BY <1>1 DEF AMTypeInv, AM!TypeOK
<1>3. Reaped' = Reaped
  BY <1>2 DEF Reaped
<1> QED
  BY <1>1, <1>2, <1>3 DEF FamilyInv, AM!NoZombies

\* The fork loop bears the next child, and after the last one begins to watch.
LEMMA ForkStep ==
  ASSUME AMTypeInv, FamilyInv, AM!Fork
  PROVE  FamilyInv'
<1> USE AnonFacts DEF AM!AnonAssumption
<1>1. /\ ppc = "fork" /\ result = "running" /\ result' = result
      /\ turn \in 0 .. FORK_NUM /\ turn < FORK_NUM
      /\ cpc' = [cpc EXCEPT ![turn] = "sleep"]
      /\ \A c \in AM!Child : cpc[c] = "unborn" <=> turn <= c
      /\ Reaped = {}
  BY DEF AM!Fork, AM!GoTo, FamilyInv, AMTypeInv, AM!TypeOK
<1>2. turn \in AM!Child /\ \A c \in AM!Child : c \in 0 .. FORK_NUM - 1
  BY <1>1 DEF AM!Child
<1>3. \A c \in AM!Child : cpc'[c] = IF c = turn THEN "sleep" ELSE cpc[c]
  BY <1>1, <1>2 DEF AMTypeInv, AM!TypeOK
<1>4. Reaped' = {}
  BY <1>1, <1>3 DEF Reaped
<1>5. CASE turn + 1 < FORK_NUM
  <2>1. turn' = turn + 1 /\ ppc' = "fork"
    BY <1>1, <1>5 DEF AM!Fork
  <2>2. \A c \in AM!Child : cpc'[c] = "unborn" <=> turn' <= c
    BY <1>1, <1>2, <1>3, <2>1
  <2> QED
    BY <1>1, <1>4, <1>5, <2>1, <2>2 DEF FamilyInv, AM!NoZombies
<1>6. CASE ~(turn + 1 < FORK_NUM)
  <2>1. turn' = 0 /\ ppc' = "watch"
    BY <1>6 DEF AM!Fork
  <2>2. \A c \in AM!Child : cpc'[c] # "unborn"
    BY <1>1, <1>2, <1>3, <1>6
  <2> QED
    BY <1>1, <1>4, <2>1, <2>2 DEF FamilyInv, AM!NoZombies
<1> QED
  BY <1>5, <1>6

\* A wait reaps one child more: as one is left, none answers ECHILD.
LEMMA WaitStep ==
  ASSUME AMTypeInv, FamilyInv, AM!Wait
  PROVE  FamilyInv'
<1> USE AnonFacts DEF AM!AnonAssumption
<1>1. /\ ppc = "wait" /\ result = "running" /\ turn < FORK_NUM
      /\ Cardinality(Reaped) = turn
      /\ \A c \in AM!Child : cpc[c] # "unborn"
  BY DEF AM!Wait, AM!WaitsLeft, FamilyInv
<1>2. ~ \A c \in AM!Child : cpc[c] \in {"unborn", "reaped"}
  <2>1. SUFFICES ASSUME \A c \in AM!Child : cpc[c] \in {"unborn", "reaped"} PROVE FALSE
    OBVIOUS
  <2>2. Reaped = AM!Child
    BY <1>1, <2>1 DEF Reaped
  <2> QED
    BY <1>1, <2>2, ChildrenFinite
<1>3. PICK c \in AM!Child : cpc[c] = "ended" /\ cpc' = [cpc EXCEPT ![c] = "reaped"]
  BY <1>2 DEF AM!Wait, AM!GoTo
<1>4. turn' = turn + 1 /\ ppc' = ppc /\ result' = result
  BY <1>2 DEF AM!Wait
<1>5. Reaped' = Reaped \union {c} /\ c \notin Reaped
  BY <1>3 DEF Reaped, AMTypeInv, AM!TypeOK
<1>6. IsFiniteSet(Reaped)
  BY ChildrenFinite, FS_Subset DEF Reaped
<1>7. Cardinality(Reaped') = turn'
  BY <1>1, <1>4, <1>5, <1>6, FS_AddElement
<1>8. \A x \in AM!Child : cpc'[x] # "unborn"
  BY <1>1, <1>3 DEF AMTypeInv, AM!TypeOK
<1> QED
  BY <1>1, <1>4, <1>7, <1>8 DEF FamilyInv, AM!NoZombies

\* The parent leaves when it has waited FORK_NUM times, which were all of them.
LEMMA EndStep ==
  ASSUME AMTypeInv, FamilyInv, AM!End
  PROVE  FamilyInv'
<1>1. /\ ppc = "wait" /\ Cardinality(Reaped) = FORK_NUM
      /\ ppc' = "gone" /\ result' = "ok" /\ cpc' = cpc
  BY AnonFacts DEF AM!AnonAssumption, AM!End, AM!WaitsLeft, FamilyInv, AMTypeInv,
         AM!TypeOK
<1>2. Reaped = AM!Child
  <2>1. Reaped \in SUBSET AM!Child
    BY DEF Reaped
  <2> QED
    BY <1>1, <2>1, ChildrenFinite, FS_Subset
<1>3. \A c \in AM!Child : cpc'[c] = "reaped"
  BY <1>1, <1>2 DEF Reaped
<1> QED
  BY <1>1, <1>3 DEF FamilyInv, AM!NoZombies

LEMMA FamilyStep == AMTypeInv /\ FamilyInv /\ [AM!Next]_AM!vars => FamilyInv'
<1> SUFFICES ASSUME AMTypeInv, FamilyInv, [AM!Next]_AM!vars PROVE FamilyInv'
  OBVIOUS
<1>1. CASE UNCHANGED AM!vars
  BY <1>1 DEF AM!vars, FamilyInv, AM!NoZombies, Reaped
<1>2. CASE AM!ForkFails \/ AM!Notice
  BY <1>2 DEF AM!ForkFails, AM!Notice, FamilyInv, AM!NoZombies, Reaped
<1>3. CASE AM!Copy
  <2>1. /\ ppc = "copy" /\ ppc' \in {"watch", "wait"}
        /\ UNCHANGED <<cpc, turn, result>> /\ Reaped = {} /\ turn = 0
    BY <1>3 DEF AM!Copy, FamilyInv
  <2>2. Reaped' = {} /\ Cardinality({}) = 0
    BY <2>1, FS_EmptySet DEF Reaped
  <2> QED
    BY <2>1, <2>2 DEF FamilyInv, AM!NoZombies
<1>4. ASSUME NEW c \in AM!Child, AM!Send(c) PROVE FamilyInv'
  BY <1>4, SendStep
<1> QED
  BY <1>1, <1>2, <1>3, <1>4, ForkStep, WaitStep, EndStep DEF AM!Next, AM!Parent

LEMMA FamilyInit == AM!Init => FamilyInv
<1>1. \A c \in AM!Child : 0 <= c
  BY AnonFacts DEF AM!AnonAssumption, AM!Child
<1> QED
  BY <1>1, AnonFacts
  DEF AM!AnonAssumption, AM!Init, FamilyInv, AM!NoZombies, Reaped

-----------------------------------------------------------------------------
\* --- Parent and child.
\* Nobody has been interrupted, and the parent has, or is about to have, the child
\* it wants.
Undisturbed ==
    fork # "failed" /\ \A p \in CP!Process : state[p] # "killed"

\* Who is born and who has ended, in every case; and in the undisturbed one: who has
\* ended has made all its calls, unless it was to be replaced by ls.
Lives ==
    /\ fork = "never" <=> kind = "alone"
    /\ state["child"] = "unborn" <=> fork # "ok"
    /\ state["parent"] # "unborn"
    /\ fork = "before" => /\ at["parent"] = 0 /\ at["child"] = 0
                          /\ data["1"] = {} /\ data["2"] = {}
                          /\ state["parent"] = "running" => open["parent"] = CP!Descriptors(kind)

Ended(p, last) == state[p] \in {"done", "sigpipe"} => state[p] = "done" /\ at[p] = last

\* The writer of a message has its end open until then, and the one it is for
\* likewise; a message that was written is with that one or in the channel.
PipeTalks ==
    /\ Ended("parent", 3) /\ Ended("child", 3)
    /\ state["parent"] = "running" /\ at["parent"] < 2 => "r1" \in open["parent"]
    /\ state["child"] = "running" /\ at["child"] < 2 => "w1" \in open["child"]
    /\ data["1"] = IF at["child"] >= 2 /\ at["parent"] < 2 THEN {"child"} ELSE {}
    /\ at["parent"] >= 2 => at["child"] >= 2 /\ got["parent"] = "child"

OneWayTalks ==
    /\ Ended("parent", 1) /\ Ended("child", 1)
    /\ state["parent"] = "running" => "r1" \in open["parent"]
    /\ state["child"] = "running" => "w1" \in open["child"]
    /\ data["1"] = IF at["child"] = 1 /\ at["parent"] = 0 THEN {"child"} ELSE {}
    /\ at["parent"] = 1 => at["child"] = 1 /\ got["parent"] = "child"

InteractiveTalks ==
    /\ Ended("parent", 2) /\ Ended("child", 2)
    /\ \A p \in CP!Process : state[p] = "running" => {"r1", "w1", "r2", "w2"} \subseteq open[p]
    /\ data["1"] = IF at["child"] >= 1 /\ at["parent"] = 0 THEN {"child"} ELSE {}
    /\ data["2"] = IF at["parent"] = 2 /\ at["child"] < 2 THEN {"parent"} ELSE {}
    /\ at["parent"] >= 1 => at["child"] >= 1 /\ got["parent"] = "child"
    /\ at["child"] = 2 => at["parent"] = 2 /\ got["child"] = "parent"

SocketpairTalks ==
    /\ Ended("parent", 4) /\ Ended("child", 4)
    /\ state["parent"] = "running" /\ at["parent"] < 4 => "sd0" \in open["parent"]
    /\ state["child"] = "running" /\ at["child"] < 4 => "sd1" \in open["child"]
    /\ data["2"] = IF at["child"] >= 2 /\ at["parent"] < 2 THEN {"child"} ELSE {}
    /\ data["1"] = IF at["parent"] >= 3 /\ at["child"] < 3 THEN {"parent"} ELSE {}
    /\ at["parent"] >= 2 => at["child"] >= 2 /\ got["parent"] = "child"
    /\ at["child"] >= 3 => at["parent"] >= 3 /\ got["child"] = "parent"

AloneTalks ==
    /\ Ended("parent", 4)
    /\ state["parent"] = "running" /\ at["parent"] < 2 => {"sd0", "sd1"} \subseteq open["parent"]
    /\ data["1"] = IF at["parent"] = 1 THEN {"parent"} ELSE {}
    /\ at["parent"] >= 2 => got["parent"] = "parent"

Talks ==
    /\ kind = "pipe" => PipeTalks
    /\ kind = "one_way" => OneWayTalks
    /\ kind = "interactive" => InteractiveTalks
    /\ kind = "socketpair" => SocketpairTalks
    /\ kind = "alone" => AloneTalks
    /\ kind = "wait4" => \A p \in CP!Process : state[p] # "sigpipe"

TalkInv == CP!TypeOK /\ Lives /\ (Undisturbed => Talks)

\* Which call comes next.
LEMMA NextCall ==
  ASSUME CP!TypeOK, NEW p \in CP!Process, NEW call, NEW fd, CP!NextIs(p, call, fd)
  PROVE  /\ kind = "pipe" /\ p = "child" =>
               \/ at[p] = 0 /\ call = "close" /\ fd = "r1"
               \/ at[p] = 1 /\ call = "write" /\ fd = "w1"
               \/ at[p] = 2 /\ call = "close" /\ fd = "w1"
         /\ kind = "pipe" /\ p = "parent" =>
               \/ at[p] = 0 /\ call = "close" /\ fd = "w1"
               \/ at[p] = 1 /\ call = "read" /\ fd = "r1"
               \/ at[p] = 2 /\ call = "close" /\ fd = "r1"
         /\ kind = "one_way" /\ p = "child" => at[p] = 0 /\ call = "write" /\ fd = "w1"
         /\ kind = "one_way" /\ p = "parent" => at[p] = 0 /\ call = "read" /\ fd = "r1"
         /\ kind = "interactive" /\ p = "child" =>
               \/ at[p] = 0 /\ call = "write" /\ fd = "w1"
               \/ at[p] = 1 /\ call = "read" /\ fd = "r2"
         /\ kind = "interactive" /\ p = "parent" =>
               \/ at[p] = 0 /\ call = "read" /\ fd = "r1"
               \/ at[p] = 1 /\ call = "write" /\ fd = "w2"
         /\ kind = "socketpair" /\ p = "child" =>
               \/ at[p] = 0 /\ call = "close" /\ fd = "sd0"
               \/ at[p] = 1 /\ call = "write" /\ fd = "sd1"
               \/ at[p] = 2 /\ call = "read" /\ fd = "sd1"
               \/ at[p] = 3 /\ call = "close" /\ fd = "sd1"
         /\ kind = "socketpair" /\ p = "parent" =>
               \/ at[p] = 0 /\ call = "close" /\ fd = "sd1"
               \/ at[p] = 1 /\ call = "read" /\ fd = "sd0"
               \/ at[p] = 2 /\ call = "write" /\ fd = "sd0"
               \/ at[p] = 3 /\ call = "close" /\ fd = "sd0"
         /\ kind = "alone" =>
               \/ at[p] = 0 /\ call = "write" /\ fd = "sd0"
               \/ at[p] = 1 /\ call = "read" /\ fd = "sd1"
               \/ at[p] = 2 /\ call = "close" /\ fd = "sd0"
               \/ at[p] = 3 /\ call = "close" /\ fd = "sd1"
         /\ kind = "wait4" => at[p] = 0 /\ call \in {"execl", "wait4"}
<1>1. /\ at[p] \in Nat /\ at[p] < Len(CP!Calls(kind, p))
      /\ CP!Calls(kind, p)[at[p] + 1] = <<call, fd>>
  BY DEF CP!NextIs, CP!TypeOK
<1>2. CASE kind = "pipe"
  BY <1>1, <1>2 DEF CP!Calls, CP!Process, CP!Receiver
<1>3. CASE kind = "one_way"
  BY <1>1, <1>3 DEF CP!Calls, CP!Process
<1>4. CASE kind = "interactive"
  BY <1>1, <1>4 DEF CP!Calls, CP!Process, CP!Asker
<1>5. CASE kind = "socketpair"
  BY <1>1, <1>5 DEF CP!Calls, CP!Process
<1>6. CASE kind = "alone"
  BY <1>1, <1>6 DEF CP!Calls, CP!Process
<1>7. CASE kind = "wait4"
  BY <1>1, <1>7 DEF CP!Calls, CP!Process
<1> QED
  BY <1>2, <1>3, <1>4, <1>5, <1>6, <1>7 DEF CP!TypeOK, CP!Kinds

\* How many calls there are.
LEMMA LastCall ==
  ASSUME CP!TypeOK
  PROVE  /\ kind = "pipe" => \A p \in CP!Process : Len(CP!Calls(kind, p)) = 3
         /\ kind = "one_way" => \A p \in CP!Process : Len(CP!Calls(kind, p)) = 1
         /\ kind = "interactive" => \A p \in CP!Process : Len(CP!Calls(kind, p)) = 2
         /\ kind \in {"socketpair", "alone"} =>
                \A p \in CP!Process : Len(CP!Calls(kind, p)) = 4
         /\ kind = "wait4" => \A p \in CP!Process : Len(CP!Calls(kind, p)) = 1
  BY DEF CP!Calls, CP!Process, CP!Receiver, CP!Asker

\* The ends of the channels.
LEMMA Ends ==
  /\ CP!In["r1"] = "1" /\ CP!In["sd1"] = "1" /\ CP!In["r2"] = "2" /\ CP!In["sd0"] = "2"
  /\ CP!Out["w1"] = "1" /\ CP!Out["sd0"] = "1" /\ CP!Out["w2"] = "2" /\ CP!Out["sd1"] = "2"
  /\ CP!Readers("1") = {"r1", "sd1"} /\ CP!Readers("2") = {"r2", "sd0"}
  /\ CP!Writers("1") = {"w1", "sd0"} /\ CP!Writers("2") = {"w2", "sd1"}
  BY DEF CP!In, CP!Out, CP!Readers, CP!Writers

\* How far a process can be.
LEMMA HowFar ==
  ASSUME CP!TypeOK, NEW p \in CP!Process
  PROVE  /\ kind = "pipe" => at[p] \in 0 .. 3
         /\ kind = "one_way" => at[p] \in 0 .. 1
         /\ kind = "interactive" => at[p] \in 0 .. 2
         /\ kind \in {"socketpair", "alone"} => at[p] \in 0 .. 4
<1>1. at[p] \in Nat /\ at[p] <= Len(CP!Calls(kind, p))
  BY DEF CP!TypeOK
<1>2. /\ kind = "pipe" => Len(CP!Calls(kind, p)) = 3
      /\ kind = "one_way" => Len(CP!Calls(kind, p)) = 1
      /\ kind = "interactive" => Len(CP!Calls(kind, p)) = 2
      /\ kind \in {"socketpair", "alone"} => Len(CP!Calls(kind, p)) = 4
  BY LastCall
<1>3. /\ kind = "pipe" => at[p] <= 3
      /\ kind = "one_way" => at[p] <= 1
      /\ kind = "interactive" => at[p] <= 2
      /\ kind \in {"socketpair", "alone"} => at[p] <= 4
  BY <1>1, <1>2
<1> QED
  BY <1>1, <1>3

LEMMA Descriptors ==
  /\ CP!Descriptors("pipe") = {"r1", "w1"} /\ CP!Descriptors("one_way") = {"r1", "w1"}
  /\ CP!Descriptors("interactive") = {"r1", "w1", "r2", "w2"}
  /\ CP!Descriptors("socketpair") = {"sd0", "sd1"} /\ CP!Descriptors("alone") = {"sd0", "sd1"}
  BY DEF CP!Descriptors

LEMMA ReadsFrom ==
  ASSUME CP!TypeOK, NEW p \in CP!Process, NEW fd, CP!NextIs(p, "read", fd)
  PROVE  fd \in {"r1", "r2", "sd0", "sd1"} /\ CP!In[fd] \in {"1", "2"}
<1>1. fd \in {"r1", "r2", "sd0", "sd1"}
  BY NextCall DEF CP!TypeOK, CP!Kinds, CP!Process
<1> QED
  BY <1>1, Ends

\* A call that is made, and the end of a process.
LEMMA GoTypes ==
  ASSUME CP!TypeOK, NEW p \in CP!Process, NEW call, NEW fd, CP!NextIs(p, call, fd)
  PROVE  /\ UNCHANGED <<kind, fork>>
         /\ CP!Go(p) \/ at' = at => /\ at' \in [CP!Process -> Nat]
                                   /\ \A q \in CP!Process : at'[q] <= Len(CP!Calls(kind', q))
<1>1. Len(CP!Calls(kind, p)) \in Nat /\ at[p] < Len(CP!Calls(kind, p)) /\ kind' = kind /\ fork' = fork
  BY LastCall DEF CP!NextIs, CP!TypeOK, CP!Kinds
<1>2. CASE at' = at
  BY <1>1, <1>2 DEF CP!TypeOK
<1>3. CASE CP!Go(p)
  BY <1>1, <1>3 DEF CP!Go, CP!TypeOK
<1> QED
  BY <1>1, <1>2, <1>3

LEMMA EndTypes ==
  ASSUME CP!TypeOK, NEW p \in CP!Process, NEW l \in {"done", "killed", "sigpipe"}, CP!Ends(p, l)
  PROVE  /\ state' \in [CP!Process -> {"unborn", "running", "done", "killed", "sigpipe"}]
         /\ open' \in [CP!Process -> SUBSET CP!Descriptors(kind)]
  BY DEF CP!Ends, CP!TypeOK

\* No step takes a variable out of its type.
LEMMA CPTypeStep == CP!TypeOK /\ [CP!Next]_CP!vars => CP!TypeOK'
<1> SUFFICES ASSUME CP!TypeOK, [CP!Next]_CP!vars PROVE CP!TypeOK'
  OBVIOUS
<1>1. CASE UNCHANGED CP!vars
  BY <1>1 DEF CP!vars, CP!TypeOK
<1>2. CASE CP!Fork \/ CP!ForkFails
  BY <1>2 DEF CP!Fork, CP!ForkFails, CP!TypeOK, CP!Process
<1>3. ASSUME NEW p \in CP!Process, NEW fd, CP!Close(p, fd) PROVE CP!TypeOK'
  BY <1>3, GoTypes DEF CP!Close, CP!TypeOK
<1>4. ASSUME NEW p \in CP!Process, NEW fd, CP!Write(p, fd) PROVE CP!TypeOK'
  <2>1. data' \in [{"1", "2"} -> SUBSET CP!Process] /\ got' = got
    BY <1>4 DEF CP!Write, CP!TypeOK
  <2>2. /\ UNCHANGED <<kind, fork>> /\ at' \in [CP!Process -> Nat]
        /\ \A q \in CP!Process : at'[q] <= Len(CP!Calls(kind', q))
    BY <1>4, GoTypes DEF CP!Write
  <2>3. \/ UNCHANGED <<state, open>>
        \/ CP!Ends(p, "sigpipe")
    BY <1>4 DEF CP!Write
  <2> QED
    BY <2>1, <2>2, <2>3, EndTypes DEF CP!TypeOK
<1>5. ASSUME NEW p \in CP!Process, NEW fd, CP!Read(p, fd) PROVE CP!TypeOK'
  <2>1. CP!In[fd] \in {"1", "2"}
    BY <1>5, ReadsFrom DEF CP!Read
  <2>2. data[CP!In[fd]] \subseteq CP!Process
    BY <2>1 DEF CP!TypeOK
  <2>3. data' \in [{"1", "2"} -> SUBSET CP!Process]
    BY <1>5 DEF CP!Read, CP!TypeOK
  <2>4. got' \in [CP!Process -> CP!Process \union {"nothing", "end"}]
    BY <1>5, <2>2 DEF CP!Read, CP!TypeOK
  <2>5. /\ UNCHANGED <<kind, fork>> /\ at' \in [CP!Process -> Nat]
        /\ \A q \in CP!Process : at'[q] <= Len(CP!Calls(kind', q))
        /\ UNCHANGED <<state, open>>
    BY <1>5, GoTypes DEF CP!Read
  <2> QED
    BY <2>3, <2>4, <2>5 DEF CP!TypeOK
<1>6. ASSUME NEW p \in CP!Process, CP!Wait4(p) PROVE CP!TypeOK'
  BY <1>6, GoTypes DEF CP!Wait4, CP!TypeOK
<1>7. ASSUME NEW p \in CP!Process, CP!Execl(p) \/ CP!Return(p) \/ CP!Kill(p)
      PROVE  CP!TypeOK'
  <2>1. UNCHANGED <<kind, fork, at, data, got>> /\ \E l \in {"done", "killed"} : CP!Ends(p, l)
    BY <1>7 DEF CP!Execl, CP!Return, CP!Kill, CP!NextIs
  <2> QED
    BY <2>1, EndTypes DEF CP!TypeOK
<1> QED
  BY <1>1, <1>2, <1>3, <1>4, <1>5, <1>6, <1>7 DEF CP!Next, CP!Step

LEMMA LivesStep == CP!TypeOK /\ Lives /\ [CP!Next]_CP!vars => Lives'
<1> SUFFICES ASSUME CP!TypeOK, Lives, [CP!Next]_CP!vars PROVE Lives'
  OBVIOUS
<1> USE DEF CP!TypeOK, CP!Process
<1>1. CASE UNCHANGED CP!vars
  BY <1>1 DEF CP!vars, Lives
<1>2. CASE CP!Fork \/ CP!ForkFails
  BY <1>2 DEF CP!Fork, CP!ForkFails, Lives
<1>3. ASSUME NEW p \in CP!Process, CP!Step(p) PROVE Lives'
  <2>1. /\ UNCHANGED <<kind, fork>> /\ fork # "before" /\ state[p] = "running"
        /\ state' = state \/ \E s \in {"done", "sigpipe"} : state' = [state EXCEPT ![p] = s]
    BY <1>3 DEF CP!Step, CP!Close, CP!Write, CP!Read, CP!Execl, CP!Wait4, CP!Return,
                CP!NextIs, CP!Ends
  <2> QED
    BY <2>1 DEF Lives
<1>4. ASSUME NEW p \in CP!Process, CP!Kill(p) PROVE Lives'
  BY <1>4 DEF CP!Kill, CP!Ends, Lives
<1> QED
  BY <1>1, <1>2, <1>3, <1>4 DEF CP!Next

\* The child starts with what the parent has open.
LEMMA ForkTalks == ASSUME TalkInv, Undisturbed, CP!Fork PROVE Talks'
<1>1. /\ fork = "before" /\ kind # "alone"
      /\ at["parent"] = 0 /\ at["child"] = 0 /\ data["1"] = {} /\ data["2"] = {}
      /\ state' = [state EXCEPT !["child"] = "running"] /\ state["parent"] = "running"
      /\ open["parent"] = CP!Descriptors(kind)
      /\ open' = [open EXCEPT !["child"] = CP!Descriptors(kind)]
      /\ UNCHANGED <<kind, at, data, got>>
  BY DEF CP!Fork, TalkInv, Lives
<1>2. /\ state'["parent"] = "running" /\ state'["child"] = "running"
      /\ open'["parent"] = CP!Descriptors(kind) /\ open'["child"] = CP!Descriptors(kind)
  BY <1>1 DEF TalkInv, CP!TypeOK, CP!Process
<1> QED
  BY <1>1, <1>2, Descriptors
  DEF Talks, Ended, PipeTalks, OneWayTalks, InteractiveTalks, SocketpairTalks, CP!Process

\* What the calls of a process change.
LEMMA CallChanges ==
  ASSUME TalkInv, NEW p \in CP!Process, CP!Step(p)
  PROVE  /\ UNCHANGED <<kind, fork>> /\ fork # "before" /\ state[p] = "running"
         /\ \/ \E fd : /\ CP!NextIs(p, "close", fd)
                       /\ at' = [at EXCEPT ![p] = at[p] + 1]
                       /\ open' = [open EXCEPT ![p] = open[p] \ {fd}]
                       /\ UNCHANGED <<state, data, got>>
            \/ \E fd : CP!Write(p, fd)
            \/ \E fd : CP!Read(p, fd)
            \/ CP!NextIs(p, "execl", "ls") /\ CP!Execl(p)
            \/ CP!NextIs(p, "wait4", "child") /\ CP!Wait4(p)
            \/ /\ at[p] = Len(CP!Calls(kind, p))
               /\ state' = [state EXCEPT ![p] = "done"] /\ open' = [open EXCEPT ![p] = {}]
               /\ UNCHANGED <<at, data, got>>
  BY DEF CP!Step, CP!Close, CP!Write, CP!Read, CP!Execl, CP!Wait4, CP!Return, CP!NextIs,
         CP!Ends, CP!Go, TalkInv, CP!TypeOK

\* A read returns the only message there is, or the end if nobody can write one;
\* a write leaves a message if somebody can read it.
LEMMA ReadWaits ==
  ASSUME NEW p \in CP!Process, NEW fd, NEW c, CP!In[fd] = c, CP!Read(p, fd), data[c] = {}
  PROVE  ~CP!IsOpen(CP!Writers(c))
  BY DEF CP!Read

LEMMA ReadTakes ==
  ASSUME NEW p \in CP!Process, NEW fd, NEW c, CP!In[fd] = c, CP!Read(p, fd), data[c] # {}
  PROVE  /\ at' = [at EXCEPT ![p] = at[p] + 1] /\ UNCHANGED <<state, open>>
         /\ \E w \in data[c] : got' = [got EXCEPT ![p] = w]
         /\ data' = [data EXCEPT ![c] = {}]
  BY DEF CP!Read, CP!Go

LEMMA WriteLeaves ==
  ASSUME NEW p \in CP!Process, NEW fd, NEW c, CP!Out[fd] = c, CP!Write(p, fd),
         CP!IsOpen(CP!Readers(c))
  PROVE  /\ at' = [at EXCEPT ![p] = at[p] + 1] /\ UNCHANGED <<state, open, got>>
         /\ data' = [data EXCEPT ![c] = data[c] \union {p}]
  BY DEF CP!Write, CP!Go

\* pipe_example: the parent closes the end it does not use, so that its read waits
\* for the message.
LEMMA PipeStep ==
  ASSUME TalkInv, Undisturbed, kind = "pipe", PipeTalks, NEW p \in CP!Process, CP!Step(p)
  PROVE  PipeTalks'
<1> USE DEF TalkInv, CP!TypeOK, CP!Process
<1>1. /\ fork = "ok" /\ state[p] = "running" /\ UNCHANGED <<kind, fork>>
      /\ \A q \in CP!Process : state[q] \in {"running", "done"}
  BY CallChanges DEF Lives, Undisturbed, PipeTalks, Ended
<1>2. ASSUME NEW fd, CP!NextIs(p, "close", fd), at' = [at EXCEPT ![p] = at[p] + 1],
             open' = [open EXCEPT ![p] = open[p] \ {fd}], UNCHANGED <<state, data, got>>
      PROVE  PipeTalks'
  BY <1>1, <1>2, NextCall DEF PipeTalks, Ended
<1>3. ASSUME NEW fd, CP!Write(p, fd) PROVE PipeTalks'
  <2>1. p = "child" /\ at[p] = 1 /\ fd = "w1" /\ at["parent"] < 2 /\ state["parent"] = "running"
    BY <1>1, <1>3, NextCall DEF CP!Write, PipeTalks, Ended
  <2>2. CP!IsOpen(CP!Readers("1"))
    BY <1>1, <2>1, Ends DEF CP!IsOpen, PipeTalks
  <2>3. /\ data' = [data EXCEPT !["1"] = {"child"}] /\ at' = [at EXCEPT !["child"] = 2]
        /\ UNCHANGED <<state, open, got>>
    <3>1. CP!Out[fd] = "1" /\ at[p] + 1 = 2 /\ data["1"] = {}
      BY <2>1, Ends DEF PipeTalks
    <3>2. /\ at' = [at EXCEPT ![p] = at[p] + 1] /\ UNCHANGED <<state, open, got>>
          /\ data' = [data EXCEPT !["1"] = data["1"] \union {p}]
      BY <1>3, <2>2, <3>1, WriteLeaves
    <3> QED
      BY <2>1, <3>1, <3>2
  <2> QED
    BY <1>1, <2>1, <2>3 DEF PipeTalks, Ended
<1>4. ASSUME NEW fd, CP!Read(p, fd) PROVE PipeTalks'
  <2>1. p = "parent" /\ at[p] = 1 /\ fd = "r1"
    BY <1>1, <1>4, NextCall DEF CP!Read
  <2>2. at["child"] < 2 => CP!IsOpen(CP!Writers("1"))
    BY <1>1, Ends DEF CP!IsOpen, PipeTalks, Ended
  <2>3. /\ at["child"] >= 2 /\ data["1"] = {"child"}
        /\ got' = [got EXCEPT !["parent"] = "child"] /\ data' = [data EXCEPT !["1"] = {}]
        /\ at' = [at EXCEPT !["parent"] = 2] /\ UNCHANGED <<state, open>>
    <3>1. at["child"] >= 2 /\ data["1"] = {"child"}
      BY <1>4, <2>1, <2>2, Ends, ReadWaits DEF PipeTalks
    <3>2. CP!In[fd] = "1" /\ at[p] + 1 = 2
      BY <2>1, Ends
    <3>3. /\ at' = [at EXCEPT ![p] = at[p] + 1] /\ UNCHANGED <<state, open>>
          /\ got' = [got EXCEPT ![p] = "child"] /\ data' = [data EXCEPT !["1"] = {}]
      <4>1. data["1"] # {}
        BY <3>1
      <4>2. /\ at' = [at EXCEPT ![p] = at[p] + 1] /\ UNCHANGED <<state, open>>
            /\ \E w \in data["1"] : got' = [got EXCEPT ![p] = w]
            /\ data' = [data EXCEPT !["1"] = {}]
        BY <1>4, <3>2, <4>1, ReadTakes
      <4> QED
        BY <3>1, <4>2
    <3> QED
      BY <2>1, <3>1, <3>2, <3>3
  <2> QED
    BY <1>1, <2>1, <2>3 DEF PipeTalks, Ended
<1>5. ASSUME at[p] = Len(CP!Calls(kind, p)), state' = [state EXCEPT ![p] = "done"],
             open' = [open EXCEPT ![p] = {}], UNCHANGED <<at, data, got>>
      PROVE  PipeTalks'
  BY <1>5, LastCall DEF PipeTalks, Ended
<1> QED
  BY <1>2, <1>3, <1>4, <1>5, CallChanges, NextCall

\* one_way: nobody closes anything.
LEMMA OneWayStep ==
  ASSUME TalkInv, Undisturbed, kind = "one_way", OneWayTalks, NEW p \in CP!Process, CP!Step(p)
  PROVE  OneWayTalks'
<1> USE DEF TalkInv, CP!TypeOK, CP!Process
<1>1. /\ fork = "ok" /\ state[p] = "running" /\ UNCHANGED <<kind, fork>>
      /\ \A q \in CP!Process : state[q] \in {"running", "done"}
  BY CallChanges DEF Lives, Undisturbed, OneWayTalks, Ended
<1>2. ASSUME NEW fd, CP!NextIs(p, "close", fd) PROVE FALSE
  BY <1>2, NextCall
<1>3. ASSUME NEW fd, CP!Write(p, fd) PROVE OneWayTalks'
  <2>1. p = "child" /\ at[p] = 0 /\ fd = "w1"
    BY <1>1, <1>3, NextCall DEF CP!Write
  <2>0. at["parent"] = 0 /\ state["parent"] = "running"
    BY <1>1, <2>1, HowFar DEF OneWayTalks, Ended
  <2>2. CP!IsOpen(CP!Readers("1"))
    BY <1>1, <2>0, Ends DEF CP!IsOpen, OneWayTalks
  <2>3. CP!Out[fd] = "1" /\ data["1"] = {}
    BY <2>1, <2>0, Ends DEF OneWayTalks
  <2>4. /\ at' = [at EXCEPT ![p] = at[p] + 1] /\ UNCHANGED <<state, open, got>>
        /\ data' = [data EXCEPT !["1"] = data["1"] \union {p}]
    BY <1>3, <2>2, <2>3, WriteLeaves
  <2> QED
    BY <1>1, <2>0, <2>1, <2>3, <2>4 DEF OneWayTalks, Ended
<1>4. ASSUME NEW fd, CP!Read(p, fd) PROVE OneWayTalks'
  <2>1. p = "parent" /\ at[p] = 0 /\ fd = "r1" /\ CP!In[fd] = "1"
    BY <1>1, <1>4, NextCall, Ends DEF CP!Read
  <2>2. at["child"] # 1 => CP!IsOpen(CP!Writers("1"))
    BY <1>1, Ends DEF CP!IsOpen, OneWayTalks, Ended
  <2>3. at["child"] = 1 /\ data["1"] = {"child"}
    BY <1>4, <2>1, <2>2, ReadWaits DEF OneWayTalks
  <2>4. /\ at' = [at EXCEPT ![p] = at[p] + 1] /\ UNCHANGED <<state, open>>
        /\ got' = [got EXCEPT ![p] = "child"] /\ data' = [data EXCEPT !["1"] = {}]
    <3>1. data["1"] # {}
      BY <2>3
    <3>2. /\ at' = [at EXCEPT ![p] = at[p] + 1] /\ UNCHANGED <<state, open>>
          /\ \E w \in data["1"] : got' = [got EXCEPT ![p] = w]
          /\ data' = [data EXCEPT !["1"] = {}]
      BY <1>4, <2>1, <3>1, ReadTakes
    <3> QED
      BY <2>3, <3>2
  <2> QED
    BY <1>1, <2>1, <2>3, <2>4 DEF OneWayTalks, Ended
<1>5. ASSUME at[p] = Len(CP!Calls(kind, p)), state' = [state EXCEPT ![p] = "done"],
             open' = [open EXCEPT ![p] = {}], UNCHANGED <<at, data, got>>
      PROVE  OneWayTalks'
  BY <1>5, LastCall DEF OneWayTalks, Ended
<1> QED
  BY <1>2, <1>3, <1>4, <1>5, CallChanges, NextCall

\* interactive: the child asks and the parent answers, each through a pipe of its own.
LEMMA InteractiveStep ==
  ASSUME TalkInv, Undisturbed, kind = "interactive", InteractiveTalks,
         NEW p \in CP!Process, CP!Step(p)
  PROVE  InteractiveTalks'
<1> USE DEF TalkInv, CP!TypeOK, CP!Process
<1>1. /\ fork = "ok" /\ state[p] = "running" /\ UNCHANGED <<kind, fork>>
      /\ \A q \in CP!Process : state[q] \in {"running", "done"} /\ at[q] \in 0 .. 2
  BY CallChanges, HowFar DEF Lives, Undisturbed, InteractiveTalks, Ended
<1>2. ASSUME NEW fd, CP!NextIs(p, "close", fd) PROVE FALSE
  BY <1>2, NextCall
<1>3. ASSUME NEW fd, CP!Write(p, fd) PROVE InteractiveTalks'
  <2>1. \/ p = "child" /\ at[p] = 0 /\ fd = "w1"
        \/ p = "parent" /\ at[p] = 1 /\ fd = "w2"
    BY <1>1, <1>3, NextCall DEF CP!Write
  <2>2. CP!IsOpen(CP!Readers("1")) /\ CP!IsOpen(CP!Readers("2"))
    BY <1>1, Ends DEF CP!IsOpen, InteractiveTalks
  <2>3. CASE p = "child"
    <3>1. fd = "w1" /\ CP!Out[fd] = "1" /\ at["child"] = 0 /\ at["parent"] = 0 /\ data["1"] = {}
      BY <1>1, <2>1, <2>3, Ends DEF InteractiveTalks
    <3>2. /\ at' = [at EXCEPT ![p] = at[p] + 1] /\ UNCHANGED <<state, open, got>>
          /\ data' = [data EXCEPT !["1"] = data["1"] \union {p}]
      BY <1>3, <2>2, <3>1, WriteLeaves
    <3> QED
      BY <1>1, <2>3, <3>1, <3>2 DEF InteractiveTalks, Ended
  <2>4. CASE p = "parent"
    <3>1. /\ fd = "w2" /\ CP!Out[fd] = "2" /\ at["parent"] = 1 /\ at["child"] = 1
          /\ data["2"] = {}
      BY <1>1, <2>1, <2>4, Ends DEF InteractiveTalks
    <3>2. /\ at' = [at EXCEPT ![p] = at[p] + 1] /\ UNCHANGED <<state, open, got>>
          /\ data' = [data EXCEPT !["2"] = data["2"] \union {p}]
      BY <1>3, <2>2, <3>1, WriteLeaves
    <3> QED
      BY <1>1, <2>4, <3>1, <3>2 DEF InteractiveTalks, Ended
  <2> QED
    BY <2>3, <2>4
<1>4. ASSUME NEW fd, CP!Read(p, fd) PROVE InteractiveTalks'
  <2>1. \/ p = "parent" /\ at[p] = 0 /\ fd = "r1"
        \/ p = "child" /\ at[p] = 1 /\ fd = "r2"
    BY <1>1, <1>4, NextCall DEF CP!Read
  <2>2. CP!IsOpen(CP!Writers("1")) /\ CP!IsOpen(CP!Writers("2"))
    BY <1>1, Ends DEF CP!IsOpen, InteractiveTalks
  <2>3. CASE p = "parent"
    <3>1. CP!In[fd] = "1" /\ at["parent"] = 0
      BY <2>1, <2>3, Ends
    <3>2. data["1"] = {"child"} /\ at["child"] = 1
      BY <1>1, <1>4, <2>2, <3>1, ReadWaits DEF InteractiveTalks
    <3>3. data["1"] # {}
      BY <3>2
    <3>4. /\ at' = [at EXCEPT ![p] = at[p] + 1] /\ UNCHANGED <<state, open>>
          /\ \E w \in data["1"] : got' = [got EXCEPT ![p] = w]
          /\ data' = [data EXCEPT !["1"] = {}]
      BY <1>4, <3>1, <3>3, ReadTakes
    <3>5. got' = [got EXCEPT !["parent"] = "child"]
      BY <2>3, <3>2, <3>4
    <3> QED
      BY <1>1, <2>3, <3>1, <3>2, <3>4, <3>5 DEF InteractiveTalks, Ended
  <2>4. CASE p = "child"
    <3>1. CP!In[fd] = "2" /\ at["child"] = 1
      BY <2>1, <2>4, Ends
    <3>2. data["2"] = {"parent"} /\ at["parent"] = 2
      BY <1>1, <1>4, <2>2, <3>1, ReadWaits DEF InteractiveTalks
    <3>3. data["2"] # {}
      BY <3>2
    <3>4. /\ at' = [at EXCEPT ![p] = at[p] + 1] /\ UNCHANGED <<state, open>>
          /\ \E w \in data["2"] : got' = [got EXCEPT ![p] = w]
          /\ data' = [data EXCEPT !["2"] = {}]
      BY <1>4, <3>1, <3>3, ReadTakes
    <3>5. got' = [got EXCEPT !["child"] = "parent"]
      BY <2>4, <3>2, <3>4
    <3> QED
      BY <1>1, <2>4, <3>1, <3>2, <3>4, <3>5 DEF InteractiveTalks, Ended
  <2> QED
    BY <2>3, <2>4
<1>5. ASSUME at[p] = Len(CP!Calls(kind, p)), state' = [state EXCEPT ![p] = "done"],
             open' = [open EXCEPT ![p] = {}], UNCHANGED <<at, data, got>>
      PROVE  InteractiveTalks'
  BY <1>5, LastCall DEF InteractiveTalks, Ended
<1> QED
  BY <1>2, <1>3, <1>4, <1>5, CallChanges, NextCall

\* socketpair_fork: parent and child close the descriptor of the other one.
LEMMA SocketpairStep ==
  ASSUME TalkInv, Undisturbed, kind = "socketpair", SocketpairTalks,
         NEW p \in CP!Process, CP!Step(p)
  PROVE  SocketpairTalks'
<1> USE DEF TalkInv, CP!TypeOK, CP!Process
<1>1. /\ fork = "ok" /\ state[p] = "running" /\ UNCHANGED <<kind, fork>>
      /\ \A q \in CP!Process : state[q] \in {"running", "done"} /\ at[q] \in 0 .. 4
  BY CallChanges, HowFar DEF Lives, Undisturbed, SocketpairTalks, Ended
<1>2. ASSUME NEW fd, CP!NextIs(p, "close", fd), at' = [at EXCEPT ![p] = at[p] + 1],
             open' = [open EXCEPT ![p] = open[p] \ {fd}], UNCHANGED <<state, data, got>>
      PROVE  SocketpairTalks'
  <2>1. \/ p = "child" /\ at[p] = 0 /\ fd = "sd0"
        \/ p = "child" /\ at[p] = 3 /\ fd = "sd1"
        \/ p = "parent" /\ at[p] = 0 /\ fd = "sd1"
        \/ p = "parent" /\ at[p] = 3 /\ fd = "sd0"
    BY <1>1, <1>2, NextCall
  <2> QED
    BY <1>1, <1>2, <2>1 DEF SocketpairTalks, Ended
<1>3. ASSUME NEW fd, CP!Write(p, fd) PROVE SocketpairTalks'
  <2>1. \/ p = "child" /\ at[p] = 1 /\ fd = "sd1"
        \/ p = "parent" /\ at[p] = 2 /\ fd = "sd0"
    BY <1>1, <1>3, NextCall DEF CP!Write
  <2>2. /\ at["parent"] < 4 => CP!IsOpen(CP!Readers("2"))
        /\ at["child"] < 4 => CP!IsOpen(CP!Readers("1"))
    BY <1>1, Ends DEF CP!IsOpen, SocketpairTalks, Ended
  <2>3. CASE p = "child"
    <3>1. fd = "sd1" /\ CP!Out[fd] = "2" /\ at["child"] = 1 /\ at["parent"] < 2 /\ data["2"] = {}
      BY <1>1, <2>1, <2>3, Ends DEF SocketpairTalks
    <3>2. CP!IsOpen(CP!Readers("2"))
      BY <1>1, <2>2, <3>1
    <3>3. /\ at' = [at EXCEPT ![p] = at[p] + 1] /\ UNCHANGED <<state, open, got>>
          /\ data' = [data EXCEPT !["2"] = data["2"] \union {p}]
      BY <1>3, <3>2, <3>1, WriteLeaves
    <3> QED
      BY <1>1, <2>3, <3>1, <3>3 DEF SocketpairTalks, Ended
  <2>4. CASE p = "parent"
    <3>1. /\ fd = "sd0" /\ CP!Out[fd] = "1" /\ at["parent"] = 2 /\ at["child"] = 2
          /\ data["1"] = {}
      BY <1>1, <2>1, <2>4, Ends DEF SocketpairTalks
    <3>2. CP!IsOpen(CP!Readers("1"))
      BY <1>1, <2>2, <3>1
    <3>3. /\ at' = [at EXCEPT ![p] = at[p] + 1] /\ UNCHANGED <<state, open, got>>
          /\ data' = [data EXCEPT !["1"] = data["1"] \union {p}]
      BY <1>3, <3>2, <3>1, WriteLeaves
    <3> QED
      BY <1>1, <2>4, <3>1, <3>3 DEF SocketpairTalks, Ended
  <2> QED
    BY <2>3, <2>4
<1>4. ASSUME NEW fd, CP!Read(p, fd) PROVE SocketpairTalks'
  <2>1. \/ p = "parent" /\ at[p] = 1 /\ fd = "sd0"
        \/ p = "child" /\ at[p] = 2 /\ fd = "sd1"
    BY <1>1, <1>4, NextCall DEF CP!Read
  <2>2. /\ at["child"] < 4 => CP!IsOpen(CP!Writers("2"))
        /\ at["parent"] < 4 => CP!IsOpen(CP!Writers("1"))
    BY <1>1, Ends DEF CP!IsOpen, SocketpairTalks, Ended
  <2>3. CASE p = "parent"
    <3>1. CP!In[fd] = "2" /\ at["parent"] = 1
      BY <2>1, <2>3, Ends
    <3>2. data["2"] = {"child"} /\ at["child"] = 2
      BY <1>1, <1>4, <2>2, <3>1, ReadWaits DEF SocketpairTalks
    <3>3. data["2"] # {}
      BY <3>2
    <3>4. /\ at' = [at EXCEPT ![p] = at[p] + 1] /\ UNCHANGED <<state, open>>
          /\ \E w \in data["2"] : got' = [got EXCEPT ![p] = w]
          /\ data' = [data EXCEPT !["2"] = {}]
      BY <1>4, <3>1, <3>3, ReadTakes
    <3>5. got' = [got EXCEPT !["parent"] = "child"]
      BY <2>3, <3>2, <3>4
    <3> QED
      BY <1>1, <2>3, <3>1, <3>2, <3>4, <3>5 DEF SocketpairTalks, Ended
  <2>4. CASE p = "child"
    <3>1. CP!In[fd] = "1" /\ at["child"] = 2
      BY <2>1, <2>4, Ends
    <3>2. data["1"] = {"parent"} /\ at["parent"] >= 3
      BY <1>1, <1>4, <2>2, <3>1, ReadWaits DEF SocketpairTalks
    <3>3. data["1"] # {}
      BY <3>2
    <3>4. /\ at' = [at EXCEPT ![p] = at[p] + 1] /\ UNCHANGED <<state, open>>
          /\ \E w \in data["1"] : got' = [got EXCEPT ![p] = w]
          /\ data' = [data EXCEPT !["1"] = {}]
      BY <1>4, <3>1, <3>3, ReadTakes
    <3>5. got' = [got EXCEPT !["child"] = "parent"]
      BY <2>4, <3>2, <3>4
    <3> QED
      BY <1>1, <2>4, <3>1, <3>2, <3>4, <3>5 DEF SocketpairTalks, Ended
  <2> QED
    BY <2>3, <2>4
<1>5. ASSUME at[p] = Len(CP!Calls(kind, p)), state' = [state EXCEPT ![p] = "done"],
             open' = [open EXCEPT ![p] = {}], UNCHANGED <<at, data, got>>
      PROVE  SocketpairTalks'
  BY <1>5, LastCall DEF SocketpairTalks, Ended
<1> QED
  BY <1>2, <1>3, <1>4, <1>5, CallChanges, NextCall

\* socketpair_ex: the one process writes to itself.
LEMMA AloneStep ==
  ASSUME TalkInv, Undisturbed, kind = "alone", AloneTalks, NEW p \in CP!Process, CP!Step(p)
  PROVE  AloneTalks'
<1> USE DEF TalkInv, CP!TypeOK, CP!Process
<1>1. /\ p = "parent" /\ state[p] = "running" /\ UNCHANGED <<kind, fork>> /\ at[p] \in 0 .. 4
  BY CallChanges, HowFar DEF Lives
<1>2. ASSUME NEW fd, CP!NextIs(p, "close", fd), at' = [at EXCEPT ![p] = at[p] + 1],
             open' = [open EXCEPT ![p] = open[p] \ {fd}], UNCHANGED <<state, data, got>>
      PROVE  AloneTalks'
  <2>1. at[p] \in {2, 3}
    BY <1>2, NextCall
  <2> QED
    BY <1>1, <1>2, <2>1 DEF AloneTalks, Ended
<1>3. ASSUME NEW fd, CP!Write(p, fd) PROVE AloneTalks'
  <2>1. at[p] = 0 /\ fd = "sd0" /\ CP!Out[fd] = "1"
    BY <1>3, NextCall, Ends DEF CP!Write
  <2>2. CP!IsOpen(CP!Readers("1")) /\ data["1"] = {}
    BY <1>1, <2>1, Ends DEF CP!IsOpen, AloneTalks
  <2>3. /\ at' = [at EXCEPT ![p] = at[p] + 1] /\ UNCHANGED <<state, open, got>>
        /\ data' = [data EXCEPT !["1"] = data["1"] \union {p}]
    BY <1>3, <2>1, <2>2, WriteLeaves
  <2> QED
    BY <1>1, <2>1, <2>2, <2>3 DEF AloneTalks, Ended
<1>4. ASSUME NEW fd, CP!Read(p, fd) PROVE AloneTalks'
  <2>1. at[p] = 1 /\ CP!In[fd] = "1"
    BY <1>4, NextCall, Ends DEF CP!Read
  <2>2. data["1"] = {"parent"}
    BY <1>1, <2>1 DEF AloneTalks
  <2>3. data["1"] # {}
    BY <2>2
  <2>4. /\ at' = [at EXCEPT ![p] = at[p] + 1] /\ UNCHANGED <<state, open>>
        /\ \E w \in data["1"] : got' = [got EXCEPT ![p] = w]
        /\ data' = [data EXCEPT !["1"] = {}]
    BY <1>4, <2>1, <2>3, ReadTakes
  <2> QED
    BY <1>1, <2>1, <2>2, <2>4 DEF AloneTalks, Ended
<1>5. ASSUME at[p] = Len(CP!Calls(kind, p)), state' = [state EXCEPT ![p] = "done"],
             open' = [open EXCEPT ![p] = {}], UNCHANGED <<at, data, got>>
      PROVE  AloneTalks'
  BY <1>1, <1>5, LastCall DEF AloneTalks, Ended
<1> QED
  BY <1>2, <1>3, <1>4, <1>5, CallChanges, NextCall

\* multi_process_example: the child becomes ls, and nobody writes.
LEMMA Wait4Step ==
  ASSUME TalkInv, kind = "wait4", \A q \in CP!Process : state[q] # "sigpipe",
         NEW p \in CP!Process, CP!Step(p)
  PROVE  \A q \in CP!Process : state'[q] # "sigpipe"
<1>1. state' = state \/ state' = [state EXCEPT ![p] = "done"]
  BY CallChanges, NextCall DEF CP!Write, CP!Read, CP!Execl, CP!Wait4, CP!Ends, TalkInv
<1> QED
  BY <1>1 DEF TalkInv, CP!TypeOK, CP!Process

LEMMA TalkInit == CP!Init => TalkInv
<1> SUFFICES ASSUME CP!Init PROVE TalkInv
  OBVIOUS
<1> USE DEF CP!Init, CP!Process
<1>1. CP!TypeOK
  <2>1. \A p \in CP!Process : Len(CP!Calls(kind, p)) \in Nat
    BY DEF CP!Calls, CP!Kinds, CP!Receiver, CP!Asker
  <2> QED
    BY <2>1 DEF CP!TypeOK, CP!Kinds
<1>2. Lives
  BY DEF Lives, CP!Kinds
<1>3. Talks
  BY Descriptors
  DEF Talks, Ended, PipeTalks, OneWayTalks, InteractiveTalks, SocketpairTalks, AloneTalks
<1> QED
  BY <1>1, <1>2, <1>3 DEF TalkInv

\* A fork that fails and an interrupt end the undisturbed run; before the fork
\* nobody but the program without one makes a call.
LEMMA TalkStep == TalkInv /\ [CP!Next]_CP!vars => TalkInv'
<1> SUFFICES ASSUME TalkInv, [CP!Next]_CP!vars PROVE TalkInv'
  OBVIOUS
<1>1. CP!TypeOK' /\ Lives'
  BY CPTypeStep, LivesStep DEF TalkInv
<1>2. ASSUME Undisturbed' PROVE Talks'
  <2>1. CASE UNCHANGED CP!vars
    BY <1>2, <2>1 DEF CP!vars, TalkInv, Undisturbed, Talks, Ended, PipeTalks, OneWayTalks,
                      InteractiveTalks, SocketpairTalks, AloneTalks
  <2>2. CASE CP!Fork
    <3>1. Undisturbed
      BY <1>2, <2>2 DEF Undisturbed, CP!Fork, TalkInv, Lives, CP!TypeOK, CP!Process
    <3> QED
      BY <2>2, <3>1, ForkTalks
  <2>3. CASE CP!ForkFails
    BY <1>2, <2>3 DEF CP!ForkFails, Undisturbed
  <2>4. ASSUME NEW p \in CP!Process, CP!Kill(p) PROVE FALSE
    BY <1>2, <2>4 DEF CP!Kill, CP!Ends, Undisturbed, TalkInv, CP!TypeOK, CP!Process
  <2>5. ASSUME NEW p \in CP!Process, CP!Step(p) PROVE Talks'
    <3>1. UNCHANGED <<kind, fork>> /\ state[p] = "running"
          /\ (state' = state \/ \E s \in {"done", "sigpipe"} : state' = [state EXCEPT ![p] = s])
      BY <2>5 DEF CP!Step, CP!Close, CP!Write, CP!Read, CP!Execl, CP!Wait4, CP!Return,
                  CP!NextIs, CP!Ends
    <3>2. Undisturbed
      BY <1>2, <3>1 DEF Undisturbed, TalkInv, CP!TypeOK, CP!Process
    <3>3. Talks
      BY <3>2 DEF TalkInv
    <3> QED
      BY <2>5, <3>1, <3>2, <3>3, PipeStep, OneWayStep, InteractiveStep, SocketpairStep,
         AloneStep, Wait4Step DEF Talks
  <2> QED
    BY <2>1, <2>2, <2>3, <2>4, <2>5 DEF CP!Next
<1> QED
  BY <1>1, <1>2 DEF TalkInv

\* Who has ended, undisturbed, has made all its calls, and its reads returned the
\* other's message.
LEMMA TalkMeans == TalkInv => CP!Understood
<1> SUFFICES ASSUME TalkInv, fork \in {"ok", "never"},
                    \A p \in CP!Process : state[p] # "killed",
                    NEW p \in CP!Process
             PROVE  /\ state[p] # "sigpipe"
                    /\ state[p] = "done" /\ CP!Asks(p) => got[p] = CP!Partner(p)
  BY DEF CP!Understood
<1>1. Talks /\ CP!TypeOK /\ Lives /\ kind \in CP!Kinds
  BY DEF TalkInv, Undisturbed, CP!TypeOK
<1>2. /\ kind \in {"pipe", "one_way"} /\ p = "child" => ~CP!Asks(p)
      /\ kind = "wait4" => ~CP!Asks(p)
  <2>1. CASE kind \in {"pipe", "one_way"} /\ p = "child"
    BY <2>1 DEF CP!Asks, CP!Calls
  <2>2. CASE kind = "wait4"
    BY <2>2 DEF CP!Asks, CP!Calls, CP!Process
  <2> QED
    BY <2>1, <2>2
<1>3. kind = "alone" => p = "parent" \/ state[p] = "unborn"
  BY <1>1 DEF Lives, CP!Process
<1> QED
  BY <1>1, <1>2, <1>3
  DEF Talks, Ended, PipeTalks, OneWayTalks, InteractiveTalks, SocketpairTalks, AloneTalks,
      CP!Partner, CP!Process, CP!Kinds
-----------------------------------------------------------------------------
\* --- The composition.
\* The program that is used moves; the state of the others stays as it is.
LEMMA OneProgram ==
  /\ AllInit => Init /\ AM!Init /\ CP!Init
  /\ [AllNext]_allVars => [Next]_vars /\ [AM!Next]_AM!vars /\ [CP!Next]_CP!vars
  BY DEF AllInit, AllNext, allVars, amVars, cpVars, vars, AM!vars, CP!vars

AllInv == IInv /\ AMTypeInv /\ WriteInv /\ FamilyInv /\ TalkInv

LEMMA AllInvariant == AllSpec => []AllInv
<1>1. AllInit => AllInv
  <2>1. AM!Init => WriteInv
    BY DEF AM!Init, WriteInv
  <2> QED
    BY <2>1, OneProgram, InvInit, AMTypeInit, FamilyInit, TalkInit DEF AllInv
<1>2. AllInv /\ [AllNext]_allVars => AllInv'
  BY OneProgram, InvStep, AMTypeStep, AMWriteStep, FamilyStep, TalkStep DEF AllInv
<1> QED
  BY <1>1, <1>2, PTL DEF AllSpec

\* Every variable of the three programs stays in its type; in particular the
\* parent of AnonMonitor makes FORK_NUM reports at most.
THEOREM TypesCorrect == AllSpec => []TypesOK
<1>1. AllInv => TypesOK
  BY DEF AllInv, IInv, AMTypeInv, TalkInv, TypesOK
<1> QED
  BY <1>1, AllInvariant, PTL

\* multi_thread_example/main.c:33-60: a thread is between lock and unlock if and
\* only if it owns the mutex.
THEOREM MutexHolds == AllSpec => []MutualExclusion
<1>1. AllInv => MutualExclusion
  BY DEF AllInv, IInv, Core
<1> QED
  BY <1>1, AllInvariant, PTL

\* multi_thread_example/main.c:41,58: no addition is lost or made twice.
THEOREM SumHolds == AllSpec => []SumOK
<1>1. AllInv => SumOK
  BY DEF AllInv, IInv, Core
<1> QED
  BY <1>1, AllInvariant, PTL

\* multi_thread_example/main.c:39,57: the values in the debug file rise strictly,
\* over both threads.
THEOREM LogHolds == AllSpec => []LogRises
<1>1. AllInv => LogRises
  BY DEF AllInv, IInv, Core, LogOK
<1> QED
  BY <1>1, AllInvariant, PTL

\* multi_thread_example/main.c:88-111: after the two joins the sum and the log are
\* complete and the mutex is free.
THEOREM ResultHolds == AllSpec => []JoinedResult
<1>1. AllInv => JoinedResult
  BY Joined DEF AllInv, JoinedResult
<1> QED
  BY <1>1, AllInvariant, PTL

\* mmap_example_2/main.c, anon_monitor: the parent does not report a change twice.
THEOREM ReportsHold == AllSpec => []AM!ReportsAreEarned
<1>1. AllInv => AM!ReportsAreEarned
  BY DEF AllInv, WriteInv, AM!ReportsAreEarned
<1> QED
  BY <1>1, AllInvariant, PTL

\* mmap_example_2/main.c, do_anon: none of its waits finds no child; a parent whose forks
\* all succeed has reaped every child when it ends, and one whose fork fails leaves the
\* children it has forked until then, all of them unwaited for.
THEOREM NoZombiesHold == AllSpec => []NoZombies
<1>1. AllInv => NoZombies
  BY DEF AllInv, FamilyInv, NoZombies
<1> QED
  BY <1>1, AllInvariant, PTL

\* The six programs of ChildProcess: who reads gets the other's message and nobody is
\* hit by SIGPIPE, in every order of the calls, unless somebody is interrupted or
\* fork fails.
THEOREM UnderstoodHolds == AllSpec => []Understood
<1>1. AllInv => Understood
  BY TalkMeans DEF AllInv, Understood
<1> QED
  BY <1>1, AllInvariant, PTL
=============================================================================
