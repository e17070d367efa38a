----------------------- MODULE UnnamedSemaphoreProofs -----------------------
(***************************************************************************)
(* Proofs about UnnamedSemaphore, for any sets of users and any bounds.    *)
(***************************************************************************)
EXTENDS UnnamedSemaphore, FiniteSetTheorems, TLAPS

Watching == {"watch", "print", "copy"}

\* While it watches, the monitor has reports left to make; a get that has
\* stored its count is done.
TypeInv ==
    /\ TypeOK
    /\ mpc \in Watching \union {"mapped"} => n < REPORTS
    /\ stored = {g \in Getter : gpc[g] = "done"}

\* What the copy and the memory differ by, and what was noticed, is a write that
\* has not been reported.
ReportInv ==
    /\ mpc = "mapped" => n = 0
    /\ mpc \in Watching => n <= changes
    /\ mpc \in Watching /\ local # mem => n < changes
    /\ mpc \in {"print", "copy"} => n < changes

\* The starts of the monitor that may have got to sem_init give SEM_NUM each.
Held == mem.sem + Cardinality(Entered) + Cardinality(stored)

GrantInv ==
    /\ EntriesAreGranted
    /\ mpc \in {"opened", "mapped"} =>
          runs > 0 /\ Held <= SEM_NUM * (runs - 1) + Cardinality(Posted)

\* A count that was read is no more than the gets that have stored theirs; who
\* is alone inside has read the count as it is.
KeepInv ==
    /\ IncrementsAreKept
    /\ \A g \in Getter : loaded[g] <= Cardinality(stored)
    /\ ~crowded => /\ \A g, h \in Entered : g = h
                   /\ \A g \in Getter : gpc[g] = "store" => loaded[g] = mem.count
-----------------------------------------------------------------------------
\* stored, Entered and Posted are finite.
LEMMA Finite ==
    ASSUME TypeInv
    PROVE  /\ IsFiniteSet(stored) /\ Cardinality(stored) \in Nat
           /\ IsFiniteSet(Entered) /\ Cardinality(Entered) \in Nat
           /\ IsFiniteSet(Posted) /\ Cardinality(Posted) \in Nat
<1>1. stored \in SUBSET Getter /\ Entered \in SUBSET Getter /\ Posted \in SUBSET Putter
  BY DEF TypeInv, TypeOK, Entered, Posted
<1> QED
  BY <1>1, UnnamedAssumption, FS_Subset, FS_CardinalityType

Memory == [sem : Nat, waiters : Int, pid : Getter \union {NoPid}, count : Nat]

\* The semaphore's own bytes may change within their type.
LEMMA SemChanges ==
    ASSUME NEW m \in Memory, NEW s \in Nat, NEW w \in Int
    PROVE  [m EXCEPT !.sem = s, !.waiters = w] \in Memory
  BY DEF Memory

\* No step takes a variable out of its type.
LEMMA TypeStep == TypeInv /\ [Next]_vars => TypeInv'
<1> SUFFICES ASSUME TypeInv, [Next]_vars PROVE TypeInv'
  OBVIOUS
<1> USE UnnamedAssumption DEF TypeInv, TypeOK, monitor, gets, Watching
<1>1. CASE UNCHANGED vars
  BY <1>1 DEF vars
<1>2. CASE MOpen
  BY <1>2 DEF MOpen
<1>3. CASE Watch
  <2>1. CASE MSize
    BY <2>1 DEF MSize, Zero
  <2>2. CASE MInit
    <3>1. /\ mem \in Memory /\ SEM_NUM \in Nat /\ 0 \in Int
          /\ mem' = [mem EXCEPT !.sem = SEM_NUM, !.waiters = 0]
      BY <2>2 DEF MInit, Memory
    <3>2. mem' \in Memory
      BY <3>1, SemChanges
    <3> QED
      BY <2>2, <3>2 DEF MInit, Memory
  <2>3. CASE MNotice
    BY <2>3 DEF MNotice
  <2>4. CASE MPrint
    BY <2>4 DEF MPrint
  <2>5. CASE MCopy
    BY <2>5 DEF MCopy, LastReport
  <2> QED
    BY <1>3, <2>1, <2>2, <2>3, <2>4, <2>5 DEF Watch
<1>4. CASE MKill
  BY <1>4 DEF MKill
<1>5. ASSUME NEW g \in Getter, Get(g) \/ GKill(g) PROVE TypeInv'
  <2> USE DEF GoTo, Waiting, Inside, Write, Enter
  <2>1. CASE GOpen(g)
    BY <2>1 DEF GOpen
  <2>2. CASE GTake(g)
    BY <2>2 DEF GTake
  <2>3. CASE GSleep(g)
    BY <2>3 DEF GSleep
  <2>4. CASE GWakeTake(g)
    <3>1. /\ mem \in Memory /\ mem.sem - 1 \in Nat /\ mem.waiters - 1 \in Int
          /\ mem' = [mem EXCEPT !.sem = mem.sem - 1, !.waiters = mem.waiters - 1]
      BY <2>4 DEF GWakeTake, Memory
    <3>2. mem' \in Memory
      BY <3>1, SemChanges
    <3>3. UNCHANGED <<shm, mpc, local, n, runs, printed, loaded, ppc, stored>>
          /\ crowded' = (crowded \/ \E h \in Getter : gpc[h] \in Inside)
          /\ changes' \in Nat /\ gpc' = [gpc EXCEPT ![g] = "pid"] /\ gpc[g] = "woken"
      BY <2>4 DEF GWakeTake
    <3> QED
      BY <3>2, <3>3 DEF Memory
  <2>5. CASE GPid(g)
    BY <2>5 DEF GPid
  <2>6. CASE GLoad(g)
    BY <2>6 DEF GLoad
  <2>7. CASE GStore(g)
    BY <2>7 DEF GStore, Increment
  <2>8. CASE GKill(g)
    BY <2>8 DEF GKill
  <2> QED
    BY <1>5, <2>1, <2>2, <2>3, <2>4, <2>5, <2>6, <2>7, <2>8 DEF Get
<1>6. ASSUME NEW p \in Putter, Put(p) PROVE TypeInv'
  <2>1. CASE PFail(p)
    BY <2>1 DEF PFail
  <2>2. CASE PPost(p)
    <3>1. gpc' = gpc \/ \E g \in Getter : gpc[g] = "asleep" /\ GoTo(g, "woken")
      BY <2>2 DEF PPost
    <3> QED
      BY <2>2, <3>1 DEF PPost, Write, GoTo, Waiting, Inside
  <2> QED
    BY <1>6, <2>1, <2>2 DEF Put
<1> QED
  BY <1>1, <1>2, <1>3, <1>4, <1>5, <1>6 DEF Next

LEMMA TypeInit == Init => TypeInv
<1> SUFFICES ASSUME Init PROVE TypeInv
  OBVIOUS
<1>1. /\ 0 \in Nat /\ 0 \in Int /\ 0 \in 0 .. REPORTS /\ 0 \in 0 .. MaxRuns /\ 0 < REPORTS
  BY UnnamedAssumption
<1>2. Zero \in [sem : Nat, waiters : Int, pid : Getter \union {NoPid}, count : Nat]
  BY <1>1 DEF Zero
<1>3. /\ shm \in {"none", "empty", "sized"} /\ mem = Zero /\ local = Zero /\ mpc = "off"
      /\ n = 0 /\ runs = 0 /\ stored = {} /\ changes = 0
      /\ gpc = [g \in Getter |-> "start"] /\ loaded = [g \in Getter |-> 0]
      /\ ppc = [p \in Putter |-> "start"] /\ printed = [pid |-> NoPid, count |-> 0]
  BY DEF Init
<1>4. crowded \in BOOLEAN
  BY DEF Init
<1>5. TypeOK
  BY <1>1, <1>2, <1>3, <1>4 DEF TypeOK
<1>6. stored = {g \in Getter : gpc[g] = "done"}
  BY <1>3
<1> QED
  BY <1>1, <1>3, <1>5, <1>6 DEF TypeInv, Watching

LEMMA TypeInvariant == Spec => []TypeInv
  BY TypeInit, TypeStep, PTL DEF Spec

\* Type correctness, for any users and any number of restarts of the monitor.
THEOREM TypeCorrect == Spec => []TypeOK
  BY TypeInvariant, PTL DEF TypeInv
-----------------------------------------------------------------------------
\* Each report is owed to a write of its own.
LEMMA ReportStep == TypeInv /\ ReportInv /\ [Next]_vars => ReportInv'
<1> SUFFICES ASSUME TypeInv, ReportInv, [Next]_vars PROVE ReportInv'
  OBVIOUS
<1> n \in Nat /\ (changes \in Nat \/ mpc \notin Watching)
  BY DEF TypeInv, TypeOK
<1> USE DEF ReportInv, monitor, gets, Watching
<1>1. CASE UNCHANGED vars
  BY <1>1 DEF vars
<1>2. CASE MOpen \/ MKill
  BY <1>2 DEF MOpen, MKill
<1>3. CASE Watch
  <2>1. CASE MSize \/ MInit
    BY <2>1 DEF MSize, MInit
  <2>2. CASE MNotice \/ MPrint
    BY <2>2 DEF MNotice, MPrint, Differs
  <2>3. CASE MCopy
    BY <2>3 DEF MCopy
  <2> QED
    BY <1>3, <2>1, <2>2, <2>3 DEF Watch
<1>4. ASSUME NEW g \in Getter, Get(g) \/ GKill(g) PROVE ReportInv'
  <2>1. UNCHANGED <<mpc, local, n>> /\ (UNCHANGED <<mem, changes>> \/ changes' = changes + 1)
    BY <1>4 DEF Get, GKill, GOpen, GTake, GSleep, GWakeTake, GPid, GLoad, GStore, Write
  <2> QED
    BY <2>1
<1>5. ASSUME NEW p \in Putter, Put(p) PROVE ReportInv'
  <2>1. UNCHANGED <<mpc, local, n>> /\ (UNCHANGED <<mem, changes>> \/ changes' = changes + 1)
    BY <1>5 DEF Put, PFail, PPost, Write
  <2> QED
    BY <2>1
<1> QED
  BY <1>1, <1>2, <1>3, <1>4, <1>5 DEF Next

LEMMA ReportInit == Init => ReportInv
  BY DEF Init, ReportInv, Watching

\* The monitor never stops on fewer writes than reports, whatever the users and
\* earlier monitors do.
THEOREM ReportsHold == Spec => []ReportsAreEarned
<1>1. ReportInv => ReportsAreEarned
  BY DEF ReportInv, ReportsAreEarned, Watching
<1> QED
  BY <1>1, ReportInit, ReportStep, TypeInvariant, PTL DEF Spec
-----------------------------------------------------------------------------
\* What k starts of the monitor give.
LEMMA Granted ==
    ASSUME NEW k \in Nat
    PROVE  SEM_NUM * k \in Nat /\ SEM_NUM * (k + 1) = SEM_NUM * k + SEM_NUM /\ SEM_NUM \in Nat
  BY UnnamedAssumption

\* How Entered and stored change with the place of one get.
LEMMA Moves ==
    ASSUME TypeInv, NEW g \in Getter, NEW l, gpc' = [gpc EXCEPT ![g] = l]
    PROVE  /\ l \in Inside => Entered' = Entered \union {g}
           /\ l \notin Inside => Entered' = Entered \ {g}
           /\ gpc[g] \in Inside /\ l \in Inside => Entered' = Entered
           /\ gpc[g] \notin Inside /\ l \notin Inside => Entered' = Entered
           /\ gpc[g] \notin Inside => g \notin Entered
  BY DEF TypeInv, TypeOK, Entered

\* Who enters was outside, who has stored was inside.
LEMMA Enters ==
    ASSUME TypeInv, NEW g \in Getter, GTake(g) \/ GWakeTake(g)
    PROVE  /\ Entered' = Entered \union {g} /\ g \notin Entered /\ UNCHANGED <<stored, loaded>>
           /\ crowded' = (crowded \/ Entered # {})
           /\ mem.sem > 0 /\ mem'.sem = mem.sem - 1 /\ mem'.count = mem.count
<1>1. /\ mem.sem > 0 /\ mem'.sem = mem.sem - 1 /\ mem'.count = mem.count
      /\ UNCHANGED <<stored, loaded>>
      /\ crowded' = (crowded \/ \E h \in Getter : gpc[h] \in Inside)
  BY DEF GTake, GWakeTake, Enter, Write, TypeInv, TypeOK
<1>2. gpc' = [gpc EXCEPT ![g] = "pid"] /\ gpc[g] \notin Inside /\ "pid" \in Inside
  BY DEF GTake, GWakeTake, Enter, GoTo, Inside
<1>3. (\E h \in Getter : gpc[h] \in Inside) <=> Entered # {}
  BY DEF Entered
<1> QED
  BY <1>1, <1>2, <1>3, Moves

LEMMA Leaves ==
    ASSUME TypeInv, NEW g \in Getter, GStore(g)
    PROVE  /\ Entered' = Entered \ {g} /\ g \in Entered
           /\ stored' = stored \union {g} /\ g \notin stored
           /\ mem'.sem = mem.sem /\ mem'.count = loaded[g] + 1
<1>1. gpc' = [gpc EXCEPT ![g] = "done"] /\ gpc[g] = "store" /\ "done" \notin Inside
  BY DEF GStore, GoTo, Inside
<1>2. stored' = stored \union {g} /\ g \notin stored /\ g \in Entered
  BY <1>1 DEF GStore, TypeInv, Entered, Inside
<1>3. mem'.sem = mem.sem /\ mem'.count = loaded[g] + 1
  BY DEF GStore, Write, Increment, TypeInv, TypeOK
<1> QED
  BY <1>1, <1>2, <1>3, Moves

\* The other steps of a get leave it inside or outside, or end it.
LEMMA Stays ==
    ASSUME TypeInv, NEW g \in Getter,
           GOpen(g) \/ GSleep(g) \/ GPid(g) \/ GLoad(g) \/ GKill(g)
    PROVE  /\ Entered' = Entered \/ Entered' = Entered \ {g}
           /\ UNCHANGED <<stored, crowded>> /\ mem'.sem = mem.sem /\ mem'.count = mem.count
<1>1. UNCHANGED <<stored, crowded>> /\ mem'.sem = mem.sem /\ mem'.count = mem.count
  BY DEF GOpen, GSleep, GPid, GLoad, GKill, Write, TypeInv, TypeOK
<1>2. PICK l \in {"wait", "failed", "asleep", "load", "store"} : gpc' = [gpc EXCEPT ![g] = l]
  BY DEF GOpen, GSleep, GPid, GLoad, GKill, GoTo
<1>3. CASE GPid(g) \/ GLoad(g)
  <2>1. gpc[g] \in Inside /\ l \in Inside
    BY <1>2, <1>3 DEF GPid, GLoad, GoTo, Inside, TypeInv, TypeOK
  <2> QED
    BY <1>1, <1>2, <2>1, Moves
<1>4. CASE GOpen(g) \/ GSleep(g) \/ GKill(g)
  <2>1. l \notin Inside
    BY <1>2, <1>4 DEF GOpen, GSleep, GKill, GoTo, Inside, TypeInv, TypeOK
  <2> QED
    BY <1>1, <1>2, <2>1, Moves
<1> QED
  BY <1>3, <1>4

\* A put adds one permit and one post, and wakes without letting in.
LEMMA Posts ==
    ASSUME TypeInv, NEW p \in Putter, PPost(p)
    PROVE  /\ Posted' = Posted \union {p} /\ p \notin Posted
           /\ Entered' = Entered /\ UNCHANGED <<stored, loaded, crowded>>
           /\ \A g \in Getter : gpc'[g] = "store" => gpc[g] = "store"
           /\ mem'.sem = mem.sem + 1 /\ mem'.count = mem.count
<1>1. /\ mem'.sem = mem.sem + 1 /\ mem'.count = mem.count /\ UNCHANGED <<stored, loaded, crowded>>
      /\ ppc' = [ppc EXCEPT ![p] = "done"] /\ ppc[p] = "start"
  BY DEF PPost, Write, TypeInv, TypeOK
<1>2. Posted' = Posted \union {p} /\ p \notin Posted
  BY <1>1 DEF Posted, TypeInv, TypeOK
<1>3. gpc' = gpc \/ \E g \in Getter : gpc[g] = "asleep" /\ gpc' = [gpc EXCEPT ![g] = "woken"]
  BY DEF PPost, GoTo
<1>4. Entered' = Entered /\ \A g \in Getter : gpc'[g] = "store" => gpc[g] = "store"
  <2>1. CASE gpc' = gpc
    BY <2>1 DEF Entered
  <2>2. CASE \E g \in Getter : gpc[g] = "asleep" /\ gpc' = [gpc EXCEPT ![g] = "woken"]
    <3>1. PICK g \in Getter : gpc[g] = "asleep" /\ gpc' = [gpc EXCEPT ![g] = "woken"]
      BY <2>2
    <3>2. gpc[g] \notin Inside /\ "woken" \notin Inside
      BY <3>1 DEF Inside
    <3>3. \A h \in Getter : gpc'[h] = "store" => gpc[h] = "store"
      BY <3>1 DEF TypeInv, TypeOK
    <3> QED
      BY <3>1, <3>2, <3>3, Moves
  <2> QED
    BY <1>3, <2>1, <2>2
<1> QED
  BY <1>1, <1>2, <1>4

\* The ledger of permits.
LEMMA GrantStep == TypeInv /\ GrantInv /\ [Next]_vars => GrantInv'
<1> SUFFICES ASSUME TypeInv, GrantInv, [Next]_vars PROVE GrantInv'
  OBVIOUS
<1>t. /\ mem.sem \in Nat /\ runs \in Nat
      /\ Cardinality(stored) \in Nat /\ Cardinality(Entered) \in Nat /\ Cardinality(Posted) \in Nat
      /\ IsFiniteSet(stored) /\ IsFiniteSet(Entered) /\ IsFiniteSet(Posted)
  BY Finite DEF TypeInv, TypeOK
<1> DEFINE Room(k) == SEM_NUM * k + Cardinality(Posted)
<1>q. SEM_NUM * runs \in Nat /\ (runs > 0 => SEM_NUM * (runs - 1) \in Nat)
  <2>1. SEM_NUM * runs \in Nat
    BY <1>t, Granted
  <2>2. ASSUME runs > 0 PROVE SEM_NUM * (runs - 1) \in Nat
    <3>1. runs - 1 \in Nat
      BY <1>t, <2>2
    <3> QED
      BY <3>1, Granted
  <2> QED
    BY <2>1, <2>2
<1>r. Room(runs) \in Nat /\ (runs > 0 => Room(runs - 1) \in Nat)
  BY <1>t, <1>q
<1>h. Held \in Nat /\ Held <= Room(runs)
      /\ (mpc \in {"opened", "mapped"} => runs > 0 /\ Held <= Room(runs - 1))
  BY <1>t DEF GrantInv, EntriesAreGranted, Held
\* A step that gives no more than it adds to the right.
<1>s. ASSUME NEW k \in Nat, mpc' \in {"opened", "mapped"} => mpc \in {"opened", "mapped"}, runs' = runs,
             Held' <= Held + k, Cardinality(Posted)' = Cardinality(Posted) + k, Held' \in Nat
      PROVE  GrantInv'
  <2>1. Room(runs)' = Room(runs) + k /\ (runs > 0 => Room(runs - 1)' = Room(runs - 1) + k)
    BY <1>t, <1>q, <1>s
  <2>2. Held' <= Room(runs)' /\ (mpc' \in {"opened", "mapped"} => runs' > 0 /\ Held' <= Room(runs - 1)')
    <3> HIDE DEF Room
    <3> QED
      BY <1>t, <1>r, <1>h, <1>s, <2>1
  <2> QED
    BY <2>2 DEF GrantInv, EntriesAreGranted, Held
<1>1. CASE UNCHANGED vars \/ MKill \/ MSize \/ MNotice \/ MPrint \/ MCopy
  <2>1. /\ UNCHANGED <<mem, gpc, stored, ppc, runs>>
        /\ mpc' \in {"opened", "mapped"} => mpc \in {"opened", "mapped"}
    BY <1>1 DEF vars, monitor, gets, MKill, MSize, MNotice, MPrint, MCopy
  <2>2. Held' = Held /\ Cardinality(Posted)' = Cardinality(Posted)
    BY <2>1 DEF Held, Entered, Posted
  <2> QED
    BY <1>t, <1>h, <1>s, <2>1, <2>2
<1>2. CASE MOpen
  <2>1. UNCHANGED <<mem, gpc, stored, ppc>> /\ runs' = runs + 1
    BY <1>2 DEF MOpen, gets
  <2>2. Held' = Held /\ Cardinality(Posted)' = Cardinality(Posted)
    BY <2>1 DEF Held, Entered, Posted
  <2>3. SEM_NUM * runs' = SEM_NUM * runs + SEM_NUM /\ runs' - 1 = runs /\ SEM_NUM \in Nat
    BY <1>t, <2>1, Granted
  <2>4. Held' <= Room(runs)' /\ runs' > 0 /\ Held' <= Room(runs - 1)'
    BY <1>t, <1>r, <1>h, <2>1, <2>2, <2>3
  <2> QED
    BY <2>4 DEF GrantInv, EntriesAreGranted, Held
<1>3. CASE MInit
  <2>1. /\ UNCHANGED <<gpc, stored, ppc, runs>> /\ mpc = "mapped" /\ mpc' = "watch"
        /\ mem'.sem = SEM_NUM
    BY <1>3 DEF MInit, gets, TypeInv, TypeOK
  <2>2. Entered' = Entered /\ Posted' = Posted
    BY <2>1 DEF Entered, Posted
  <2>3. runs - 1 \in Nat /\ (runs - 1) + 1 = runs /\ Held <= Room(runs - 1)
    BY <1>t, <1>h, <2>1
  <2>4. SEM_NUM * runs = SEM_NUM * (runs - 1) + SEM_NUM
    BY <2>3, Granted
  <2>5. Cardinality(Entered) + Cardinality(stored) <= Held
    BY <1>t DEF Held
  <2>6. Held' = SEM_NUM + Cardinality(Entered) + Cardinality(stored)
    BY <2>1, <2>2 DEF Held
  <2>7. Held' <= Room(runs)'
    BY <1>t, <1>r, <1>h, <2>1, <2>2, <2>3, <2>4, <2>5, <2>6, Granted
  <2> QED
    BY <2>1, <2>7 DEF GrantInv, EntriesAreGranted, Held
<1>4. ASSUME NEW g \in Getter, Get(g) \/ GKill(g) PROVE GrantInv'
  <2>1. UNCHANGED <<mpc, runs, ppc>>
    BY <1>4 DEF Get, GKill, GOpen, GTake, GSleep, GWakeTake, GPid, GLoad, GStore, monitor
  <2>2. Posted' = Posted
    BY <2>1 DEF Posted
  <2>3. Held' \in Nat /\ Held' <= Held
    <3>1. CASE GTake(g) \/ GWakeTake(g)
      <4>1. Cardinality(Entered') = Cardinality(Entered) + 1
        BY <1>t, <3>1, Enters, FS_AddElement
      <4> QED
        BY <1>t, <3>1, <4>1, Enters DEF Held
    <3>2. CASE GStore(g)
      <4>1. /\ Cardinality(Entered') = Cardinality(Entered) - 1
            /\ Cardinality(stored') = Cardinality(stored) + 1
        <5>1. Entered' = Entered \ {g} /\ g \in Entered /\ stored' = stored \union {g} /\ g \notin stored
          BY <3>2, Leaves
        <5>2. Cardinality(Entered \ {g}) = Cardinality(Entered) - 1
          BY <1>t, <5>1, FS_RemoveElement
        <5>3. Cardinality(stored \union {g}) = Cardinality(stored) + 1
          BY <1>t, <5>1, FS_AddElement
        <5> QED
          BY <5>1, <5>2, <5>3
      <4> QED
        BY <1>t, <3>2, <4>1, Leaves DEF Held
    <3>3. CASE GOpen(g) \/ GSleep(g) \/ GPid(g) \/ GLoad(g) \/ GKill(g)
      <4>1. Entered' \subseteq Entered /\ stored' = stored /\ mem'.sem = mem.sem
        BY <3>3, Stays
      <4>2. Cardinality(Entered') <= Cardinality(Entered) /\ Cardinality(Entered') \in Nat
        BY <1>t, <4>1, FS_Subset, FS_CardinalityType
      <4> QED
        BY <1>t, <4>1, <4>2 DEF Held
    <3> QED
      BY <1>4, <3>1, <3>2, <3>3 DEF Get
  <2> QED
    BY <1>t, <1>h, <1>s, <2>1, <2>2, <2>3
<1>5. ASSUME NEW p \in Putter, Put(p) PROVE GrantInv'
  <2>1. UNCHANGED <<mpc, runs>>
    BY <1>5 DEF Put, PFail, PPost, monitor
  <2>2. CASE PFail(p)
    <3>1. Posted' = Posted /\ UNCHANGED <<mem, Entered, stored>>
      BY <2>2 DEF PFail, Posted, Entered, gets, TypeInv, TypeOK
    <3>2. Held' = Held
      BY <3>1 DEF Held
    <3> QED
      BY <1>t, <1>h, <1>s, <2>1, <3>1, <3>2
  <2>3. CASE PPost(p)
    <3>1. Cardinality(Posted') = Cardinality(Posted) + 1
      BY <1>t, <2>3, Posts, FS_AddElement
    <3>2. Held' = Held + 1
      BY <1>t, <2>3, Posts DEF Held
    <3> QED
      BY <1>t, <1>h, <1>s, <2>1, <3>1, <3>2
  <2> QED
    BY <1>5, <2>2, <2>3 DEF Put
<1> QED
  BY <1>1, <1>2, <1>3, <1>4, <1>5 DEF Next, Watch

LEMMA GrantInit == Init => GrantInv
<1> SUFFICES ASSUME Init PROVE GrantInv
  OBVIOUS
<1>1. Entered = {} /\ Posted = {} /\ stored = {} /\ runs = 0 /\ mem.sem = 0 /\ mpc = "off"
  BY DEF Init, Entered, Posted, Inside, Zero
<1>2. SEM_NUM * 0 \in Nat
  BY Granted
<1> QED
  BY <1>1, <1>2, FS_EmptySet DEF GrantInv, EntriesAreGranted

\* Nobody writes without a permit, for any number of permits and users, wherever
\* the monitor is started, stopped and started again.
THEOREM EntriesHold == Spec => []EntriesAreGranted
<1>1. GrantInv => EntriesAreGranted
  BY DEF GrantInv
<1> QED
  BY <1>1, GrantInit, GrantStep, TypeInvariant, PTL DEF Spec
-----------------------------------------------------------------------------
\* The only step that adds to the count adds its get to stored, and adds one to
\* what is there when it is alone.
LEMMA KeepStep == TypeInv /\ KeepInv /\ [Next]_vars => KeepInv'
<1> SUFFICES ASSUME TypeInv, KeepInv, [Next]_vars PROVE KeepInv'
  OBVIOUS
<1>t. /\ mem.count \in Nat /\ loaded \in [Getter -> Nat] /\ crowded \in BOOLEAN
      /\ IsFiniteSet(stored) /\ Cardinality(stored) \in Nat
      /\ gpc \in [Getter -> Waiting \union Inside \union {"start", "done", "failed"}]
  BY Finite DEF TypeInv, TypeOK
\* What leaves the count and its readers alone keeps the invariant.
<1>s. ASSUME UNCHANGED <<loaded, stored, crowded>>, mem'.count = mem.count, Entered' \subseteq Entered,
             \A g \in Getter : gpc'[g] = "store" => gpc[g] = "store"
      PROVE  KeepInv'
  BY <1>s DEF KeepInv, IncrementsAreKept
<1>1. CASE UNCHANGED vars \/ MOpen \/ MKill \/ Watch
  <2>1. UNCHANGED gets /\ mem'.count = mem.count
    BY <1>1 DEF vars, MOpen, MKill, Watch, MSize, MInit, MNotice, MPrint, MCopy, TypeInv, TypeOK
  <2> QED
    BY <1>s, <2>1 DEF gets, Entered
<1>2. ASSUME NEW g \in Getter, GOpen(g) \/ GSleep(g) \/ GPid(g) PROVE KeepInv'
  <2>1. loaded' = loaded /\ \A h \in Getter : gpc'[h] = "store" => gpc[h] = "store"
    BY <1>t, <1>2 DEF GOpen, GSleep, GPid, GoTo
  <2> QED
    BY <1>2, <1>s, <2>1, Stays
<1>3. ASSUME NEW g \in Getter, GTake(g) \/ GWakeTake(g) PROVE KeepInv'
  <2>1. \A h \in Getter : gpc'[h] = "store" => gpc[h] = "store"
    BY <1>t, <1>3 DEF GTake, GWakeTake, Enter, GoTo
  <2>2. /\ Entered' = Entered \union {g} /\ UNCHANGED <<stored, loaded>>
        /\ crowded' = (crowded \/ Entered # {}) /\ mem'.count = mem.count
    BY <1>3, Enters
  <2>3. ~crowded' => ~crowded /\ \A x, y \in Entered' : x = y
    BY <2>2
  <2> QED
    BY <2>1, <2>2, <2>3 DEF KeepInv, IncrementsAreKept
<1>4. ASSUME NEW g \in Getter, GLoad(g) PROVE KeepInv'
  <2>1. /\ loaded' = [loaded EXCEPT ![g] = mem.count] /\ gpc' = [gpc EXCEPT ![g] = "store"]
        /\ gpc[g] = "load"
    BY <1>4 DEF GLoad, GoTo
  <2>2. /\ UNCHANGED <<stored, crowded>> /\ mem'.count = mem.count
        /\ Entered' \subseteq Entered
    BY <1>4, Stays
  <2>3. \A h \in Getter : loaded'[h] <= Cardinality(stored)
    BY <1>t, <2>1 DEF KeepInv, IncrementsAreKept
  <2>4. ~crowded => \A h \in Getter : gpc'[h] = "store" => loaded'[h] = mem.count
    BY <1>t, <2>1 DEF KeepInv
  <2> QED
    BY <2>2, <2>3, <2>4 DEF KeepInv, IncrementsAreKept
<1>5. ASSUME NEW g \in Getter, GKill(g) PROVE KeepInv'
  <2>1. /\ loaded' = [loaded EXCEPT ![g] = 0] /\ gpc' = [gpc EXCEPT ![g] = "failed"]
    BY <1>5 DEF GKill, GoTo
  <2>2. /\ UNCHANGED <<stored, crowded>> /\ mem'.count = mem.count
        /\ Entered' \subseteq Entered
    BY <1>5, Stays
  <2>3. \A h \in Getter : loaded'[h] <= Cardinality(stored)
    BY <1>t, <2>1 DEF KeepInv
  <2>4. ~crowded => \A h \in Getter : gpc'[h] = "store" => loaded'[h] = mem.count
    BY <1>t, <2>1 DEF KeepInv
  <2> QED
    BY <2>2, <2>3, <2>4 DEF KeepInv, IncrementsAreKept
<1>6. ASSUME NEW g \in Getter, GStore(g) PROVE KeepInv'
  <2>1. /\ Entered' = Entered \ {g} /\ g \in Entered /\ g \notin stored
        /\ stored' = stored \union {g} /\ mem'.count = loaded[g] + 1
    BY <1>6, Leaves
  <2>2. /\ loaded' = [loaded EXCEPT ![g] = 0] /\ gpc' = [gpc EXCEPT ![g] = "done"]
        /\ gpc[g] = "store" /\ UNCHANGED crowded
    BY <1>6 DEF GStore, GoTo
  <2>3. Cardinality(stored') = Cardinality(stored) + 1
    BY <1>t, <2>1, FS_AddElement
  <2>4. \A h \in Getter : loaded'[h] <= Cardinality(stored')
    <3>1. \A h \in Getter : loaded[h] <= Cardinality(stored)
      BY DEF KeepInv
    <3> QED
      BY <1>t, <2>2, <2>3, <3>1
  <2>5. IncrementsAreKept'
    <3>1. /\ loaded[g] \in Nat /\ loaded[g] <= Cardinality(stored)
          /\ ~crowded => loaded[g] = Cardinality(stored)
      BY <1>t, <2>2 DEF KeepInv, IncrementsAreKept
    <3> QED
      BY <1>t, <2>1, <2>2, <2>3, <3>1 DEF IncrementsAreKept
  \* Nobody else has read the count.
  <2>6. ~crowded' => /\ \A x, y \in Entered' : x = y
                    /\ \A h \in Getter : gpc'[h] = "store" => loaded'[h] = mem'.count
    <3>1. ASSUME ~crowded, NEW h \in Getter PROVE gpc'[h] # "store"
      <4>1. CASE h = g
        BY <1>t, <2>2, <4>1
      <4>2. CASE h # g
        <5>1. h \notin Entered
          BY <2>1, <3>1, <4>2 DEF KeepInv
        <5> QED
          BY <1>t, <2>2, <4>2, <5>1 DEF Entered, Inside
      <4> QED
        BY <4>1, <4>2
    <3> QED
      BY <2>1, <2>2, <3>1 DEF KeepInv
  <2> QED
    BY <2>4, <2>5, <2>6 DEF KeepInv
<1>7. ASSUME NEW p \in Putter, Put(p) PROVE KeepInv'
  <2>1. CASE PFail(p)
    BY <1>s, <2>1 DEF PFail, gets, Entered
  <2>2. CASE PPost(p)
    <3>1. /\ Entered' = Entered /\ UNCHANGED <<stored, loaded, crowded>>
          /\ \A g \in Getter : gpc'[g] = "store" => gpc[g] = "store"
          /\ mem'.count = mem.count
      BY <2>2, Posts
    <3> QED
      BY <1>s, <3>1
  <2> QED
    BY <1>7, <2>1, <2>2 DEF Put
<1> QED
  BY <1>1, <1>2, <1>3, <1>4, <1>5, <1>6, <1>7 DEF Next, Get

LEMMA KeepInit == Init => KeepInv
<1> SUFFICES ASSUME Init PROVE KeepInv
  OBVIOUS
<1>1. Entered = {} /\ stored = {} /\ Cardinality(stored) = 0 /\ mem.count = 0
  BY FS_EmptySet DEF Init, Entered, Inside, Zero
<1> QED
  BY <1>1 DEF Init, KeepInv, IncrementsAreKept

\* Increments are never invented, and lost only where two gets are inside at a
\* time, for any number of permits and users.
THEOREM IncrementsHold == Spec => []IncrementsAreKept
<1>1. KeepInv => IncrementsAreKept
  BY DEF KeepInv
<1> QED
  BY <1>1, KeepInit, KeepStep, TypeInvariant, PTL DEF Spec
=============================================================================
