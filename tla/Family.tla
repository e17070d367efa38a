------------------------------- MODULE Family -------------------------------
(***************************************************************************)
(* The programs that run as several threads or processes of one family:    *)
(* two threads that share memory under a mutex, a parent that shares a     *)
(* mapping with its children, and one that shares descriptors with its     *)
(* child.  `program` says which of them runs; the others do not move.      *)
(***************************************************************************)
EXTENDS MutexThreads

CONSTANT FORK_NUM    \* of AnonMonitor

VARIABLES
    program,
    spaced, mem, cpc, ppc, turn, local, n, result, writes,    \* AnonMonitor
    kind, fork, at, state, open, data, got                    \* ChildProcess

AM == INSTANCE AnonMonitor WITH mpc <- ppc, i <- turn, status <- result
CP == INSTANCE ChildProcess

ASSUME FamilyAssumption == AM!AnonAssumption

amVars == <<spaced, mem, cpc, ppc, turn, local, n, result, writes>>
cpVars == <<kind, fork, at, state, open, data, got>>
allVars == <<program, vars, amVars, cpVars>>

Threads == program = "threads"
Mapping == program = "mapping"
Talk == program = "talk"

\* The choices of the programs that are not used are fixed.
AllInit ==
    /\ program \in {"threads", "mapping", "talk"}
    /\ Init
    /\ AM!Init /\ (Mapping \/ spaced)
    /\ CP!Init /\ (Talk \/ kind = "pipe")

AllNext ==
    \/ Threads /\ Next /\ UNCHANGED <<program, amVars, cpVars>>
    \/ Mapping /\ AM!Next /\ UNCHANGED <<program, vars, cpVars>>
    \/ Talk /\ CP!Next /\ UNCHANGED <<program, vars, amVars>>

AllSpec == AllInit /\ [][AllNext]_allVars

\* Fairness as in the programs' own FairSpec.
AllMain ==
    \/ Threads /\ Main /\ UNCHANGED <<program, amVars, cpVars>>
    \/ Mapping /\ AM!Parent /\ UNCHANGED <<program, vars, cpVars>>
    \/ Talk /\ CP!Run("parent") /\ UNCHANGED <<program, vars, amVars>>
AllThread(t) == Threads /\ ThreadStep(t) /\ UNCHANGED <<program, amVars, cpVars>>
AllChild(c) == Mapping /\ AM!Send(c) /\ UNCHANGED <<program, vars, cpVars>>
TalkChild == Talk /\ CP!Run("child") /\ UNCHANGED <<program, vars, amVars>>

AllFairSpec ==
    /\ AllSpec /\ WF_allVars(AllMain) /\ WF_allVars(TalkChild)
    /\ \A t \in Thread : WF_allVars(AllThread(t))
    /\ \A c \in AM!Child : WF_allVars(AllChild(c))
-----------------------------------------------------------------------------
TypesOK == TypeOK /\ AM!TypeOK /\ CP!TypeOK
NoZombies == AM!NoZombies
Understood == CP!Understood

ThreadsEnd == Threads => Terminates
ParentEndsOrStarves == Mapping => AM!EndsOrStarves
OrphansEnd == Talk => CP!OrphansEnd
=============================================================================
