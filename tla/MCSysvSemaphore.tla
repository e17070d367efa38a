-------------------------- MODULE MCSysvSemaphore ---------------------------
\* A small instance of SysvSemaphore for TLC.
EXTENDS SysvSemaphore

CONSTANTS s1, s2

\* An index outside the set, one inside, and one that wraps to 1.
MCArg == {-1, 0, 65537}

\* One build whose sem_flg holds 0 or IPC_NOWAIT, one with IPC_NOWAIT or SEM_UNDO.
MCGarbage == {{{}, {"NOWAIT"}}, {{"NOWAIT"}, {"UNDO"}}}
=============================================================================
