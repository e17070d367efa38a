-------------------------- MODULE MCNamedSemaphore --------------------------
\* A small instance of NamedSemaphore for TLC.
EXTENDS NamedSemaphore

CONSTANTS s1, s2, s3
=============================================================================
